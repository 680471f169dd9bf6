---------------------------- MODULE ShellDispatch ----------------------------
(***************************************************************************)
(* What gosh does with the text of a line: internal/shell's Run loops and  *)
(* startup scripts, and ExecuteLine, which expands aliases and then looks  *)
(* for a state command, a function, a job command, a builtin and a program *)
(* in this order.  A function runs the text of its body through            *)
(* ExecuteLine again, so the calls in progress form a stack; what the      *)
(* deferred functions of ExecuteLine and runFunction do is a step of its   *)
(* own, taken when the call returns.                                       *)
(*                                                                         *)
(* A text is a name for what the parser makes of it (CommandParser models  *)
(* the parser itself), and its words are whole words.  Job commands and    *)
(* programs only succeed or fail here (JobControl and Pipeline model them).*)
(* The names of commands are in lower case, as the code makes them.        *)
(***************************************************************************)
EXTENDS Naturals, Sequences, SequencesExt

CONSTANTS
    Parsed,         \* Parsed[t]: the commands and redirects of text t; it is
                    \* "detached" when it ends in "&" or reads a file, and its
                    \* output is "locked" when it names a file that cannot be opened
    AliasLists,     \* what the aliases can be in the environment and the file
    Scripts,        \* the pairs of startup scripts, each a sequence of texts
    Assigned,       \* Assigned[w]: the <<name, value>> of a word "name=value"
    ShellNames,     \* words isShellName accepts
    ReferenceTo,    \* ReferenceTo[w]: the variable the word w refers to
    Environment,    \* Environment[v]: the value the shell was started with
    FunctionLimit   \* depth at which a call of a function is refused: 16

Texts     == DOMAIN Parsed
None      == "none"    \* no value, no text
Nothing   == ""        \* the word, and the text, without any character

\* A definition "fn NAME = text" names a text without parameters (bound), and
\* the scripts are what runStartupContent executes of them: no blank line and
\* no comment.
ASSUME ShellDispatchAssumption ==
    /\ FunctionLimit \in Nat
    /\ None \notin Texts
    /\ Nothing \in Texts
    /\ Parsed[Nothing] = [error |-> FALSE, commands |-> <<>>, define |-> <<>>,
                          detached |-> FALSE, output |-> None]
    /\ \A t \in Texts :
         /\ Parsed[t].define # <<>> => Parsed[t].define[2] \in Texts
         /\ \A i \in DOMAIN Parsed[t].commands : DOMAIN Parsed[t].commands[i] # {}
    /\ Scripts \subseteq Seq(Seq(Texts \ {Nothing}))

VARIABLES
    pc,             \* the loop of the shell: where Run is
    interactive,    \* it reads with readline rather than with a buffer
    started,        \* runStartupScripts has run
    scripts,        \* what is left of the startup scripts
    line,           \* the text the loop executes, None before the first
    lastLine,       \* the input ended with that text
    frames,         \* the calls of ExecuteLine in progress, innermost last
    functionDepth, aliases, variables, functions, lastStatus

loopVars  == <<pc, interactive, started, scripts, line, lastLine>>
tableVars == <<aliases, variables, functions>>
vars == <<pc, interactive, started, scripts, line, lastLine, frames,
          functionDepth, aliases, variables, functions, lastStatus>>

StateCommands == {"set", "unset", "vars", "fn", "unfn", "functions"}
JobCommands   == {"jobs", "fg", "bg", "stop"}
Builtins      == {"cd", "pwd", "exit", "help", "echo", "clear", "cls"}

-----------------------------------------------------------------------------
Top == Last(frames)

\* QuoteForRaw: an argument without any character is not written at all.
Written(arg) == IF arg = Nothing THEN <<>> ELSE <<arg>>

\* expandFunctionBody: the words of a body with the arguments put in, where a
\* missing one leaves nothing.
expandFunctionBody(words, args) ==
    FlattenSeq([i \in DOMAIN words |->
        CASE words[i] = "$@" -> FlattenSeq([k \in DOMAIN args |-> Written(args[k])])
          [] words[i] = "$1" -> IF args = <<>> THEN <<>> ELSE Written(args[1])
          [] OTHER           -> <<words[i]>>])

lookupOSEnv(name) == IF name \in DOMAIN Environment THEN Environment[name] ELSE Nothing

lookupEnv(name) ==
    IF name \in ShellNames /\ variables[name] # None THEN variables[name]
                                                   ELSE lookupOSEnv(name)

Expand(words) ==
    [i \in DOMAIN words |->
        IF words[i] \in DOMAIN ReferenceTo THEN lookupEnv(ReferenceTo[words[i]])
                                           ELSE words[i]]

\* ParseLine, which knows nothing of the shell's variables.
ExpandOS(words) ==
    [i \in DOMAIN words |->
        IF words[i] \in DOMAIN ReferenceTo THEN lookupOSEnv(ReferenceTo[words[i]])
                                           ELSE words[i]]

\* One call of ExecuteLine: the text, the commands the parser makes of it, and
\* the two values its deferred function and its caller get.
Call(text, commands, stage, status, ok) ==
    [text |-> text, commands |-> commands, stage |-> stage, status |-> status, ok |-> ok]

NewCall(text, commands) ==
    Call(text, [i \in DOMAIN commands |-> Expand(commands[i])], "parsed", 0, TRUE)

LineCall(text) == NewCall(text, Parsed[text].commands)

BodyCall(text, args) ==
    NewCall(text, [i \in DOMAIN Parsed[text].commands |->
                      expandFunctionBody(Parsed[text].commands[i], args)])

IsBlank ==
    /\ ~Parsed[Top.text].error
    /\ Top.commands \in {<<>>, << <<>> >>}
    /\ ~Parsed[Top.text].detached
    /\ Parsed[Top.text].output = None

IsError ==
    \/ Parsed[Top.text].error
    \/ ~IsBlank /\ <<>> \in Range(Top.commands)

-----------------------------------------------------------------------------
\* An alias must be one command, without redirects, in the foreground.
IsSimple(text) ==
    /\ ~Parsed[text].error
    /\ Len(Parsed[text].commands) = 1
    /\ ~Parsed[text].detached
    /\ Parsed[text].output = None

AliasError ==
    \E command \in Range(Top.commands) :
        command[1] \in DOMAIN aliases /\ ~IsSimple(aliases[command[1]])

\* One level only: what an alias expands to is not looked up again.
ExpandAlias(command) ==
    IF command[1] \in DOMAIN aliases
    THEN ExpandOS(Parsed[aliases[command[1]]].commands[1]) \o Tail(command)
    ELSE command

Name == Top.commands[1][1]
Args == Tail(Top.commands[1])

\* The shell itself can run a single command in the foreground which reads no
\* file; everything else is for the programs of the system.
IsPlain == Len(Top.commands) = 1 /\ ~Parsed[Top.text].detached

IsFunction(name) == name \in ShellNames /\ functions[name] # None

-----------------------------------------------------------------------------
\* The call has decided its status and whether the shell is to go on.
Decided(call, status, ok) == Call(call.text, call.commands, "return", status, ok)

Decide(status, ok) ==
    /\ frames' = [frames EXCEPT ![Len(frames)] = Decided(@, status, ok)]
    /\ UNCHANGED <<loopVars, functionDepth, lastStatus>>

At(stage) == frames # <<>> /\ Top.stage = stage

SyntaxFails ==
    At("parsed") /\ IsError /\ Decide(2, TRUE) /\ UNCHANGED tableVars

NothingToDo ==
    At("parsed") /\ IsBlank /\ Decide(0, TRUE) /\ UNCHANGED tableVars

AliasFails ==
    /\ At("parsed") /\ ~IsError /\ ~IsBlank /\ AliasError
    /\ Decide(1, TRUE) /\ UNCHANGED tableVars

AliasesExpandTo(stage) ==
    /\ At("parsed") /\ ~IsError /\ ~IsBlank /\ ~AliasError
    /\ frames' = [frames EXCEPT ![Len(frames)] =
                    Call(@.text, [i \in DOMAIN @.commands |-> ExpandAlias(@.commands[i])],
                         stage, 0, TRUE)]
    /\ UNCHANGED <<loopVars, tableVars, functionDepth, lastStatus>>

\* What an alias expands to is looked up again.
ExpandAliasesFault ==
    AliasesExpandTo(IF Top.commands[1][1] \in DOMAIN aliases THEN "parsed" ELSE "run")

ExpandAliases == AliasesExpandTo("run")

ShellRuns == At("run") /\ IsPlain

IsFunctionCall == ShellRuns /\ Name \notin StateCommands /\ IsFunction(Name)

IsAssignment ==
    Len(Args) = 1 /\ Args[1] \in DOMAIN Assigned /\ Assigned[Args[1]][1] \in ShellNames

SetVariable ==
    /\ ShellRuns /\ Name = "set"
    /\ IF IsAssignment
         THEN /\ variables' = [variables EXCEPT ![Assigned[Args[1]][1]] = Assigned[Args[1]][2]]
              /\ Decide(0, TRUE)
         ELSE /\ UNCHANGED variables
              /\ Decide(IF Args = <<>> THEN 0 ELSE 1, TRUE)
    /\ UNCHANGED <<aliases, functions>>

\* unset and unfn take one name; one that is not in the table is no error.
IsRemoval == Len(Args) = 1 /\ Args[1] \in ShellNames

Without(table) ==
    [name \in DOMAIN table |-> IF name = Args[1] THEN None ELSE table[name]]

UnsetVariable ==
    /\ ShellRuns /\ Name = "unset"
    /\ variables' = IF IsRemoval THEN Without(variables) ELSE variables
    /\ Decide(IF IsRemoval THEN 0 ELSE 1, TRUE)
    /\ UNCHANGED <<aliases, functions>>

DefineFunction ==
    /\ ShellRuns /\ Name = "fn"
    /\ LET define == Parsed[Top.text].define IN
         IF define # <<>> /\ define[1] \in ShellNames
         THEN /\ functions' = [functions EXCEPT ![define[1]] = define[2]]
              /\ Decide(0, TRUE)
         ELSE UNCHANGED functions /\ Decide(1, TRUE)
    /\ UNCHANGED <<aliases, variables>>

RemoveFunction ==
    /\ ShellRuns /\ Name = "unfn"
    /\ functions' = IF IsRemoval THEN Without(functions) ELSE functions
    /\ Decide(IF IsRemoval THEN 0 ELSE 1, TRUE)
    /\ UNCHANGED <<aliases, variables>>

PrintState ==
    /\ ShellRuns /\ Name \in {"vars", "functions"}
    /\ Decide(0, TRUE) /\ UNCHANGED tableVars

-----------------------------------------------------------------------------
TooDeep == functionDepth >= FunctionLimit

RecursionLimit ==
    IsFunctionCall /\ TooDeep /\ Decide(1, TRUE) /\ UNCHANGED tableVars

\* The text of the body is read here: what the call does to the table of
\* functions does not change it.
CallFunction ==
    /\ IsFunctionCall /\ ~TooDeep
    /\ functionDepth' = functionDepth + 1
    /\ frames' = Append([frames EXCEPT ![Len(frames)] =
                            Call(@.text, @.commands, "called", 0, TRUE)],
                        BodyCall(functions[Name], Args))
    /\ UNCHANGED <<loopVars, tableVars, lastStatus>>

\* A body is done and its caller too: the two deferred functions, that of
\* ExecuteLine for the body and that of runFunction.
BodyReturns(status, ok, depth) ==
    /\ Len(frames) > 1 /\ At("return")
    /\ frames' = [Front(frames) EXCEPT ![Len(frames) - 1] = Decided(@, status, ok)]
    /\ functionDepth' = depth
    /\ lastStatus' = Top.status
    /\ UNCHANGED <<loopVars, tableVars>>

\* A body that exits goes past the decrement.
FunctionReturnsFault ==
    BodyReturns(IF Top.ok THEN 0 ELSE 1, TRUE,
                IF Top.ok THEN functionDepth - 1 ELSE functionDepth)

\* The result of the body is passed on as it is.
FunctionReturnsExitFault == BodyReturns(0, Top.ok, functionDepth - 1)

\* The result of ExecuteLine for the body is only a status for the caller.
FunctionReturns ==
    BodyReturns(IF Top.ok THEN 0 ELSE 1, TRUE, functionDepth - 1)

-----------------------------------------------------------------------------
IsOther == ShellRuns /\ Name \notin StateCommands /\ ~IsFunction(Name)

JobCommand ==
    /\ IsOther /\ Name \in JobCommands
    /\ \E status \in {0, 1} : Decide(status, TRUE)
    /\ UNCHANGED tableVars

\* The output file is opened for whatever is none of the shell's commands,
\* before the name is looked up among the builtins.
RedirectFails ==
    /\ IsOther /\ Name \notin JobCommands
    /\ Parsed[Top.text].output = "locked"
    /\ Decide(1, TRUE) /\ UNCHANGED tableVars

IsBuiltin ==
    IsOther /\ Name \in Builtins /\ Parsed[Top.text].output # "locked"

Exit == IsBuiltin /\ Name = "exit" /\ Decide(0, FALSE) /\ UNCHANGED tableVars

Builtin ==
    /\ IsBuiltin /\ Name # "exit"
    /\ \E status \in {0, 1} : Decide(status, TRUE)
    /\ UNCHANGED tableVars

RunLine ==
    /\ \/ At("run") /\ ~IsPlain
       \/ IsOther /\ Name \notin JobCommands \cup Builtins
                  /\ Parsed[Top.text].output # "locked"
    /\ \E status \in {0, 1} : Decide(status, TRUE)
    /\ UNCHANGED tableVars

ExecuteLine ==
    \/ SyntaxFails \/ NothingToDo \/ AliasFails \/ ExpandAliases
    \/ SetVariable \/ UnsetVariable \/ DefineFunction \/ RemoveFunction \/ PrintState
    \/ RecursionLimit \/ CallFunction \/ FunctionReturns
    \/ JobCommand \/ RedirectFails \/ Exit \/ Builtin \/ RunLine

-----------------------------------------------------------------------------
\* The loop gives a text to ExecuteLine.
Give(text) ==
    /\ line' = text
    /\ frames' = <<LineCall(text)>>
    /\ UNCHANGED <<functionDepth, tableVars, lastStatus>>

Idle == frames = <<>>

\* Run runs the scripts once: the text of GOSH_STARTUP, then that of the file.
Run ==
    /\ pc = "new"
    /\ pc' = "startup" /\ started' = TRUE
    /\ scripts' = IF started THEN <<>> ELSE scripts
    /\ UNCHANGED <<interactive, line, lastLine, frames, functionDepth, tableVars,
                   lastStatus>>

StartupLine ==
    /\ pc = "startup" /\ Idle /\ scripts # <<>> /\ Head(scripts) # <<>>
    /\ Give(Head(Head(scripts)))
    /\ scripts' = [scripts EXCEPT ![1] = Tail(Head(scripts))]
    /\ UNCHANGED <<pc, interactive, started, lastLine>>

StartupEnds ==
    /\ pc = "startup" /\ Idle
    /\ IF scripts # <<>> THEN Head(scripts) = <<>> /\ scripts' = Tail(scripts) /\ UNCHANGED pc
                         ELSE pc' = "prompt" /\ UNCHANGED scripts
    /\ UNCHANGED <<interactive, started, line, lastLine, frames, functionDepth,
                   tableVars, lastStatus>>

\* The user's line.  readline returns the text typed before an interrupt too,
\* and the loop executes it unless it is blank.
ReadLine ==
    /\ pc = "prompt"
    /\ \E text \in Texts : Give(text)
    /\ pc' = "line"
    /\ UNCHANGED <<interactive, started, scripts, lastLine>>

\* Without a terminal the text before the end of the input is a line as well.
ReadLastLine ==
    /\ pc = "prompt" /\ ~interactive
    /\ \E text \in Texts \ {Nothing} : Give(text)
    /\ pc' = "line" /\ lastLine' = TRUE
    /\ UNCHANGED <<interactive, started, scripts>>

\* The input has ended or cannot be read.
InputEnds ==
    /\ pc = "prompt"
    /\ pc' = "ended"
    /\ UNCHANGED <<interactive, started, scripts, line, lastLine, frames,
                   functionDepth, tableVars, lastStatus>>

ReturnsWith(status) ==
    /\ Len(frames) = 1 /\ At("return")
    /\ frames' = <<>>
    /\ lastStatus' = status
    /\ IF pc = "startup"
       THEN /\ scripts' = IF Top.ok THEN scripts ELSE Tail(scripts)
            /\ UNCHANGED pc
       ELSE /\ pc' = IF Top.ok /\ ~lastLine THEN "prompt" ELSE "ended"
            /\ UNCHANGED scripts
    /\ UNCHANGED <<interactive, started, line, lastLine, functionDepth, tableVars>>

\* A line that succeeds leaves the status it found.
LineReturnsFault == ReturnsWith(IF Top.status = 0 THEN lastStatus ELSE Top.status)

\* ExecuteLine returns to the loop, which stops when it is told to; an exit in a
\* startup script only ends that script.
LineReturns == ReturnsWith(Top.status)

\* New and Run: the pairs of the aliases file replace those of GOSH_ALIASES.
Init ==
    /\ pc = "new" /\ started = FALSE
    /\ interactive \in BOOLEAN
    /\ scripts \in Scripts
    /\ line = None /\ lastLine = FALSE
    /\ frames = <<>> /\ functionDepth = 0
    /\ \E list \in AliasLists : aliases = list.file @@ list.environment
    /\ variables = [name \in ShellNames |-> None]
    /\ functions = [name \in ShellNames |-> None]
    /\ lastStatus = 0

ShellStep ==
    Run \/ StartupLine \/ StartupEnds \/ ExecuteLine \/ LineReturns

Next == ShellStep \/ ReadLine \/ ReadLastLine \/ InputEnds

Spec == Init /\ [][Next]_vars

\* The shell's goroutine is scheduled; that the programs of a line end, and so
\* RunLine and the job commands return, is the assumption of this fairness.
FairSpec == Spec /\ WF_vars(ShellStep)

-----------------------------------------------------------------------------
\* functionDepth is the number of function bodies being run, so it is zero at
\* every prompt and the limit counts nested calls and never calls one after
\* another: every way out of a body, errors, exit and the limit itself, takes
\* back what the call added (state.go:119-122).
CallsAreCounted ==
    /\ functionDepth = (IF Idle THEN 0 ELSE Len(frames) - 1)
    /\ functionDepth <= FunctionLimit

\* Only the end of the input and an exit the user typed end the shell: one in a
\* function, in a startup script, in a pipeline, in the background or behind a
\* redirect that cannot be opened does not, nor the word exit as an argument;
\* an exit an alias or a variable stands for does (shell.go:87-90, 159-173).
EndsOnlyAtTheTop ==
    [][pc' = "ended" /\ pc # "ended" =>
         \/ pc = "prompt"
         \/ lastLine
         \/ /\ started /\ pc = "line" /\ Len(frames) = 1
            /\ IsPlain /\ Name = "exit" /\ ~IsFunction("exit")
            /\ Parsed[line].output # "locked"]_vars

\* The status in the prompt is the outermost line's: 2 tells that the line just
\* typed has a syntax error, even if a body it ran has one and wrote its own
\* status on its way out, and a blank line clears it (shell.go:130-133).
StatusIsTheLines ==
    pc = "prompt" /\ line # None =>
        /\ lastStatus = 2 <=> Parsed[line].error
        /\ line = Nothing => lastStatus = 0

\* However functions call each other, and whatever they define or remove while
\* they run, the line ends: the shell asks for another or ends itself.
EveryLineReturns ==
    /\ pc = "startup" ~> pc = "prompt"
    /\ pc = "line" ~> pc \in {"prompt", "ended"}
==============================================================================
