# TLA+ models of gosh

`gosh` is a small shell (`src/cmd/gosh`) and a browser interface for it (`src/cmd/gosh-ui`). This
directory holds TLA+ modules translated from its Go code, TLC configurations that check them on small
instances, and proofs for TLAPS. Paths below are relative to the repository.

1. [Inventory](#1-inventory) 2. [Modules](#2-modules) 3. [Runs and bounds](#3-runs-and-bounds)
4. [Fairness](#4-fairness) 5. [Proofs](#5-proofs) 6. [What the models revealed](#6-what-the-models-revealed)
7. [Not modelled](#7-not-modelled) 8. [Plan](#8-plan)

## 1. Inventory

How the parts hang together: a line of input goes through `parser.ParseLineWithEnv` to
`Shell.ExecuteLine`, which tries state commands, functions, job commands and builtins and hands the rest
to `executor.Executor.RunLine`. The executor starts processes and keeps background jobs in a `JobTable`;
one goroutine per command line waits for the processes. `gosh-ui` makes one `Shell` per browser session,
runs command lines on request and stores what a shell remembers in a file; next to that it runs
interactive programs whose output goes to a browser as an event stream. All UI sessions live in one
process and share its working directory.

| Component | State | Operations | Hard part | What makes it correct |
|---|---|---|---|---|
| Job control: `internal/executor/executor.go`, `process_unix.go`, job commands of `internal/shell/shell.go` | `JobTable` (`nextID`, jobs with status, `done`), processes, waiter goroutines, the signal channel | `Run`, `RunLine`, `waitForeground`, `waitProcesses`, `Add`, `Complete`, `MarkStopped`, `MarkRunning`, `Wait`; `jobs`, `fg`, `bg`, `stop` | a job ends while a command acts on an old snapshot of it; several process groups signalled one by one; a signal that nobody reads | finished is final; a finished job has no process; a stopped job has no running one; `done` is closed once; the prompt returns |
| Interactive streams: `internal/ui/pty.go`, `pty_linux.go`, `pty_windows.go` | `PTYManager.streams`, per stream a program, a context, two channels, three or four goroutines | `Start`, `Stop`, `Get`, `Write`, `Resize`, `copyStream`, the event stream | starts and stops of one session overlap; a bounded channel without a reader; who closes what, when | no send on a closed channel; the map names the live stream; a closed stream ends; output in order |
| UI sessions: `internal/ui/server.go`, `internal/shell/snapshot.go` | `Server.sessions`, per session a shell and its last `State`; the process's working directory; four mutexes | `session`, `Execute`, `Snapshot`, `Restore`, `handleExecute` | one working directory for all sessions; nested mutexes; a snapshot saved after the session is released | a command runs in its session's directory; sessions keep their variables apart; every request ends |
| Workspace store: `internal/ui/workspaces.go` | the workspace file, its temporary file | `Load`, `Save`, `LoadShellState`, `SaveShellState` | crash in a write; a browser's list against a stored state; the limit on records | the file is always whole; a stored state is replaced by its own session only |
| Pipelines and redirects: `RunLine` in `executor.go` | pipes, redirect files, half-started pipelines | `RunLine`, `waitProcesses` | a process that ends early, one that does not start | no output is lost; an end of input is the end; every file is closed; no process waits for ever |
| Shell dispatch: `shell.go`, `state.go`, `internal/builtin` | variables, functions, `functionDepth`, `lastStatus`, aliases | `ExecuteLine`, `runStateCommand`, `runFunction`, `Registry.Run` | recursion through functions | the depth limit, the status, what `exit` ends |
| Parser: `internal/parser/parser.go` | none | `ParseLineWithEnv` | quotes, escapes, expansion; operators known by the value of a token | agrees with a reference definition; a value never splits a word; a quoted word is parsed as the same word |
| Browser: `internal/ui/static/app.js` | list of workspaces, active one, timer, stream | `runCommand`, `syncWorkspacesToServer`, `hydrateWorkspacesFromServer`, `startInteractiveStream` | awaits; several browsers; a debounced save | a result goes to its workspace; no change is lost |
| Terminal rendering, archives, authentication, Windows variants, entry points | see section 7 | | | |

## 2. Modules

| Module | Models |
|---|---|
| `JobLifecycle` | abstract specification: what the user of `jobs`, `fg`, `bg` and `stop` may rely on |
| `JobControl` | the job table, the processes and their waiters, the shell goroutine, signals |
| `JobControlProofs` | theorems about `JobControl` (TLAPS) |
| `Pipeline` | one line in the executor: redirect files, starts, in-process pipes, `waitProcesses` |
| `PipelineProofs` | theorems about `Pipeline` |
| `CommandParser` | `tokenize`, `ParseLineWithEnv`, expansion, `QuoteForRaw` |
| `CommandParserProofs` | theorems about `ParseLineWithEnv`: errors, commands, redirects; recursive functions |
| `TokenizerProofs` | theorems about `tokenize`: agreement with the reference, the round trip of quoting |
| `ShellDispatch` | `Run`, startup, aliases, `ExecuteLine`, functions, what ends the shell |
| `ShellDispatchProofs` | theorems about `ShellDispatch` |
| `PTYStreams` | the interactive streams |
| `PTYStreamsProofs` | theorems about `PTYStreams` |
| `WorkspaceStore` | operators: the contents of the workspace file and what an operation makes of it |
| `WorkspaceStoreProofs` | lemmas about these operators: what is saved is loaded, what a merge keeps |
| `UISessions` | requests, sessions, mutexes, the shared working directory, the file protocol, crashes; extends `WorkspaceStore` |
| `UISessionsProofs` | theorems about `UISessions` |
| `MCJobControl`, `MCPipeline`, `MCCommandParser`, `MCShellDispatch`, `MCPTYStreams`, `MCUISessions` | values of constants for TLC |

Operators whose names end in `Fault` are single plausible mistakes in the definition that follows them.
The specifications do not use them. Substituted for that definition they break a property, which shows
that the property depends on the code.

The modules look at one line of input at different distances. `CommandParser` makes a `Line` of it.
`ShellDispatch` takes the parser's result as given (`Parsed`) and decides who runs it. `Pipeline` runs the
commands of one such line with their files and pipes; `JobControl` has many lines, without pipes, and what
the user does to them. `UISessions` has whole commands only, and the sessions they run in. They are checked
apart: what one promises to the next is a constant or an assumption of that module.

### JobControl

The state is the launched command lines (`proc`, `failed`), their waiters, the table (`nextID`, `status`,
`closed`, `jobLaunch`), the shell goroutine (`pc` and the local variables of the command it runs), and the
signal channel.

- `Add`, `Complete`, `Mark` are one critical section of `JobTable.mu` each. Signals to the process groups
  are sent outside the mutex, one group per step (`SignalGroup`), so that processes end and waiters
  complete between `Get`, the signals and `MarkStopped` or `MarkRunning`.
- `StartBackground`, `StartForeground`, `StartFails` are `RunLine`. Starting a pipeline is one step: no
  code of gosh looks at a pipeline that is half started, except when a start fails.
- `Reap` is `process.Wait`, after which the group cannot be signalled; `WaitProcesses` and `WaiterReturns`
  are the rest of the waiter.
- `ForegroundSignal` and `ForegroundDone` are the two cases of the `select` in `waitForeground`. Adding
  the suspended job and marking it stopped is one step: nobody else knows the job's number yet.
- A process stands for a program with its descendants in its group. `INT` stands for the signals that end
  a program, which it may ignore; `TSTP` suspends. Reuse of process numbers is left out.
- History variable: `pendingFor`, the command line on the terminal when the pending signal was sent.

### Pipeline

One line: `OpenInput` and `OpenOutput` (or `InputFails`, `OutputFails`), `StartProcess` once per command
(or `StartFails`), `AllStarted`, and one of three ends: `ForegroundEnds`, `BackgroundEnds`,
`StopForeground`. Links join the commands. What exec.Cmd and the kernel do to a link is modelled from how
the code uses them and marked external: a kernel pipe on each side, and two goroutines that copy into and
out of an `io.Pipe`, which holds nothing. `CommandWaited`, `CloseWriter`, `CloseReader` are the goroutines
of `waitProcesses`, whose order is the code's; `AllReported` is its loop.

- Output is counted, as nothing on the way reorders it. A command may write and read in any order, stop
  reading, exit or be killed at any time. Ctrl+Z suspends all commands of the foreground line
  (`StopForeground`); `stop` suspends a job, one made by `&` or by Ctrl+Z (`StopJob`), and `fg` or `bg`
  resume it. All its commands are suspended or resumed at once.
- The input of the first and the output of the last command are files or a terminal here. Where they are
  not (`gosh-ui` gives a buffer) exec.Cmd copies them by a goroutine that only its own `Wait` waits for.
- A write to a pipe that nobody reads ends the command (SIGPIPE).

### CommandParser

Runes are abstracted to classes: one letter, `n`, stands for every letter, as the escapes make a
difference for some letters only. Each turn of the loops of `tokenize` and `ParseLineWithEnv` is a step, so
that the invariants speak of every prefix; `Accept` is the body of the first loop. Expansion is the two
passes of the code: `os.Expand` (external), then `%name%`.

The properties compare the scanner with definitions that do not scan: `ReferenceTokens` is the set of
words and operators that the mode of each position gives, `Culprits` the tokens that are out of place.
`TokensAgree` says that the scanner's tokens are that set, in the order of their columns (`InOrder`), and
`LineAgrees` counts places instead of selecting words, since operators that sort or select a sequence are
opaque to the provers.

- The parser knows operators by the value of a token, when quotes and escapes are gone. `Culprits` and
  `LineAgrees` say of this value what is out of place and where words go. `EscapedOperatorsAreWords` does
  not: it counts the pipes of the line by the runes that stand in it unquoted (`Operates`), and the code
  violates it (section 6).
- `QuoteRoundTrip` is the way of a function's arguments: `QuoteForRaw` writes them into the body, which is
  parsed as any line, with its operators and the expansion of each token. `Survives` says which values come
  back; the others are listed in section 6.

### ShellDispatch

The state is the loop (`pc`, `scripts`, `line`), the stack of calls of `ExecuteLine` (`frames`) and what a
shell remembers: `functionDepth`, `aliases`, `variables`, `functions`, `lastStatus`. A step is one decision
of `ExecuteLine`; `CallFunction` pushes a frame and `FunctionReturns` is the two deferred functions and the
return, in their order. The order of the guards is the order of the code: alias, state command, function,
job command, builtin, program.

- A text is a name; `Parsed` says what the parser makes of it. Function bodies are texts of `Parsed`, with
  `$1` and `$@` as words; an empty argument leaves no word in the body (`Written`), as `QuoteForRaw` writes
  nothing for it. An alias is expanded with the environment of the process only (`ExpandOS`). Programs, `cd` and job commands succeed or fail.
- `NewCall` expands the words when the text is parsed. The commands `set`, `fn` and the others see the
  tables as the calls before them left them.

### PTYStreams

The actors are the handlers, the program, the `copyStream` goroutines, the goroutine that waits for the
program, the one that removes the stream from the map, and browsers that read the event stream.
`PTYManager.Start` has two critical sections and is three steps (`BeginStart`, `Launch`, `Register`), so
that starts overlap. `backend` is what the machine gives: a terminal of Linux (one output, closed by
`PTYStream.Close`), a pseudo console of Windows (one output, closed only by the goroutine that waits for
the program, and no end of output before; no exit message if the stream was stopped) or pipes (two outputs,
closed by `cmd.Wait`). The output is a sequence of numbered chunks. As in the code, closing the
output early may lose the rest of it. `Write` and `Resize` pass data to the program and change nothing
that is modelled. History variables: `received`, `overlapped`.

A program may leave processes behind when it exits or is killed (`program` is `"left"`): they go on writing,
nothing in the code ends them, and they end when they like (`LeftoversEnd`). On a terminal of Linux a read
of the master ends only when the last of them is gone, and closing the master does not wake it, so that
`readers.Wait` (`pty_linux.go:66`) returns only then (`HeldOpen`). Pipes and the pipe of a pseudo console
are closed under the reader, which ends at once.

### UISessions and WorkspaceStore

An execute request goes through `Lookup`, `LoadShellState`, `CreateSession` (under `Server.mu`),
`BeginExecute`, `RestoreShell`, `ExecuteLine` (under `Session.mu`, the last two under `shellProcessMu`),
`TakeSnapshot` and `SaveShellState`. Mutexes held at known program points are predicates of the program
counters (`HoldsServer`, `HoldsSession`, `HoldsProcess`); a blocked `Lock` is a guard.

- A shell state is its directory and its settings: by which session the variables and functions were last
  changed, and how many changes they have seen. Prompt status and timing go with them.
- `ExecuteLine` is the command as the session sees it: `cd`, a change of variables or functions, `exit`,
  or nothing. `cd` with a target that does not exist, a builtin, a program and an empty command change
  nothing.
- The file is written under `WorkspaceStore.mu`: the temporary file is truncated, written, renamed, three
  steps with a possible crash or error between any two. A crash loses everything but the files. The
  operating system is assumed to keep what was written (the code does not call `fsync`).
- Records carry a session and a state; other fields are copied independently of each other. Reading the
  list (`GET`) changes nothing; a file that exists can be read.

## 3. Runs and bounds

| Run | Configuration | Bounds | Distinct states |
|---|---|---|---|
| `job_control_ui` | `JobControlUI.cfg` | 2 command lines of up to 2 processes, no signals (a UI shell has none) | 57,590 |
| `job_control_cli` | `JobControlCLI.cfg` | the same with `INT` and `TSTP` | 804,855 |
| `pty` | `PTYStreams.cfg` | 1 session, channel of 1; one start with 2 browsers, outputs of 2 and 1 chunks, on Linux, a pseudo console or pipes; or 2 starts of silent terminals of Linux with 1 browser | 129,673 |
| `ui_sessions` | `UISessions.cfg` | 3 requests of 2 sessions, 1 PUT, 1 crash, 1 fault, 2 directories, a file of 2 records | 561,224 |
| `pipeline` | `Pipeline.cfg` | 3 commands, 2 chunks per link, kernel pipes of 1, 3 shapes of line | 316,162 |
| `command_parser` | `CommandParser.cfg` | all lines of up to 5 runes over the syntax, and of up to 5 over quotes, blanks and variables | 446,818 |
| `shell_dispatch` | `ShellDispatch.cfg` | 27 texts, limit of 3, two startup scripts | 45,996 |

What they show, property by property:

- `job_control_ui`: `DoneClosedIffFinished`, `NoDoubleClose`, `FinishedJobsHaveNoProcess`,
  `FinishedIsFinal`, `StopStopsEveryProcess`, `ResumeResumesEveryProcess`, `FgReportsFinishedJob`, and
  under fairness `BackgroundJobsFinish` and `PromptReturns`. Deadlock is checked too: the prompt is always
  there or something is running.
- `job_control_cli`: `TypeOK`, and `ImplementsLifecycle`: with signals, every step is a step of
  `JobLifecycle` or leaves the statuses alone.
- `pty`: `TypeOK`; `NoSendAfterClose`; `OutputInOrder`; `LiveStreamIsReachable` (with the exception that
  the code has: two overlapping starts leave a live stream nobody can reach, so this property says nothing
  of them); `RegisteredUntilDone`, where the second start gives an old stream a late goroutine that could
  remove its successor; under fairness `ClosedStreamEnds`, `ClientSeesClose` and `DoneStreamIsRemoved`.
  `ClosedStreamEnds` needs a browser that stays, since a full channel without a reader blocks the stream for
  ever, and a terminal of Linux that nothing left behind holds open.
- `ui_sessions`: `TypeOK`, `RunsInItsDirectory`, `SettingsAreOwn`, `FileIsWhole`, `StoredStateIsKept`,
  `SessionRemembers`, `ExitIsFinal`, and under fairness `RequestsEnd`.
- `pipeline`: `NothingIsLost` (every chunk is in one place while its reader lives), `EndMeansAll` (an end
  of input comes after everything), `NothingIsLeft` (commands, goroutines, files), and under fairness
  `PipelineEnds`: what is waited for ends unless it is stopped, also when a command stops reading.
- `command_parser`: `TypeOK`, `TokensAgree`, `ErrorsAreTheFirst`, `LineAgrees`, `QuoteRoundTrip`; operators
  are those the parser takes for them, by value.
- `shell_dispatch`: `CallsAreCounted`, `StatusIsTheLines`, `EndsOnlyAtTheTop`, and under fairness
  `EveryLineReturns`.

Why the bounds are enough to be interesting. Two command lines give a job and a foreground command, or
two jobs with different numbers; two processes give every partial state of a pipeline (one reaped, one
suspended). Two starts are what it takes to overlap; a channel of one fills up with the first chunk and
blocks the other reader. `MCPTYStreams` bounds the steps that no fairness asks for: two starts with
output, or two browsers with both, would multiply the states and add no case, for the streams share
nothing but the map. The three shapes of line are without redirects, with both, and with both in the
background. With two requests of one session around one of another, two requests miss a session at once,
overtake each other on the way to the file, or come after a crash; a file of two records is full after
the browser lists one session more. Three commands are the least with one that reads and writes, and a
full kernel pipe on each side blocks both its neighbours. A limit of three nests a function in another
with room to fail; the texts have a function that calls itself, one that runs its argument, one named
like a builtin, one that removes itself, one with a syntax error, one that runs all its arguments, and a
call with an empty argument. Five runes hold a redirect with a word before and after it, a quote with an
escape inside, and a variable in quotes. Arrivals in order of number lose nothing, as a request may wait
at its first mutex for any time. Deadlock is not checked where the bounded requests simply come to an
end.

The five runs that expect a violation are described in section 6.

## 4. Fairness

Only for what the Go runtime or the kernel does by itself: a goroutine that can take a step takes it
(weak fairness for each), and the kernel kills the program of a cancelled context. Waiting for a mutex
needs no strong fairness: the requests are finitely many and each holds a mutex once. Programs need not
end, users need not type, browsers need not read, except: `UISessions` assumes that the command of an
execute request ends and that writing the file does. The code has no timeout for either, and a command
that never ends does hold `shellProcessMu` and all sessions with it; `RequestsEnd` is about the mutexes,
given that commands end. `Pipeline` assumes that a command which is not blocked and not stopped goes on; as
it writes a bounded amount it exits in the end, but it may do so without reading its input. Nobody need
kill or resume a command. `ShellDispatch` assumes that `RunLine` and the job commands return, so that
`EveryLineReturns` is about the recursion and not about programs. A start (`Launch` or `LaunchFails`) is
assumed to return.

## 5. Proofs

`JobControlProofs` proves for every `MaxLaunch`, `NProc` and set of signals (`JobControlAssumption`: the
two numbers are positive, the signals are among the two modelled):

- `Invariance`: `Spec => []IInv`. `IInv` is the type invariant with the links the properties rest on.
  `DoneClosedIffFinished` and `NoDoubleClose` are not inductive: that the channel is open when a waiter
  completes its job needs to know that the waiter owns the job and no other waiter does
  (`WaitersOwnJobs`, `ClosedByWaiter`), that job numbers are handed out once (`JobsNumbered`), and that
  the waiter of a command line is new when the command line is (`FreshLaunches`). That a finished job has
  no process needs `CollectedMeansReaped`. What `stop`, `fg` and `bg` may conclude when they mark a job is
  `SignalledSoFar`: the groups signalled so far cannot be back in the old state, because only the shell
  goroutine sends these signals and it is busy; `NoGaps` says that the loop over the groups visits all.
- `TypeCorrect`, `DoneChannel`, `ChannelClosedOnce`, `NothingLeftBehind`: invariants checked by the runs.
- `FinishedStays`, `StopIsSound`, `ResumeIsSound`, `FgIsSound`: action properties checked by the runs.
- `Refinement`: `Spec => ImplementsLifecycle`. One lemma per action says what it does to the statuses.

There is one lemma per action (`ReapStep`, `ForegroundSignalStep`, ...), each with one step per conjunct
of `IInv` that the action can disturb; `NextIInv` combines them.

`PipelineProofs` proves for every `N`, `MaxChunks`, `PipeSize` and set of shapes (`PipelineAssumption`: the
sizes are natural numbers, positive but for `MaxChunks`):

- `Invariance`. `EndMeansAll` needs `NothingIsLost`, for a command ends its input when it was closed, and
  that must mean that nothing is on the way. `NothingIsLost` needs to know who closes when: a goroutine of
  `waitProcesses` past `Wait` has seen its command and both copying goroutines end (`WaitedFor`), closes
  the pipes only then (`ClosedAfterWait`), and none exists before every command does (`WaitsLast`,
  `StartedInOrder`). `FilesClosed` carries the order of the opens to `NothingIsLeft`.
- `TypeCorrect`, `NoChunkLost`, `EndIsTheEnd`, `LineLeavesNothing`: the invariants of the run.

`ShellDispatchProofs` proves for every limit, set of texts, aliases and scripts
(`ShellDispatchAssumption`: the limit is a number, the empty text parses to nothing, the body of a
definition is a text, commands before expansion have words):

- `Invariance`. What the properties say of a line that has returned must hold of the stack before:
  `OutermostStatus` says what the outermost call knows at each stage, `ExitIsTheLast` that a call that
  has told the shell to end is the innermost and is an exit, `LoopState` that the outermost call executes
  the line of the loop.
- `DepthIsCounted`, `StatusIsKnownAtThePrompt` (invariants) and `OnlyAnExitEnds` (an action property).

`PTYStreamsProofs` proves for every number of sessions, starts, outputs, chunks and browsers and for a
channel of any size (`PTYAssumption`: there is a session, a stream and room for a message, the backends are
among the three):

- `Invariance`. `NoSendAfterClose` needs to know how far each goroutine of a stream can be (`Stages`): the
  one that waits for the program closes the channels one after the other, and only when every reader has
  ended. `LiveStreamIsReachable` needs that the map names registered streams of the right session
  (`RegisteredAreOwn`) and that a start which overlaps no other has closed the stream that was there
  (`StartsReplace`). `OutputInOrder` is about what browsers received; inductive is the same of what went
  through the channel, `received \o messages` (`TrafficFits`): it is in order, and it ends where the reader
  of each output is (`IsAccounted`).
- `TypeCorrect`, `NoSendIsLate`, `LiveStreamsAreReachable`, `OutputsAreInOrder` (invariants) and
  `OnlyDoneOrReplaced` (the action property `RegisteredUntilDone`).

`WorkspaceStoreProofs` is about the operators, for files of any length (`StoreAssumption`: the limit is
positive). `SavedIsLoaded`: what `SaveShellState` saved `LoadShellState` returns, for every file that lists
the session or has room; the hypothesis is needed, as the code drops a new record beyond the limit. Its
lemmas say what a save leaves alone and that a merge keeps the states of the sessions it lists.

`UISessionsProofs` proves for every number of requests, sessions, crashes and failed writes
(`UIAssumption`: each execute request has one session and is neither a PUT nor `Nobody`, `Home` is a
directory; `PayloadAssumption`: `NoState` is no state, a torn file is none that can be written, a browser's
list is a sequence of session ids):

- `Invariance`. Its first half, `SessionsInv`, is what each mutex protects and where it is held
  (`OneServer`, `OneSession`, `OneProcess`): as long as a request holds `Server.mu` its session is missing
  (`CreatesMissing`), who is past the lookup has one (`HasSession`), and what a request holds in
  memory belongs to its own session (`MemoryIsOwn`). `RunsInItsDirectory` follows from `OneProcess`. The
  second half, `StoreInv`, is what `WorkspaceStore.mu` protects: the temporary file is what its holder
  writes (`WritesItsData`), and files are whole, fit the limit and have no session's variables under another
  (`FilesAreFit`).
- `TypeCorrect`, `DirectoriesArePrivate`, `SettingsArePrivate`, `FileIsAlwaysWhole` (invariants);
  `SessionsRemember`, `ExitsAreFinal` (action properties).
- `StatesAreKept` (`StoredStateIsKept`) rests on a second invariant, `KeepInv`: no session has two records,
  in the file or in what is prepared for it, and what is prepared keeps the states it should. It alone uses
  `BrowserAssumption`: no browser lists a session twice. The server does not look; `newSessionId` in
  `app.js` makes ids up that do not repeat.

`CommandParserProofs` proves for lines of any length and any variables (`TextAssumption`: lines and the
values of variables are texts):

- `Invariance`. `ErrorsAreTheFirst` and `LineAgrees` speak of a line that was read; while it is read,
  `ParseInv` says that no token so far is out of place, and `CollectInv` that the words and redirects
  collected are those of the tokens so far. `ScanInv` and `ColumnsInv` keep the scanner's columns inside
  the line.
- `TypeCorrect`, `FirstErrorIsReported`, `WordsReachTheirCommands`; in the last two operators are what
  spells one, as for the parser.

`TokenizerProofs` is about the scanner:

- `TokensAreTheReference`: the tokens are those of the reference, for lines of any length. The invariant
  (`Agrees`) relates what the scanner has after each rune to the modes (`InMode`), the positions skipped
  (`Skips`), the word begun (`Reads`) and the tokens found (`Found`).
- `OperatorsAreOperators`: if no word of a line spells an operator, what the parser takes for one stands in
  the line neither quoted nor escaped. The lines that `escaped_operators` is about are the only exceptions.
- `RoundTrip`: for every sequence of words that are safe to write (`IsSafe`: quoted, or neither empty nor
  with `'`, `\` or a line feed), `tokenize` reads back what `QuoteForRaw` writes. The proof follows the
  scanner through each quoted word (`Has`).
- `QuotedWordsAreReadBack` applies it to the words of every accepted line: those that survive are no operator
  when they are read, and are expanded to themselves, for they have no `$` and no `%` (`OSExpandKeeps`,
  `ExpandWindowsEnvKeeps`, `ExpandTokenKeeps`, which follow the two copying loops).

The library's theorems on induction and on recursive functions take an operator as a parameter and cannot
be used. Two things replace them. A claim about every number is proved by its least counterexample
(`LeastElement`, from `WFMin`, which takes none); `OneByOne` and `FromZero` state it for sets. That a
recursively defined function exists, with values of the right type, is proved the same way
(`IterationExists`), after which its defining equation may be used. The recursions of `CommandParser` are
all of this form, so what `tokenize` computes for every line could be proved.

Only model-checked: liveness. `BackgroundJobsFinish`, `PromptReturns`, `ClosedStreamEnds`,
`ClientSeesClose`, `DoneStreamIsRemoved`, `RequestsEnd`, `PipelineEnds` and `EveryLineReturns` rest on weak
fairness, hence on `ENABLED`, which the prover does not handle. Every invariant and every action property
that a passing run checks is a theorem, and so is the refinement of `JobLifecycle`. The five runs of
section 6 that expect a violation are outside that, of course.

## 6. What the models revealed

Each of these is a run in which TLC finds a behaviour of the code that the README of the repository does
not lead one to expect.

- `every_job_finishes`: a command suspended with Ctrl+Z becomes a job whose waiter has no job number
  (`executor.go:328-349`). When its processes end it stays listed as it is, and `fg` on it never returns.
- `signal_reaches_its_command`: while `fg` waits in `JobTable.Wait` nobody reads the signal channel. A
  signal sent then, while a process of the job is running, is not forwarded to it: it stays in the
  channel's buffer until the job has ended, and goes to the next foreground command.
- `running_jobs_run`: `stop` on a pipeline whose second process is gone suspends the first, gets an error
  for the second and returns without marking the job (`process_unix.go:70-74`). The job is listed as
  running; `bg` says "already running" and `fg` waits for a suspended process.
- `stored_state_is_current`: `handleExecute` saves a snapshot after it has released the session
  (`server.go:216-218`); of two requests the older snapshot may be written last, and a restart recovers it.
- `escaped_operators`: the parser decides by the value of a token whether it is an operator
  (`parser.go:99`, `parser.go:235`), although the repository's README speaks of escaped operators (line 9).
  `n \&` is accepted, runs in the background and has lost its word; `echo "|"` is refused as a pipeline with
  a command missing.

Visible in `JobControl`: a signal that arrives as a foreground command ends stays in the channel too, and
goes to the next one.

Visible in `PTYStreams`: a process that the program of a terminal left behind keeps the stream open after it
was stopped, and the stream in the map as long as no other replaces it; of two overlapping starts the stream
registered first goes on and can be stopped by nobody.

Visible in `CommandParser`: `Command.Raw`
has lost the quotes, so a function body loses them too; an empty command is always reported at column 1;
columns count from the trimmed line but the caret is printed under the untrimmed one; a redirect whose target
expands to nothing is no redirect; `QuoteForRaw` leaves an empty word, and `'`, `\` or a line feed alone,
without quotes, so that `$@` changes them; a word that spells an operator is one in the body, quoted or not,
and `$` and `%` in it are expanded once more (`Survives` excludes all of these).

Visible in `ShellDispatch`: a function whose body fails, exceeds the limit two levels deep or has a syntax
error leaves status 0; `exit` in a function gives its caller status 1 and the shell goes on; in a startup script it
ends that script only; a function named `exit` or `cd` hides the builtin until `unfn`; redirects of state
commands, functions and job commands are ignored without a word; with readline, Ctrl+C after some text
executes the text; startup scripts are split at `;` inside quotes too, and do not run in `gosh-ui`.

Visible in `Pipeline`: the input file of a line whose output cannot be opened stays open, and commands
started before one that fails to start go on without anybody waiting for them.

Visible in the model of `UISessions` without a run of its own: a session whose directory was removed fails
every later command, `cd` included, because `Execute` returns when `Restore` fails; after a restart the
same error is ignored and the session starts without its variables, in whatever directory the process is.
A session recorded with an empty directory (`Getwd` failed) runs in the directory the session before it
used. A new record beyond the limit of 64 is dropped without an error.

## 7. Not modelled

- Terminal rendering, `index.html`, `app.css`: presentation.
- Encrypted archives: a sequence of WebCrypto calls without state.
- Authentication, static files, JSON limits and id checks: one comparison per request.
- Windows: the pseudo console is a backend of `PTYStreams`; `stop`, `bg` and `fg` on a stopped job are
  refused there, and handles are left out (a stop may use the handle of a process after it was closed).
- Flags, prompt text, history file, completion, `FormatError`: input and output.
- What the builtins print; wildcards, which make several arguments of one; the fallback to `cmd`.
- The output buffers of a UI session. A background job of the session keeps writing to them after the
  request that started it was answered; its text appears in the answer to a later request, or nowhere.
- The browser's script (`app.js`): its workspaces, its timer and its awaits are next in the plan.

## 8. Plan

Done: `JobLifecycle`, `JobControl`, `PTYStreams`, `WorkspaceStore`, `UISessions`, `Pipeline`,
`CommandParser`, `ShellDispatch`, and proofs about each of them (section 5).

Next, in this order:

1. More theorems that no run states: what `Merge` does to a list with a session in it twice, which
   `BrowserAssumption` excludes.
2. `BrowserSync`: two browsers, PUT and GET against the operators of `WorkspaceStore`, the debounce timer
   and the awaits of `runCommand`.
