--------------------------- MODULE MCShellDispatch ---------------------------
(***************************************************************************)
(* Texts for TLC: functions that call one another and themselves, that are *)
(* named like a builtin, that define and remove functions and run what     *)
(* their argument or all their arguments say; exit in every place; lines   *)
(* that fail; aliases of each other and one for a variable.                *)
(***************************************************************************)
EXTENDS ShellDispatch

Text(commands) == [error |-> FALSE, commands |-> commands, define |-> <<>>,
                   detached |-> FALSE, output |-> None]
Define(name, text) == [Text(<< <<"fn", name, "=">> >>) EXCEPT !.define = <<name, text>>]
Broken == [Text(<<>>) EXCEPT !.error = TRUE]

\* The quotes of fn f = 'a|' are gone in the text of the body, which is a|.
MCParsed ==
    [t \in {Nothing} |-> Text(<<>>)] @@
    ("a|" :> Broken) @@
    ("exit" :> Text(<< <<"exit">> >>)) @@
    ("f" :> Text(<< <<"f">> >>)) @@
    ("g exit" :> Text(<< <<"g", "exit">> >>)) @@
    ("g $@" :> Text(<< <<"g", "$@">> >>)) @@
    ("$@" :> Text(<< <<"$@">> >>)) @@
    ("$1" :> Text(<< <<"$1">> >>)) @@
    ("$V" :> Text(<< <<"$V">> >>)) @@
    ("bye" :> Text(<< <<"bye">> >>)) @@
    ("two" :> Text(<< <<"two">> >>)) @@
    ("var" :> Text(<< <<"var">> >>)) @@
    ("cat | exit" :> Text(<< <<"cat">>, <<"exit">> >>)) @@
    ("exit &" :> [Text(<< <<"exit">> >>) EXCEPT !.detached = TRUE]) @@
    ("exit > locked" :> [Text(<< <<"exit">> >>) EXCEPT !.output = "locked"]) @@
    ("set V=exit" :> Text(<< <<"set", "V=exit">> >>)) @@
    ("fn f = f" :> Define("f", "f")) @@
    ("fn f = 'a|'" :> Define("f", "a|")) @@
    ("fn g = $1" :> Define("g", "$1")) @@
    ("fn g = $@" :> Define("g", "$@")) @@
    ("fn f = g exit" :> Define("f", "g exit")) @@
    ("fn exit = unfn exit" :> Define("exit", "unfn exit")) @@
    ("vars" :> Text(<< <<"vars">> >>)) @@
    ("jobs" :> Text(<< <<"jobs">> >>)) @@
    ("cd" :> Text(<< <<"cd">> >>)) @@
    ("unset V" :> Text(<< <<"unset", "V">> >>)) @@
    ("unfn exit" :> Text(<< <<"unfn", "exit">> >>))

MCAliasLists ==
    {[environment |-> "bye" :> "a|" @@ "two" :> "cat | exit" @@ "var" :> "$V",
      file |-> "bye" :> "exit" @@ "cd" :> "jobs" @@ "jobs" :> "cd"]}

MCScripts == {<< <<>>, <<>> >>,
              << <<"exit", "set V=exit">>, <<"fn f = f", "f">> >>}

MCAssigned    == "V=exit" :> <<"V", "exit">>
MCShellNames  == {"V", "f", "g", "exit"}
MCReferenceTo == "$V" :> "V" @@ "$1" :> "1" @@ "$@" :> "@"
MCEnvironment == "V" :> "g"
==============================================================================
