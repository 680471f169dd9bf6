--------------------------- MODULE MCCommandParser ---------------------------
(* Lines and variables for TLC. *)
EXTENDS CommandParser, TLC

CONSTANTS SyntaxLength, ValueLength

\* Every short line over the runes of the syntax, and every short line in which
\* variables are used.
MCInputs ==
    BoundedSeq(Runes \ {"nl", "$", "%"}, SyntaxLength)
      \cup BoundedSeq({"n", "sp", ">", "dq", "$", "%"}, ValueLength)

\* One variable holds an operator, another one a blank and a reference.
MCEnv == (<<"n">> :> <<"|">>) @@ (<<"n", "n">> :> <<"sp", "%", "n", "%">>)
=============================================================================
