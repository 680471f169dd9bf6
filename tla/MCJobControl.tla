---------------------------- MODULE MCJobControl ----------------------------
(* JobControl on small instances. *)
EXTENDS JobControl

\* The browser UI never subscribes to signals; the command-line shell does.
MCNoSignals  == {}
MCAllSignals == {"INT", "TSTP"}
=============================================================================
