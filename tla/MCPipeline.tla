----------------------------- MODULE MCPipeline -----------------------------
(* The kinds of line for TLC: without redirects, and with both, which can each *)
(* fail to open, in the foreground and in the background.                      *)
EXTENDS Pipeline

MCShapes == {[input |-> FALSE, output |-> FALSE, background |-> FALSE],
             [input |-> TRUE,  output |-> TRUE,  background |-> FALSE],
             [input |-> TRUE,  output |-> TRUE,  background |-> TRUE]}
=============================================================================
