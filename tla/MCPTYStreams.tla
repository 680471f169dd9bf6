---------------------------- MODULE MCPTYStreams ----------------------------
(***************************************************************************)
(* Values of the constants of PTYStreams for TLC, and the bounds of its    *)
(* run: one start that writes three chunks to two browsers on any backend, *)
(* or two starts of silent terminals of Linux that one browser reads.  The *)
(* bounds restrict only steps that no fairness asks for (a request, a      *)
(* write and a connection), so they end no behaviour that must go on.      *)
(***************************************************************************)
EXTENDS PTYStreams

CONSTANTS i1, c1, c2

MCBackends == {"linux", "conpty", "pipes"}
MCSessions == {i1}
MCClients  == {c1, c2}

Silent(s) == \A r \in Outputs : written[s][r] = 0

Bounded ==
    /\ \A s \in Streams : written[s][2] <= 1
    /\ nextStream > 2 => /\ backend = "linux"
                         /\ \A s \in Streams : Silent(s)
                         /\ conn[c2] = 0

MCSpec == Init /\ [][Next /\ Bounded']_vars /\ Fairness
=============================================================================
