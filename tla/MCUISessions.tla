---------------------------- MODULE MCUISessions ----------------------------
(* Values of the constants of UISessions for TLC. *)
EXTENDS UISessions

CONSTANTS a, b, c

\* Two requests for session a with one for b between them.
MCTarget == <<a, b, a>>

\* A browser that lists both workspaces in an order of its own, and one that lists
\* another in place of a, so that the file is full when a is saved again.
MCLists == {<<b, a>>, <<c, b>>}

MCNoLists == {}
=============================================================================
