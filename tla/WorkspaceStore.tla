--------------------------- MODULE WorkspaceStore ---------------------------
(***************************************************************************)
(* The contents of the workspace file of gosh-ui and what the operations   *)
(* of WorkspaceStore (internal/ui/workspaces.go) make of it.               *)
(*                                                                         *)
(* A record of the file is a session id and the shell state stored for it, *)
(* or NoState.  Names, counts, history and transcript, which the           *)
(* operations copy without looking at another record, are left out.        *)
(***************************************************************************)
EXTENDS Naturals, Sequences

CONSTANTS
    SessionIDs,     \* valid session ids, normalised
    MaxWorkspaces,  \* records the file holds at most, 64 in the code
    NoState         \* a record without a shell state

ASSUME StoreAssumption == MaxWorkspaces \in Nat \ {0}

WorkspaceRecord(id, state) == [session |-> id, state |-> state]

\* sanitize: the records beyond the limit are dropped.
Sanitize(workspaces) ==
    IF Len(workspaces) > MaxWorkspaces THEN SubSeq(workspaces, 1, MaxWorkspaces)
                                       ELSE workspaces

Holds(workspaces, i, id) == workspaces[i].session = id

\* The least index with a property, for a set of indices that is not empty.
First(indices) == CHOOSE i \in indices : \A k \in indices : i <= k
Last(indices)  == CHOOSE i \in indices : \A k \in indices : i >= k

\* The records that have a state for a session.
StatesOf(workspaces, id) ==
    {i \in DOMAIN workspaces :
        Holds(workspaces, i, id) /\ workspaces[i].state # NoState}

\* LoadShellState: the first record of the session that has a state.
LoadState(workspaces, id) ==
    LET found == StatesOf(workspaces, id)
    IN  IF found = {} THEN NoState ELSE workspaces[First(found)].state

\* The state goes into the first record, whatever its session.
SaveStateFault(workspaces, id, state) ==
    IF workspaces = <<>>
      THEN <<WorkspaceRecord(id, state)>>
      ELSE [workspaces EXCEPT ![1].state = state]

\* SaveShellState: the first record of the session, with or without a state,
\* or a new record at the end, which the limit may drop again.
SaveState(workspaces, id, state) ==
    LET found == {i \in DOMAIN workspaces : Holds(workspaces, i, id)}
    IN  Sanitize(IF found = {}
                   THEN Append(workspaces, WorkspaceRecord(id, state))
                   ELSE [workspaces EXCEPT ![First(found)].state = state])

\* A browser's list replaces the file as it is.
MergeFault(next, existing) == next

\* mergeShellStates: a record that comes without a state gets the one stored for
\* its session, of several the last.
Merge(next, existing) ==
    [i \in DOMAIN next |->
        LET found == StatesOf(existing, next[i].session)
        IN  IF next[i].state # NoState \/ found = {}
              THEN next[i]
              ELSE [next[i] EXCEPT !.state = existing[Last(found)].state]]
=============================================================================
