------------------------ MODULE WorkspaceStoreProofs ------------------------
(***************************************************************************)
(* Machine-checked proofs about the operators of WorkspaceStore, for files *)
(* of any length, any limit and any set of sessions and states: what a     *)
(* load returns, what a save changes, and what a merge keeps.              *)
(***************************************************************************)
EXTENDS WorkspaceStore, SequenceTheorems, WellFoundedInduction, TLAPS

\* The records and files whose states are in S, or none.
Records(S) == [session : SessionIDs, state : S \cup {NoState}]
Files(S) == Seq(Records(S))

\* No session has two records.
Distinct(file) ==
    \A i, j \in DOMAIN file : file[i].session = file[j].session => i = j

Listed(file, id) == \E i \in DOMAIN file : file[i].session = id

-----------------------------------------------------------------------------
(* The least and the greatest index. *)

\* First picks the least of a set of indices.
LEMMA FirstIsLeast ==
    ASSUME NEW D \in SUBSET Nat, D # {}
    PROVE  First(D) \in D /\ \A k \in D : First(D) <= k
<1> DEFINE R == {p \in Nat \X Nat : p[1] < p[2]}
<1>1. IsWellFoundedOn(R, Nat)
  BY NatLessThanWellFounded DEF OpToRel
<1>2. \E x \in D : \A y \in D : ~(<<y, x>> \in R)
  <2> HIDE DEF R
  <2> QED  BY <1>1, WFMin
<1>3. \A x, y \in Nat : y < x => <<y, x>> \in R
  OBVIOUS
<1>4. \E x \in D : \A y \in D : x <= y
  <2> HIDE DEF R
  <2>1. PICK x \in D : \A y \in D : ~(<<y, x>> \in R)
    BY <1>2
  <2>2. \A y \in D : ~(y < x)
    BY <2>1, <1>3, Zenon
  <2>3. \A y \in D : x <= y
    BY <2>2
  <2> QED  BY <2>3
<1> QED  BY <1>4 DEF First

\* Last picks the greatest of a set of indices with a bound.
LEMMA LastIsGreatest ==
    ASSUME NEW n \in Nat, NEW D \in SUBSET (0..n), D # {}
    PROVE  Last(D) \in D /\ \A k \in D : Last(D) >= k
<1> DEFINE E == {n - i : i \in D}
<1>1. E \in SUBSET Nat /\ E # {}
  <2>1. \A i \in D : n - i \in Nat
    OBVIOUS
  <2>2. \E i : i \in D
    OBVIOUS
  <2> QED  BY <2>1, <2>2
<1>2. First(E) \in E /\ \A k \in E : First(E) <= k
  BY <1>1, FirstIsLeast
<1>3. PICK i \in D : First(E) = n - i
  BY <1>2
<1>4. \A k \in D : n - i <= n - k
  BY <1>2, <1>3
<1>5. \E x \in D : \A k \in D : x >= k
  BY <1>4
<1> QED  BY <1>5 DEF Last

-----------------------------------------------------------------------------
(* The operations. *)

\* A file has a record for each number up to its length.
LEMMA FileIsASequence ==
    ASSUME NEW S, NEW file \in Files(S)
    PROVE  /\ Len(file) \in Nat
           /\ DOMAIN file = 1..Len(file)
           /\ \A i \in 1..Len(file) :
                /\ file[i] \in Records(S)
                /\ file[i].session \in SessionIDs
                /\ file[i].state \in S \cup {NoState}
<1>1. file \in Seq(Records(S))
  BY DEF Files
<1>2. /\ Len(file) \in Nat
      /\ DOMAIN file = 1..Len(file)
      /\ \A i \in 1..Len(file) : file[i] \in Records(S)
  BY <1>1
<1>3. \A record \in Records(S) :
        record.session \in SessionIDs /\ record.state \in S \cup {NoState}
  BY DEF Records
<1> QED  BY <1>2, <1>3

\* sanitize drops the records beyond the limit and changes none.
LEMMA SanitizeCuts ==
    ASSUME NEW S, NEW file \in Files(S)
    PROVE  /\ Sanitize(file) \in Files(S)
           /\ Len(Sanitize(file)) <= MaxWorkspaces
           /\ Len(Sanitize(file)) <= Len(file)
           /\ Len(file) <= MaxWorkspaces => Sanitize(file) = file
           /\ \A i \in DOMAIN Sanitize(file) :
                i \in DOMAIN file /\ Sanitize(file)[i] = file[i]
<1>1. /\ Len(file) \in Nat /\ DOMAIN file = 1..Len(file)
      /\ \A i \in 1..Len(file) : file[i] \in Records(S)
  BY FileIsASequence
<1>2. CASE Len(file) <= MaxWorkspaces
  <2>1. ~(Len(file) > MaxWorkspaces)
    BY <1>1, <1>2, StoreAssumption
  <2>2. Sanitize(file) = file
    BY <2>1, Zenon DEF Sanitize
  <2> QED  BY <1>1, <1>2, <2>2
<1>3. CASE Len(file) > MaxWorkspaces
  <2> DEFINE cut == SubSeq(file, 1, MaxWorkspaces)
  <2>1. Sanitize(file) = cut
    BY <1>3 DEF Sanitize
  <2>2. \A i \in 1..MaxWorkspaces : i \in 1..Len(file) /\ file[i] \in Records(S)
    BY <1>1, <1>3, StoreAssumption
  <2>3. /\ cut \in Seq(Records(S))
        /\ Len(cut) = MaxWorkspaces
        /\ \A i \in 1..MaxWorkspaces : cut[i] = file[1 + i - 1]
    BY <2>2, StoreAssumption, SubSeqProperties
  <2>4. DOMAIN cut = 1..MaxWorkspaces
    BY <2>3
  <2> HIDE DEF cut
  <2> QED  BY <1>1, <1>3, <2>1, <2>2, <2>3, <2>4, StoreAssumption DEF Files
<1> QED  BY <1>1, <1>2, <1>3, StoreAssumption

\* LoadShellState returns a state some record of the session has, or none.
LEMMA LoadFinds ==
    ASSUME NEW S, NEW file \in Files(S), NEW id
    PROVE  /\ LoadState(file, id) \in S \cup {NoState}
           /\ LoadState(file, id) # NoState =>
                \E i \in DOMAIN file :
                    file[i].session = id /\ file[i].state = LoadState(file, id)
<1> DEFINE found == StatesOf(file, id)
<1>1. /\ Len(file) \in Nat /\ DOMAIN file = 1..Len(file)
      /\ \A i \in 1..Len(file) : file[i].state \in S \cup {NoState}
  BY FileIsASequence
<1>2. CASE found = {}
  BY <1>2 DEF LoadState
<1>3. CASE found # {}
  <2>1. found \in SUBSET Nat
    BY <1>1 DEF StatesOf
  <2>2. First(found) \in found
    BY <1>3, <2>1, FirstIsLeast
  <2>3. First(found) \in DOMAIN file /\ file[First(found)].session = id
    BY <2>2 DEF StatesOf, Holds
  <2>4. LoadState(file, id) = file[First(found)].state
    BY <1>3 DEF LoadState
  <2> QED  BY <1>1, <2>3, <2>4
<1> QED  BY <1>2, <1>3

\* A session without a record has no state to load.
LEMMA LoadOfUnlisted ==
    ASSUME NEW file, NEW id, ~Listed(file, id)
    PROVE  LoadState(file, id) = NoState
BY DEF LoadState, StatesOf, Holds, Listed

\* If no session has two records, the state of its record is what is loaded.
LEMMA LoadOfDistinct ==
    ASSUME NEW S, NEW file \in Files(S), Distinct(file),
           NEW i \in DOMAIN file
    PROVE  LoadState(file, file[i].session) = file[i].state
<1> DEFINE id == file[i].session
           found == StatesOf(file, id)
<1>1. found \subseteq {i}
  BY DEF StatesOf, Holds, Distinct
<1>2. CASE found = {}
  <2>1. file[i].state = NoState
    BY <1>2 DEF StatesOf, Holds
  <2> QED  BY <1>2, <2>1 DEF LoadState
<1>3. CASE found # {}
  <2>1. found = {i}
    BY <1>1, <1>3
  <2>2. i \in Nat
    BY FileIsASequence
  <2>3. First(found) = i
    BY <2>1, <2>2, FirstIsLeast
  <2> QED  BY <1>3, <2>3 DEF LoadState
<1> QED  BY <1>2, <1>3

\* SaveShellState writes one record, of its own session, and keeps the others; a
\* new record comes at the end.
LEMMA SaveChangesOne ==
    ASSUME NEW S, NEW file \in Files(S), NEW id \in SessionIDs,
           NEW state \in S \cup {NoState}
    PROVE  /\ SaveState(file, id, state) \in Files(S)
           /\ Len(SaveState(file, id, state)) <= MaxWorkspaces
           /\ \A i \in DOMAIN SaveState(file, id, state) :
                \/ i \in DOMAIN file /\ SaveState(file, id, state)[i] = file[i]
                \/ /\ SaveState(file, id, state)[i] = WorkspaceRecord(id, state)
                   /\ \/ i \in DOMAIN file /\ file[i].session = id
                      \/ i = Len(file) + 1 /\ ~Listed(file, id)
<1> DEFINE found == {i \in DOMAIN file : Holds(file, i, id)}
           new == WorkspaceRecord(id, state)
           longer == Append(file, new)
           changed == [file EXCEPT ![First(found)].state = state]
           Only(f) ==
               \A i \in DOMAIN f :
                   \/ i \in DOMAIN file /\ f[i] = file[i]
                   \/ /\ f[i] = new
                      /\ \/ i \in DOMAIN file /\ file[i].session = id
                         \/ i = Len(file) + 1 /\ ~Listed(file, id)
<1>1. /\ Len(file) \in Nat /\ DOMAIN file = 1..Len(file)
      /\ \A i \in 1..Len(file) : file[i] \in Records(S)
  BY FileIsASequence
<1>2. new \in Records(S)
  BY DEF WorkspaceRecord, Records
<1>3. ASSUME NEW f \in Files(S), Only(f), SaveState(file, id, state) = Sanitize(f)
      PROVE  /\ SaveState(file, id, state) \in Files(S)
             /\ Len(SaveState(file, id, state)) <= MaxWorkspaces
             /\ Only(SaveState(file, id, state))
  <2> DEFINE result == SaveState(file, id, state)
  <2> HIDE DEF new, result
  <2>1. /\ result \in Files(S) /\ Len(result) <= MaxWorkspaces
        /\ \A i \in DOMAIN result : i \in DOMAIN f /\ result[i] = f[i]
    <3>1. result = Sanitize(f)
      BY <1>3 DEF result
    <3> QED  BY <3>1, SanitizeCuts
  <2>2. Only(result)
    BY <1>3, <2>1
  <2> QED  BY <2>1, <2>2 DEF result
<1>4. CASE found = {}
  <2>1. ~Listed(file, id)
    BY <1>4 DEF Listed, Holds
  <2>2. SaveState(file, id, state) = Sanitize(longer)
    BY <1>4 DEF SaveState
  <2>3. /\ longer \in Files(S)
        /\ Len(longer) = Len(file) + 1
        /\ \A i \in 1..Len(file) : longer[i] = file[i]
        /\ longer[Len(file) + 1] = new
    <3> HIDE DEF new
    <3> QED  BY <1>2, AppendProperties DEF Files
  <2>4. Only(longer)
    <3>1. DOMAIN longer = 1..(Len(file) + 1)
      BY <2>3, FileIsASequence
    <3> HIDE DEF new, longer
    <3> QED  BY <1>1, <2>1, <2>3, <3>1
  <2> QED  BY <1>3, <2>2, <2>3, <2>4
<1>5. CASE found # {}
  <2> DEFINE k == First(found)
  <2>1. k \in 1..Len(file) /\ file[k].session = id
    <3>1. found \in SUBSET Nat
      BY <1>1
    <3>2. k \in found
      BY <1>5, <3>1, FirstIsLeast
    <3> QED  BY <1>1, <3>2 DEF Holds
  <2>2. SaveState(file, id, state) = Sanitize(changed)
    BY <1>5 DEF SaveState
  <2>3. [file[k] EXCEPT !.state = state] = new
    <3>1. file[k] \in Records(S)
      BY <1>1, <2>1
    <3> QED  BY <2>1, <3>1 DEF Records, WorkspaceRecord
  <2>4. changed = [file EXCEPT ![k] = new]
    BY <2>3, Zenon
  <2> HIDE DEF k, changed, new
  <2>5. /\ changed \in Files(S)
        /\ DOMAIN changed = DOMAIN file
        /\ \A i \in 1..Len(file) : changed[i] = IF i = k THEN new ELSE file[i]
    BY <1>1, <1>2, <2>1, <2>4, ExceptSeq DEF Files
  <2>6. Only(changed)
    BY <1>1, <2>1, <2>5
  <2>7. SaveState(file, id, state) = Sanitize(changed)
    BY <2>2 DEF changed, k
  <2> QED  BY <1>3, <2>5, <2>6, <2>7 DEF new
<1> QED  BY <1>4, <1>5

\* A save gives no session a second record.
LEMMA SaveKeepsDistinct ==
    ASSUME NEW S, NEW file \in Files(S), NEW id \in SessionIDs,
           NEW state \in S \cup {NoState}, Distinct(file)
    PROVE  Distinct(SaveState(file, id, state))
<1> DEFINE result == SaveState(file, id, state)
<1>1. \A i \in DOMAIN result :
         \/ i \in DOMAIN file /\ result[i].session = file[i].session
         \/ i = Len(file) + 1 /\ result[i].session = id /\ ~Listed(file, id)
  <2>1. \A i \in DOMAIN result :
          \/ i \in DOMAIN file /\ result[i] = file[i]
          \/ /\ result[i] = WorkspaceRecord(id, state)
             /\ \/ i \in DOMAIN file /\ file[i].session = id
                \/ i = Len(file) + 1 /\ ~Listed(file, id)
    BY SaveChangesOne
  <2> HIDE DEF result
  <2> QED  BY <2>1 DEF WorkspaceRecord
<1> HIDE DEF result
<1>2. Distinct(result)
  BY <1>1 DEF Distinct, Listed
<1> QED  BY <1>2 DEF result

\* A save leaves the state that is loaded for another session, unless it drops
\* its record.
LEMMA SaveKeepsOthers ==
    ASSUME NEW S, NEW file \in Files(S), NEW id \in SessionIDs,
           NEW state \in S \cup {NoState}, Distinct(file),
           NEW other, other # id, Listed(SaveState(file, id, state), other)
    PROVE  LoadState(SaveState(file, id, state), other) = LoadState(file, other)
<1> DEFINE result == SaveState(file, id, state)
<1>1. result \in Files(S) /\ Distinct(result)
  BY SaveChangesOne, SaveKeepsDistinct
<1>2. PICK i \in DOMAIN result : result[i].session = other
  BY DEF Listed
<1>3. i \in DOMAIN file /\ result[i] = file[i]
  <2>1. \/ i \in DOMAIN file /\ result[i] = file[i]
        \/ result[i] = WorkspaceRecord(id, state)
    BY SaveChangesOne
  <2> QED  BY <1>2, <2>1 DEF WorkspaceRecord
<1> HIDE DEF result
<1>4. LoadState(result, other) = result[i].state
  BY <1>1, <1>2, LoadOfDistinct
<1>5. LoadState(file, other) = file[i].state
  BY <1>2, <1>3, LoadOfDistinct
<1> QED  BY <1>3, <1>4, <1>5 DEF result

\* What SaveShellState has saved LoadShellState returns, as long as the session is
\* listed or the file has room for it, whatever else the file lists, and how often.
THEOREM SavedIsLoaded ==
    ASSUME NEW S, NEW file \in Files(S), Len(file) <= MaxWorkspaces,
           NEW id \in SessionIDs, NEW state \in S, state # NoState,
           Listed(file, id) \/ Len(file) < MaxWorkspaces
    PROVE  LoadState(SaveState(file, id, state), id) = state
<1> DEFINE found == {i \in DOMAIN file : Holds(file, i, id)}
           new == WorkspaceRecord(id, state)
           longer == Append(file, new)
           changed == [file EXCEPT ![First(found)].state = state]
<1>1. /\ Len(file) \in Nat /\ DOMAIN file = 1..Len(file)
      /\ \A i \in 1..Len(file) : file[i] \in Records(S)
  BY FileIsASequence
<1>2. new \in Records(S) /\ new.session = id /\ new.state = state
  BY DEF WorkspaceRecord, Records
\* A file whose first record of the session has the state.
<1>3. ASSUME NEW f \in Files(S), Len(f) <= MaxWorkspaces,
             SaveState(file, id, state) = Sanitize(f),
             NEW k \in DOMAIN f, f[k].session = id, f[k].state = state,
             \A j \in DOMAIN f : f[j].session = id => k <= j
      PROVE  LoadState(SaveState(file, id, state), id) = state
  <2>1. SaveState(file, id, state) = f
    BY <1>3, SanitizeCuts
  <2>2. k \in StatesOf(f, id) /\ \A j \in StatesOf(f, id) : k <= j
    BY <1>3 DEF StatesOf, Holds
  <2>3. DOMAIN f \subseteq Nat
    BY <1>3, FileIsASequence
  <2>4. StatesOf(f, id) \in SUBSET Nat
    BY <2>3 DEF StatesOf
  <2>5. /\ First(StatesOf(f, id)) \in StatesOf(f, id)
        /\ First(StatesOf(f, id)) <= k
    BY <2>2, <2>4, FirstIsLeast
  <2>6. First(StatesOf(f, id)) = k
    BY <2>2, <2>4, <2>5
  <2> QED  BY <1>3, <2>1, <2>2, <2>6 DEF LoadState
<1>4. CASE found = {}
  <2>1. ~Listed(file, id)
    BY <1>4 DEF Listed, Holds
  <2>2. SaveState(file, id, state) = Sanitize(longer)
    BY <1>4 DEF SaveState
  <2>3. /\ longer \in Files(S)
        /\ Len(longer) = Len(file) + 1
        /\ \A i \in 1..Len(file) : longer[i] = file[i]
        /\ longer[Len(file) + 1] = new
    <3> HIDE DEF new
    <3> QED  BY <1>2, AppendProperties DEF Files
  <2> HIDE DEF new, longer
  <2>4. DOMAIN longer = 1..(Len(file) + 1)
    BY <2>3, FileIsASequence
  <2>5. Len(longer) <= MaxWorkspaces
    BY <1>1, <2>1, <2>3, StoreAssumption
  <2>6. \A j \in DOMAIN longer : longer[j].session = id => Len(file) + 1 <= j
    BY <1>1, <2>1, <2>3, <2>4 DEF Listed
  <2>7. Len(file) + 1 \in DOMAIN longer
    BY <1>1, <2>4
  <2> QED  BY <1>2, <1>3, <2>2, <2>3, <2>5, <2>6, <2>7
<1>5. CASE found # {}
  <2> DEFINE k == First(found)
  <2>1. k \in 1..Len(file) /\ file[k].session = id
        /\ \A j \in 1..Len(file) : file[j].session = id => k <= j
    <3>1. found \in SUBSET Nat
      BY <1>1
    <3>2. k \in found /\ \A j \in found : k <= j
      BY <1>5, <3>1, FirstIsLeast
    <3> QED  BY <1>1, <3>2 DEF Holds
  <2>2. SaveState(file, id, state) = Sanitize(changed)
    BY <1>5 DEF SaveState
  <2>3. [file[k] EXCEPT !.state = state] = new
    <3>1. file[k] \in Records(S)
      BY <1>1, <2>1
    <3> QED  BY <2>1, <3>1 DEF Records, WorkspaceRecord
  <2>4. changed = [file EXCEPT ![k] = new]
    BY <2>3, Zenon
  <2> HIDE DEF k, changed, new
  <2>5. /\ changed \in Files(S)
        /\ Len(changed) = Len(file)
        /\ DOMAIN changed = DOMAIN file
        /\ \A i \in 1..Len(file) : changed[i] = IF i = k THEN new ELSE file[i]
    BY <1>1, <1>2, <2>1, <2>4, ExceptSeq DEF Files
  <2>6. \A j \in DOMAIN changed : changed[j].session = id => k <= j
    BY <1>1, <2>1, <2>5
  <2>7. SaveState(file, id, state) = Sanitize(changed)
    BY <2>2 DEF changed, k
  <2> QED  BY <1>1, <1>2, <1>3, <2>1, <2>5, <2>6, <2>7
<1> QED  BY <1>4, <1>5

\* mergeShellStates leaves a record that has a state, or whose session has none
\* stored, and fills another with a stored state of its session.
LEMMA MergeFills ==
    ASSUME NEW S, NEW next \in Files(S), NEW existing \in Files(S),
           NEW i \in DOMAIN next
    PROVE  LET merged == Merge(next, existing)
               stored == StatesOf(existing, next[i].session)
           IN  /\ merged[i] \in Records(S)
               /\ merged[i].session = next[i].session
               /\ \/ merged[i] = next[i] /\ (next[i].state # NoState \/ stored = {})
                  \/ \E j \in stored : merged[i].state = existing[j].state
<1> DEFINE merged == Merge(next, existing)
           stored == StatesOf(existing, next[i].session)
<1>1. next[i] \in Records(S)
  BY FileIsASequence
<1>2. /\ Len(existing) \in Nat /\ DOMAIN existing = 1..Len(existing)
      /\ \A j \in 1..Len(existing) : existing[j].state \in S \cup {NoState}
  BY FileIsASequence
<1>3. merged[i] = IF next[i].state # NoState \/ stored = {}
                    THEN next[i]
                    ELSE [next[i] EXCEPT !.state = existing[Last(stored)].state]
  BY DEF Merge
<1>4. CASE next[i].state # NoState \/ stored = {}
  BY <1>1, <1>3, <1>4
<1>5. CASE ~(next[i].state # NoState \/ stored = {})
  <2>1. stored \in SUBSET (0..Len(existing)) /\ stored # {}
    BY <1>2, <1>5 DEF StatesOf
  <2>2. Last(stored) \in stored
    BY <1>2, <2>1, LastIsGreatest
  <2>3. existing[Last(stored)].state \in S \cup {NoState}
    BY <1>2, <2>2 DEF StatesOf
  <2>4. merged[i] = [next[i] EXCEPT !.state = existing[Last(stored)].state]
    BY <1>3, <1>5
  <2> HIDE DEF merged, stored
  <2>5. /\ merged[i] \in Records(S)
        /\ merged[i].session = next[i].session
        /\ merged[i].state = existing[Last(stored)].state
    BY <1>1, <2>3, <2>4 DEF Records
  <2> QED  BY <2>2, <2>5 DEF merged, stored
<1> QED  BY <1>4, <1>5

\* mergeShellStates changes neither how many records there are nor their sessions.
LEMMA MergeShape ==
    ASSUME NEW S, NEW next \in Files(S), NEW existing \in Files(S)
    PROVE  /\ Merge(next, existing) \in Files(S)
           /\ Len(Merge(next, existing)) = Len(next)
           /\ DOMAIN Merge(next, existing) = DOMAIN next
<1> DEFINE merged == Merge(next, existing)
<1>1. Len(next) \in Nat /\ DOMAIN next = 1..Len(next)
  BY FileIsASequence
<1>2. \A i \in DOMAIN next : merged[i] \in Records(S)
  BY MergeFills
<1>3. merged = [i \in 1..Len(next) |-> merged[i]]
  BY <1>1 DEF Merge
<1> HIDE DEF merged
<1>4. merged \in [1..Len(next) -> Records(S)]
  BY <1>1, <1>2, <1>3
<1>5. merged \in Files(S) /\ Len(merged) = Len(next)
  BY <1>1, <1>4 DEF Files
<1> QED  BY <1>1, <1>4, <1>5 DEF merged

\* A browser's list, which has no states, loses no state of a session it lists, if
\* neither it nor the file lists a session twice.
LEMMA MergeKeepsStates ==
    ASSUME NEW S, NEW next \in Files(S), NEW existing \in Files(S),
           Distinct(next), Distinct(existing),
           \A i \in DOMAIN next : next[i].state = NoState
    PROVE  /\ Distinct(Merge(next, existing))
           /\ \A id : Listed(Merge(next, existing), id) =>
                LoadState(Merge(next, existing), id) = LoadState(existing, id)
<1> DEFINE merged == Merge(next, existing)
<1>1. merged \in Files(S) /\ DOMAIN merged = DOMAIN next
  BY MergeShape
<1>2. ASSUME NEW i \in DOMAIN next
      PROVE  /\ merged[i].session = next[i].session
             /\ \/ /\ merged[i].state = NoState
                   /\ StatesOf(existing, next[i].session) = {}
                \/ \E j \in StatesOf(existing, next[i].session) :
                     merged[i].state = existing[j].state
  BY <1>2, MergeFills
<1> HIDE DEF merged
<1>3. Distinct(merged)
  BY <1>1, <1>2 DEF Distinct
<1>4. ASSUME NEW i \in DOMAIN merged
      PROVE  LoadState(merged, merged[i].session)
               = LoadState(existing, merged[i].session)
  <2> DEFINE id == merged[i].session
  <2>1. LoadState(merged, id) = merged[i].state
    BY <1>1, <1>3, LoadOfDistinct
  <2>2. CASE StatesOf(existing, id) = {}
    <3>1. merged[i].state = NoState
      BY <1>1, <1>2, <2>2
    <3> QED  BY <2>1, <2>2, <3>1 DEF LoadState
  <2>3. CASE StatesOf(existing, id) # {}
    <3>1. PICK j \in StatesOf(existing, id) : merged[i].state = existing[j].state
      BY <1>1, <1>2, <2>3
    <3>2. j \in DOMAIN existing /\ existing[j].session = id
      BY DEF StatesOf, Holds
    <3>3. LoadState(existing, id) = existing[j].state
      BY <3>2, LoadOfDistinct
    <3> QED  BY <2>1, <3>1, <3>3
  <2> QED  BY <2>2, <2>3
<1> QED  BY <1>3, <1>4 DEF Listed, merged
=============================================================================
