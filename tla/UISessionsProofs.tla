-------------------------- MODULE UISessionsProofs --------------------------
(***************************************************************************)
(* Machine-checked proofs about UISessions, for any number of requests,    *)
(* sessions, browsers and directories, any limit on the file, and crashes  *)
(* and failed writes in any number.                                        *)
(***************************************************************************)
EXTENDS UISessions, WorkspaceStoreProofs

(***************************************************************************)
(* The inductive invariant.  Its first half says what the three mutexes of *)
(* the server protect, each at the program points that hold it; its second *)
(* half what the mutex of the store protects.  A third part, about what    *)
(* the files keep, rests on the first two and on BrowserAssumption, which  *)
(* nothing else here does.                                                 *)
(***************************************************************************)
OneServer ==
    \A r, q \in Requests : HoldsServer(r) /\ HoldsServer(q) => r = q

OneSession ==
    \A r, q \in Requests :
        HoldsSession(r) /\ HoldsSession(q) /\ target[r] = target[q] => r = q

OneProcess ==
    \A r, q \in Requests : HoldsProcess(r) /\ HoldsProcess(q) => r = q

\* The holder of Server.mu makes a session that is still missing: its lookup was
\* under the same mutex.
CreatesMissing ==
    \A r \in Requests : HoldsServer(r) => session[target[r]] = NoSession

\* A request past the lookup has a session, which is open while it is held.
HasSession ==
    \A r \in Requests :
        /\ pc[r] \in {"lock", "run", "executing", "snapshot"}
             => session[target[r]] # NoSession
        /\ HoldsSession(r) => session[target[r]].status = "open"

\* A session that is there is open or has exited.
OpenOrClosed ==
    \A id \in SessionIDs : session[id].status = "none" => session[id] = NoSession

IsOwn(state, id) == state # NoState => state.settings.of \in {Nobody, id}

MemoryIsOwn ==
    /\ \A id \in SessionIDs : IsOwn(session[id].state, id)
    /\ \A r \in Requests : IsOwn(loaded[r], target[r])

SessionsInv ==
    /\ OneServer
    /\ OneSession
    /\ OneProcess
    /\ CreatesMissing
    /\ HasSession
    /\ OpenOrClosed
    /\ RunsInItsDirectory
    /\ MemoryIsOwn

IsOwnFile(file) == \A i \in DOMAIN file : IsOwn(file[i].state, file[i].session)

\* What the holder of the store's mutex writes, on either side of the rename.
WritesItsData == storeMu # Nobody => temp \in {Torn, data}

FilesAreFit ==
    /\ disk # Torn
    /\ Len(disk) <= MaxWorkspaces
    /\ IsOwnFile(disk) /\ IsOwnFile(data)

StoreInv == WritesItsData /\ FilesAreFit

IInv == TypeOK /\ SessionsInv /\ StoreInv

\* While its next contents are prepared the file stays, and they keep the states
\* of the sessions that they list and that are not the one being saved.
DataKeepsStates ==
    storeMu # Nobody =>
        \A id \in SessionIDs :
            \/ storeMu \in Requests /\ target[storeMu] = id
            \/ ~Listed(data, id)
            \/ LoadState(data, id) = LoadState(disk, id)

KeepInv == Distinct(disk) /\ Distinct(data) /\ DataKeepsStates

-----------------------------------------------------------------------------
(* Values. *)

\* A snapshot is a state, whatever has become of the directory.
LEMMA SnapshotIsState ==
    ASSUME NEW d \in Dirs, NEW settings \in Settings
    PROVE  /\ Snapshot(d, settings) \in States
           /\ Snapshot(d, settings).settings = settings
           /\ Snapshot(d, settings).dir \in {d, NoDir}
BY DEF Snapshot, States

\* A state has a directory, or none, and settings.
LEMMA StateFields ==
    ASSUME NEW state \in States
    PROVE  state.dir \in Dirs \cup {NoDir} /\ state.settings \in Settings
BY DEF States

\* The settings of a new shell, and of one that has changed its own.
LEMMA SettingsAreTyped ==
    /\ NoSettings \in Settings
    /\ \A settings \in Settings, id \in SessionIDs :
         /\ Changed(settings, id) \in Settings
         /\ Changed(settings, id).of = id
         /\ Changed(settings, id).changes >= settings.changes
         /\ settings.changes >= settings.changes
BY DEF NoSettings, Settings, Changed

\* A session is there exactly when it has a state.
LEMMA SessionFields ==
    ASSUME TypeOK, NEW id \in SessionIDs
    PROVE  /\ session[id].state \in States \cup {NoState}
           /\ session[id].state = NoState <=> session[id] = NoSession
           /\ session[id] # NoSession => session[id].state \in States
BY DEF TypeOK

\* A new session has a state of its own, whether or not one was stored.
LEMMA CreatedStateIsOwn ==
    ASSUME TypeOK, NEW state \in States \cup {NoState}, NEW id, IsOwn(state, id)
    PROVE  /\ CreatedState(state) \in States
           /\ IsOwn(CreatedState(state), id)
<1>1. cwd \in Dirs
  BY DEF TypeOK
<1>2. NoSettings \in Settings /\ NoSettings.of = Nobody
  BY SettingsAreTyped DEF NoSettings
<1>3. CASE state = NoState \/ RestoreFails(state)
  <2>1. CreatedState(state) = Snapshot(cwd, NoSettings)
    BY <1>3 DEF CreatedState
  <2> QED  BY <1>1, <1>2, <2>1, SnapshotIsState DEF IsOwn
<1>4. CASE ~(state = NoState \/ RestoreFails(state))
  <2>1. CreatedState(state) = Snapshot(RestoredDir(state), state.settings)
    BY <1>4 DEF CreatedState
  <2>2. state \in States /\ state # NoState /\ state.settings \in Settings
    BY <1>4, StateFields
  <2>3. RestoredDir(state) \in Dirs
    BY <1>1 DEF RestoredDir, TypeOK
  <2> QED  BY <2>1, <2>2, <2>3, SnapshotIsState DEF IsOwn
<1> QED  BY <1>3, <1>4

\* What is loaded from the file is of the session it is loaded for.
LEMMA LoadedIsOwn ==
    ASSUME TypeOK, FilesAreFit, NEW id
    PROVE  /\ LoadState(disk, id) \in States \cup {NoState}
           /\ IsOwn(LoadState(disk, id), id)
<1>1. disk \in Files(States)
  BY DEF TypeOK, FilesAreFit, Payloads, Files, Records
<1>2. /\ LoadState(disk, id) \in States \cup {NoState}
      /\ LoadState(disk, id) # NoState =>
           \E i \in DOMAIN disk :
               disk[i].session = id /\ disk[i].state = LoadState(disk, id)
  BY <1>1, LoadFinds
<1> QED  BY <1>2 DEF FilesAreFit, IsOwnFile, IsOwn

-----------------------------------------------------------------------------
(* The steps. *)

\* Init starts in the invariant: there are no sessions, and no request has come.
LEMMA InitIInv == Init => IInv
<1> SUFFICES ASSUME Init PROVE IInv
  OBVIOUS
<1>1. TypeOK
  <2>1. /\ \A id \in SessionIDs : session[id] = NoSession
        /\ NoSession \in [status : {"none", "open", "closed"},
                            state : States \cup {NoState}]
        /\ NoSession.state = NoState
    BY DEF Init, NoSession
  <2>2. <<>> \in Payloads /\ Len(<<>>) <= MaxWorkspaces
    BY StoreAssumption, EmptySeq DEF Payloads
  <2> HIDE DEF NoSession
  <2> QED  BY <2>1, <2>2, UIAssumption DEF Init, TypeOK, Arrived
<1>2. SessionsInv
  BY DEF Init, SessionsInv, OneServer, OneSession, OneProcess, CreatesMissing, HasSession,
         OpenOrClosed, RunsInItsDirectory, MemoryIsOwn, IsOwn, HoldsServer, HoldsSession, HoldsProcess,
         NoSession
<1>3. StoreInv
  <2>1. disk # Torn
    BY PayloadAssumption, EmptySeq DEF Init, Payloads
  <2>2. Len(disk) <= MaxWorkspaces
    BY StoreAssumption, EmptySeq DEF Init
  <2>3. DOMAIN <<>> = {}
    OBVIOUS
  <2> QED  BY <2>1, <2>2, <2>3 DEF Init, StoreInv, WritesItsData, FilesAreFit, IsOwnFile
<1> QED  BY <1>1, <1>2, <1>3 DEF IInv

\* A step that leaves the store keeps its part of the invariant.
LEMMA StoreUnchanged ==
    ASSUME StoreInv, UNCHANGED storeVars
    PROVE  StoreInv'
BY DEF StoreInv, storeVars, WritesItsData, FilesAreFit, IsOwnFile, IsOwn

\* A request arrives.
LEMMA ArriveStep ==
    ASSUME IInv, NEW r \in Requests, Arrive(r)
    PROVE  IInv'
<1>1. /\ pc[r] = "idle" /\ pc' = [pc EXCEPT ![r] = "lookup"]
      /\ UNCHANGED <<session, cwd, exists, loaded, storeVars, faultVars>>
  BY DEF Arrive, Goto
<1>2. TypeOK'
  BY <1>1 DEF IInv, TypeOK, Arrived, storeVars, faultVars
<1>3. \A q \in Requests : pc'[q] = IF q = r THEN "lookup" ELSE pc[q]
  BY <1>1 DEF IInv, TypeOK
<1>4. SessionsInv'
  BY <1>1, <1>3 DEF IInv, SessionsInv, OneServer, OneSession, OneProcess, CreatesMissing,
       HasSession, RunsInItsDirectory, OpenOrClosed, MemoryIsOwn, IsOwn, HoldsServer, HoldsSession,
       HoldsProcess
<1> QED  BY <1>1, <1>2, <1>4, StoreUnchanged DEF IInv

\* A request that finds no session loads its state, and then no other one does.
LEMMA LookupStep ==
    ASSUME IInv, NEW r \in Requests, Lookup(r)
    PROVE  IInv'
<1> DEFINE label == IF session[target[r]] = NoSession THEN "load" ELSE "lock"
<1>1. /\ pc[r] = "lookup" /\ pc' = [pc EXCEPT ![r] = label] /\ ServerFree
      /\ UNCHANGED <<session, cwd, exists, loaded, storeVars, faultVars>>
  BY DEF Lookup, Goto
<1>2. TypeOK'
  BY <1>1 DEF IInv, TypeOK, Arrived, storeVars, faultVars
<1>3. \A q \in Requests : pc'[q] = IF q = r THEN label ELSE pc[q]
  BY <1>1 DEF IInv, TypeOK
<1>4. SessionsInv'
  BY <1>1, <1>3 DEF IInv, SessionsInv, OneServer, OneSession, OneProcess, CreatesMissing,
       HasSession, RunsInItsDirectory, OpenOrClosed, MemoryIsOwn, IsOwn, HoldsServer, HoldsSession,
       HoldsProcess, ServerFree
<1> QED  BY <1>1, <1>2, <1>4, StoreUnchanged DEF IInv

\* The state that is loaded is of the session of the request.
LEMMA LoadShellStateStep ==
    ASSUME IInv, NEW r \in Requests, LoadShellState(r)
    PROVE  IInv'
<1> DEFINE found == LoadState(disk, target[r])
<1>1. /\ pc[r] = "load" /\ pc' = [pc EXCEPT ![r] = "create"]
      /\ loaded' = [loaded EXCEPT ![r] = found]
      /\ UNCHANGED <<session, cwd, exists, storeVars, faultVars>>
  BY DEF LoadShellState, Goto
<1>2. found \in States \cup {NoState} /\ IsOwn(found, target[r])
  BY LoadedIsOwn DEF IInv, StoreInv
<1> HIDE DEF found
<1>3. TypeOK'
  BY <1>1, <1>2 DEF IInv, TypeOK, Arrived, storeVars, faultVars
<1>4. \A q \in Requests : /\ pc'[q] = IF q = r THEN "create" ELSE pc[q]
                         /\ loaded'[q] = IF q = r THEN found ELSE loaded[q]
  BY <1>1 DEF IInv, TypeOK
<1>5. SessionsInv'
  BY <1>1, <1>2, <1>4 DEF IInv, SessionsInv, OneServer, OneSession, OneProcess,
       CreatesMissing, HasSession, RunsInItsDirectory, OpenOrClosed, MemoryIsOwn, IsOwn, HoldsServer,
       HoldsSession, HoldsProcess
<1> QED  BY <1>1, <1>3, <1>5, StoreUnchanged DEF IInv

\* The new session takes the place of none, and has a state of its own.
LEMMA CreateSessionStep ==
    ASSUME IInv, NEW r \in Requests, CreateSession(r)
    PROVE  IInv'
<1> DEFINE id == target[r]
           state == CreatedState(loaded[r])
           new == [status |-> "open", state |-> state]
<1>1. /\ pc[r] = "create" /\ pc' = [pc EXCEPT ![r] = "lock"] /\ ProcessFree
      /\ session' = [session EXCEPT ![id] = new]
      /\ cwd' = IF loaded[r] = NoState THEN cwd ELSE RestoredDir(loaded[r])
      /\ loaded' = [loaded EXCEPT ![r] = NoState]
      /\ UNCHANGED <<exists, storeVars, faultVars>>
  BY DEF CreateSession, Goto
<1>2. id \in SessionIDs /\ session[id] = NoSession
  BY <1>1, UIAssumption DEF IInv, SessionsInv, CreatesMissing, HoldsServer
<1>3. state \in States /\ IsOwn(state, id)
  <2>1. loaded[r] \in States \cup {NoState} /\ IsOwn(loaded[r], id)
    BY DEF IInv, TypeOK, SessionsInv, MemoryIsOwn
  <2> QED  BY <2>1, CreatedStateIsOwn DEF IInv
<1> HIDE DEF state, id
<1>4. state # NoState /\ new # NoSession /\ new.status = "open" /\ new.state = state
  BY <1>3, PayloadAssumption DEF NoSession
<1>5. cwd' \in Dirs
  BY <1>1 DEF IInv, TypeOK, RestoredDir
<1>6. \A q \in Requests : /\ pc'[q] = IF q = r THEN "lock" ELSE pc[q]
                         /\ loaded'[q] = IF q = r THEN NoState ELSE loaded[q]
  BY <1>1 DEF IInv, TypeOK
<1>7. \A i \in SessionIDs : session'[i] = IF i = id THEN new ELSE session[i]
  BY <1>1 DEF IInv, TypeOK
<1>8. TypeOK'
  <2>1. session' \in [SessionIDs -> [status : {"none", "open", "closed"},
                                     state : States \cup {NoState}]]
    BY <1>1, <1>3 DEF IInv, TypeOK
  <2>2. \A i \in SessionIDs : session'[i].state = NoState <=> session'[i] = NoSession
    BY <1>4, <1>7 DEF IInv, TypeOK
  <2> QED  BY <1>1, <1>5, <2>1, <2>2 DEF IInv, TypeOK, Arrived, storeVars, faultVars
<1>9. SessionsInv'
  <2>1. OneServer' /\ OneSession' /\ OneProcess'
    BY <1>1, <1>6 DEF IInv, SessionsInv, OneServer, OneSession, OneProcess, HoldsServer,
         HoldsSession, HoldsProcess
  <2>2. CreatesMissing'
    BY <1>1, <1>6, <1>7, UIAssumption DEF IInv, SessionsInv, OneServer, CreatesMissing,
         HoldsServer
  <2>3. HasSession'
    BY <1>1, <1>4, <1>6, <1>7, UIAssumption DEF id, IInv, SessionsInv, HasSession,
         HoldsSession
  <2>6. OpenOrClosed'
    BY <1>4, <1>7 DEF IInv, SessionsInv, OpenOrClosed
  <2>4. RunsInItsDirectory'
    BY <1>1, <1>6 DEF ProcessFree, HoldsProcess, RunsInItsDirectory
  <2>5. MemoryIsOwn'
    <3>1. \A i \in SessionIDs : IsOwn(session'[i].state, i)
      BY <1>3, <1>4, <1>7 DEF IInv, SessionsInv, MemoryIsOwn
    <3>2. \A q \in Requests : IsOwn(loaded'[q], target[q])
      BY <1>6 DEF IInv, SessionsInv, MemoryIsOwn, IsOwn
    <3> QED  BY <3>1, <3>2 DEF MemoryIsOwn, IsOwn
  <2> QED  BY <2>1, <2>2, <2>3, <2>4, <2>5, <2>6 DEF SessionsInv
<1> QED  BY <1>1, <1>8, <1>9, StoreUnchanged DEF IInv

\* A request gets its session, alone, or is answered because the session has exited.
LEMMA BeginExecuteStep ==
    ASSUME IInv, NEW r \in Requests, BeginExecute(r)
    PROVE  IInv'
<1> DEFINE label == IF session[target[r]].status = "closed" THEN "answered" ELSE "run"
<1>1. /\ pc[r] = "lock" /\ pc' = [pc EXCEPT ![r] = label] /\ SessionFree(target[r])
      /\ UNCHANGED <<session, cwd, exists, loaded, storeVars, faultVars>>
  BY DEF BeginExecute, Goto
<1>2. TypeOK'
  BY <1>1 DEF IInv, TypeOK, Arrived, Ended, storeVars, faultVars
<1>3. \A q \in Requests : pc'[q] = IF q = r THEN label ELSE pc[q]
  BY <1>1 DEF IInv, TypeOK
<1>4. label = "run" => session[target[r]].status = "open"
  <2>1. target[r] \in SessionIDs /\ session[target[r]] # NoSession
    BY <1>1, UIAssumption DEF IInv, SessionsInv, HasSession
  <2>2. session[target[r]].status # "none"
    BY <2>1 DEF IInv, SessionsInv, OpenOrClosed
  <2> QED  BY <2>1, <2>2 DEF IInv, TypeOK
<1>5. SessionsInv'
  BY <1>1, <1>3, <1>4 DEF IInv, SessionsInv, OneServer, OneSession, OneProcess,
       CreatesMissing, HasSession, RunsInItsDirectory, MemoryIsOwn, IsOwn, HoldsServer,
       HoldsSession, HoldsProcess, SessionFree, OpenOrClosed
<1> QED  BY <1>1, <1>2, <1>5, StoreUnchanged DEF IInv

\* A request that gets the process moves it to the directory of its session.
LEMMA RestoreShellStep ==
    ASSUME IInv, NEW r \in Requests, RestoreShell(r)
    PROVE  IInv'
<1> DEFINE state == session[target[r]].state
           label == IF RestoreFails(state) THEN "snapshot" ELSE "executing"
<1>1. /\ pc[r] = "run" /\ pc' = [pc EXCEPT ![r] = label] /\ ProcessFree
      /\ cwd' = IF RestoreFails(state) THEN cwd ELSE RestoredDir(state)
      /\ UNCHANGED <<session, exists, loaded, storeVars, faultVars>>
  BY DEF RestoreShell, Goto
<1>2. cwd' \in Dirs
  BY <1>1 DEF IInv, TypeOK, RestoredDir
<1>3. TypeOK'
  BY <1>1, <1>2 DEF IInv, TypeOK, Arrived, storeVars, faultVars
<1>4. \A q \in Requests : pc'[q] = IF q = r THEN label ELSE pc[q]
  BY <1>1 DEF IInv, TypeOK
<1>5. label = "executing" => cwd' = state.dir \/ state.dir = NoDir
  BY <1>1 DEF RestoreFails, RestoredDir
<1> HIDE DEF label
<1>6. label \in {"snapshot", "executing"}
  BY DEF label
<1>7. RunsInItsDirectory'
  BY <1>1, <1>4, <1>5 DEF RunsInItsDirectory, ProcessFree, HoldsProcess
<1>8. OneServer' /\ OneSession' /\ OneProcess' /\ CreatesMissing'
  BY <1>1, <1>4, <1>6 DEF IInv, SessionsInv, OneServer, OneSession, OneProcess,
       CreatesMissing, HoldsServer, HoldsSession, HoldsProcess, ProcessFree
<1>9. HasSession' /\ OpenOrClosed' /\ MemoryIsOwn'
  BY <1>1, <1>4, <1>6 DEF IInv, SessionsInv, HasSession, OpenOrClosed, MemoryIsOwn, IsOwn,
       HoldsSession
<1>10. SessionsInv'
  BY <1>7, <1>8, <1>9 DEF SessionsInv
<1> QED  BY <1>1, <1>3, <1>10, StoreUnchanged DEF IInv

\* A command leaves its session open or closed, in a state of its own.
LEMMA ExecutedStep ==
    ASSUME IInv, NEW r \in Requests, NEW status \in {"open", "closed"},
           NEW dir \in Dirs, NEW settings \in Settings,
           settings.of \in {Nobody, target[r]}, Executed(r, status, dir, settings)
    PROVE  IInv'
<1> DEFINE id == target[r]
           state == Snapshot(dir, settings)
           new == [status |-> status, state |-> state]
           label == IF status = "closed" THEN "answered" ELSE "snapshot"
<1>1. /\ pc[r] = "executing" /\ pc' = [pc EXCEPT ![r] = label]
      /\ session' = [session EXCEPT ![id] = new]
      /\ cwd' = dir
      /\ UNCHANGED <<exists, loaded, storeVars, faultVars>>
  BY DEF Executed, Goto
<1>2. id \in SessionIDs /\ session[id] # NoSession
  BY <1>1, UIAssumption DEF IInv, SessionsInv, HasSession
<1>3. state \in States /\ IsOwn(state, id)
  BY SnapshotIsState DEF IsOwn
<1> HIDE DEF state, id, label
<1>4. state # NoState /\ new # NoSession /\ new.status = status /\ new.state = state
  BY <1>3, PayloadAssumption DEF NoSession
<1>5. \A q \in Requests : pc'[q] = IF q = r THEN label ELSE pc[q]
  BY <1>1 DEF IInv, TypeOK
<1>6. label \in {"answered", "snapshot"}
  BY DEF label
<1>7. \A i \in SessionIDs : session'[i] = IF i = id THEN new ELSE session[i]
  BY <1>1 DEF IInv, TypeOK
<1>8. TypeOK'
  <2>1. session' \in [SessionIDs -> [status : {"none", "open", "closed"},
                                     state : States \cup {NoState}]]
    BY <1>1, <1>3 DEF IInv, TypeOK
  <2>2. \A i \in SessionIDs : session'[i].state = NoState <=> session'[i] = NoSession
    BY <1>4, <1>7 DEF IInv, TypeOK
  <2> QED  BY <1>1, <1>6, <2>1, <2>2 DEF IInv, TypeOK, Arrived, Ended, storeVars, faultVars
<1>9. SessionsInv'
  <2>1. OneServer' /\ OneSession' /\ OneProcess'
    BY <1>1, <1>5, <1>6 DEF IInv, SessionsInv, OneServer, OneSession, OneProcess,
         HoldsServer, HoldsSession, HoldsProcess
  \* No other request makes this session, or holds it.
  <2>2. CreatesMissing'
    BY <1>1, <1>2, <1>5, <1>6, <1>7, UIAssumption DEF IInv, SessionsInv, CreatesMissing,
         HoldsServer
  <2>3. HasSession'
    BY <1>1, <1>4, <1>5, <1>6, <1>7, UIAssumption DEF id, IInv, SessionsInv, OneSession,
         HasSession, HoldsSession
  <2>4. RunsInItsDirectory'
    BY <1>1, <1>5, <1>6 DEF IInv, SessionsInv, OneProcess, HoldsProcess, RunsInItsDirectory
  <2>5. OpenOrClosed'
    BY <1>4, <1>7 DEF IInv, SessionsInv, OpenOrClosed
  <2>6. MemoryIsOwn'
    <3>1. \A i \in SessionIDs : IsOwn(session'[i].state, i)
      BY <1>3, <1>4, <1>7 DEF IInv, SessionsInv, MemoryIsOwn
    <3>2. \A q \in Requests : IsOwn(loaded'[q], target[q])
      BY <1>1 DEF IInv, SessionsInv, MemoryIsOwn
    <3> QED  BY <3>1, <3>2 DEF MemoryIsOwn, IsOwn
  <2> QED  BY <2>1, <2>2, <2>3, <2>4, <2>5, <2>6 DEF SessionsInv
<1> QED  BY <1>1, <1>8, <1>9, StoreUnchanged DEF IInv

\* The settings of a session whose request executes are its own.
LEMMA ExecutesOwnSettings ==
    ASSUME IInv, NEW r \in Requests, pc[r] = "executing"
    PROVE  /\ target[r] \in SessionIDs
           /\ session[target[r]].state \in States
           /\ session[target[r]].state.settings \in Settings
           /\ session[target[r]].state.settings.of \in {Nobody, target[r]}
<1>1. target[r] \in SessionIDs /\ session[target[r]] # NoSession
  BY UIAssumption DEF IInv, SessionsInv, HasSession
<1>2. session[target[r]].state \in States
  BY <1>1, SessionFields DEF IInv
<1>3. session[target[r]].state # NoState
  BY <1>2, PayloadAssumption
<1> QED  BY <1>1, <1>2, <1>3, StateFields DEF IInv, SessionsInv, MemoryIsOwn, IsOwn

\* A command is a cd, a change of the settings or an exit.
LEMMA ExecuteLineStep ==
    ASSUME IInv, NEW r \in Requests, ExecuteLine(r)
    PROVE  IInv'
<1> DEFINE settings == session[target[r]].state.settings
<1>1. pc[r] = "executing"
  BY DEF ExecuteLine, Executed
<1>2. /\ target[r] \in SessionIDs /\ settings \in Settings
      /\ settings.of \in {Nobody, target[r]}
  BY <1>1, ExecutesOwnSettings
<1>3. /\ Changed(settings, target[r]) \in Settings
      /\ Changed(settings, target[r]).of = target[r]
  BY <1>2, SettingsAreTyped
<1>4. cwd \in Dirs /\ exists \subseteq Dirs
  BY DEF IInv, TypeOK
<1>5. CASE \E d \in exists \cup {cwd} : Executed(r, "open", d, settings)
  <2>1. PICK d \in exists \cup {cwd} : Executed(r, "open", d, settings)
    BY <1>5
  <2> QED  BY <1>2, <1>4, <2>1, ExecutedStep
<1>6. CASE Executed(r, "open", cwd, Changed(settings, target[r]))
  BY <1>3, <1>4, <1>6, ExecutedStep
<1>7. CASE Executed(r, "closed", cwd, settings)
  BY <1>2, <1>4, <1>7, ExecutedStep
<1> QED  BY <1>5, <1>6, <1>7 DEF ExecuteLine

\* The state that will be saved is of the session of the request.
LEMMA TakeSnapshotStep ==
    ASSUME IInv, NEW r \in Requests, TakeSnapshot(r)
    PROVE  IInv'
<1> DEFINE state == session[target[r]].state
<1>1. /\ pc[r] = "snapshot" /\ pc' = [pc EXCEPT ![r] = "save"]
      /\ loaded' = [loaded EXCEPT ![r] = state]
      /\ UNCHANGED <<session, cwd, exists, storeVars, faultVars>>
  BY DEF TakeSnapshot, Goto
<1>2. state \in States \cup {NoState} /\ IsOwn(state, target[r])
  BY UIAssumption, SessionFields DEF IInv, SessionsInv, MemoryIsOwn
<1> HIDE DEF state
<1>3. TypeOK'
  BY <1>1, <1>2 DEF IInv, TypeOK, Arrived, storeVars, faultVars
<1>4. \A q \in Requests : /\ pc'[q] = IF q = r THEN "save" ELSE pc[q]
                         /\ loaded'[q] = IF q = r THEN state ELSE loaded[q]
  BY <1>1 DEF IInv, TypeOK
<1>5. SessionsInv'
  BY <1>1, <1>2, <1>4 DEF IInv, SessionsInv, OneServer, OneSession, OneProcess,
       CreatesMissing, HasSession, OpenOrClosed, RunsInItsDirectory, MemoryIsOwn, IsOwn,
       HoldsServer, HoldsSession, HoldsProcess
<1> QED  BY <1>1, <1>3, <1>5, StoreUnchanged DEF IInv

\* The contents of the file are a file of records with states.
LEMMA PayloadsAreFiles == Payloads = Files(States)
BY DEF Payloads, Files, Records

\* What SaveShellState writes fits the file, and each state in it is of its session.
LEMMA SavedFits ==
    ASSUME NEW file \in Payloads, IsOwnFile(file), NEW id \in SessionIDs,
           NEW state \in States \cup {NoState}, IsOwn(state, id)
    PROVE  /\ SaveState(file, id, state) \in Payloads
           /\ Len(SaveState(file, id, state)) <= MaxWorkspaces
           /\ IsOwnFile(SaveState(file, id, state))
<1> DEFINE result == SaveState(file, id, state)
<1>1. /\ result \in Payloads /\ Len(result) <= MaxWorkspaces
      /\ \A i \in DOMAIN result :
           \/ i \in DOMAIN file /\ result[i] = file[i]
           \/ result[i] = WorkspaceRecord(id, state)
  BY SaveChangesOne, PayloadsAreFiles
<1> HIDE DEF result
<1>2. IsOwnFile(result)
  <2> SUFFICES ASSUME NEW i \in DOMAIN result
               PROVE  IsOwn(result[i].state, result[i].session)
    BY DEF IsOwnFile
  <2>1. CASE i \in DOMAIN file /\ result[i] = file[i]
    BY <2>1 DEF IsOwnFile
  <2>2. CASE result[i] = WorkspaceRecord(id, state)
    BY <2>2 DEF WorkspaceRecord
  <2> QED  BY <1>1, <2>1, <2>2
<1> QED  BY <1>1, <1>2 DEF result

\* What a browser sends: its list without states, as long as the limit allows.
Sent(list) == Sanitize([i \in DOMAIN list |-> WorkspaceRecord(list[i], NoState)])

\* What is sent are records of sessions without states, as in the list.
LEMMA SentFits ==
    ASSUME NEW list \in Lists
    PROVE  /\ Sent(list) \in Files(States)
           /\ Len(Sent(list)) <= MaxWorkspaces
           /\ \A i \in DOMAIN Sent(list) :
                /\ i \in DOMAIN list
                /\ Sent(list)[i].session = list[i]
                /\ Sent(list)[i].state = NoState
<1> DEFINE all == [i \in DOMAIN list |-> WorkspaceRecord(list[i], NoState)]
<1>1. list \in Seq(SessionIDs)
  BY PayloadAssumption
<1>2. /\ Len(list) \in Nat /\ DOMAIN list = 1..Len(list)
      /\ \A i \in 1..Len(list) : list[i] \in SessionIDs
  BY <1>1
<1>3. \A i \in 1..Len(list) :
        /\ all[i] \in Records(States)
        /\ all[i].session = list[i]
        /\ all[i].state = NoState
  BY <1>2 DEF WorkspaceRecord, Records
<1>4. DOMAIN all = 1..Len(list) /\ all = [i \in 1..Len(list) |-> all[i]]
  BY <1>2
<1>5. Sent(list) = Sanitize(all)
  BY DEF Sent
<1> HIDE DEF all
<1>6. all \in [1..Len(list) -> Records(States)]
  BY <1>3, <1>4
<1>7. all \in Files(States)
  BY <1>2, <1>6 DEF Files
<1>8. /\ Sanitize(all) \in Files(States)
      /\ Len(Sanitize(all)) <= MaxWorkspaces
      /\ \A i \in DOMAIN Sanitize(all) :
           i \in DOMAIN all /\ Sanitize(all)[i] = all[i]
  BY <1>7, SanitizeCuts
<1> QED  BY <1>2, <1>3, <1>4, <1>5, <1>8

\* What Save makes of it fits the file, and each state in it is of its session.
LEMMA MergedFits ==
    ASSUME NEW list \in Lists, NEW file \in Payloads, IsOwnFile(file)
    PROVE  /\ Merge(Sent(list), file) \in Payloads
           /\ Len(Merge(Sent(list), file)) <= MaxWorkspaces
           /\ IsOwnFile(Merge(Sent(list), file))
<1> DEFINE merged == Merge(Sent(list), file)
<1>1. /\ Sent(list) \in Files(States) /\ Len(Sent(list)) <= MaxWorkspaces
      /\ \A i \in DOMAIN Sent(list) : Sent(list)[i].state = NoState
  BY SentFits
<1>2. file \in Files(States)
  BY PayloadsAreFiles
<1>3. /\ merged \in Payloads /\ Len(merged) <= MaxWorkspaces
      /\ DOMAIN merged = DOMAIN Sent(list)
  BY <1>1, <1>2, MergeShape, PayloadsAreFiles
<1>4. ASSUME NEW i \in DOMAIN Sent(list)
      PROVE  IsOwn(merged[i].state, merged[i].session)
  <2>1. /\ merged[i].session = Sent(list)[i].session
        /\ \/ merged[i] = Sent(list)[i]
           \/ \E j \in StatesOf(file, Sent(list)[i].session) :
                merged[i].state = file[j].state
    BY <1>1, <1>2, MergeFills
  <2>2. CASE merged[i] = Sent(list)[i]
    BY <1>1, <2>2 DEF IsOwn
  <2>3. CASE \E j \in StatesOf(file, Sent(list)[i].session) :
               merged[i].state = file[j].state
    <3>1. PICK j \in StatesOf(file, Sent(list)[i].session) :
                 merged[i].state = file[j].state
      BY <2>3
    <3>2. j \in DOMAIN file /\ file[j].session = merged[i].session
      BY <2>1, <3>1 DEF StatesOf, Holds
    <3> QED  BY <3>1, <3>2 DEF IsOwnFile
  <2> QED  BY <2>1, <2>2, <2>3
<1> HIDE DEF merged
<1>5. IsOwnFile(merged)
  BY <1>3, <1>4 DEF IsOwnFile
<1> QED  BY <1>3, <1>5 DEF merged

\* A step that only moves a request outside what the mutexes of the server protect
\* keeps their part of the invariant.
LEMMA SessionsUnchanged ==
    ASSUME IInv,
           UNCHANGED <<session, cwd>>,
           \A q \in Requests : loaded'[q] = loaded[q] \/ loaded'[q] = NoState,
           \A q \in Requests :
               pc'[q] = pc[q] \/ pc'[q] \in {"saving", "answered", "failed", "lost"}
    PROVE  SessionsInv'
<1>1. OneServer' /\ OneSession' /\ OneProcess' /\ CreatesMissing' /\ HasSession'
  BY DEF IInv, SessionsInv, OneServer, OneSession, OneProcess, CreatesMissing, HasSession,
       HoldsServer, HoldsSession, HoldsProcess
<1>2. OpenOrClosed' /\ RunsInItsDirectory' /\ MemoryIsOwn'
  BY DEF IInv, SessionsInv, OpenOrClosed, RunsInItsDirectory, MemoryIsOwn, IsOwn
<1> QED  BY <1>1, <1>2 DEF SessionsInv

\* The request takes the mutex of the store and makes the next file from the last.
LEMMA SaveShellStateStep ==
    ASSUME IInv, NEW r \in Requests, SaveShellState(r)
    PROVE  IInv'
<1>1. /\ pc[r] = "save" /\ pc' = [pc EXCEPT ![r] = "saving"]
      /\ storeMu = Nobody /\ storeMu' = r
      /\ data' = SaveState(disk, target[r], loaded[r])
      /\ loaded' = [loaded EXCEPT ![r] = NoState]
      /\ temp' = Torn
      /\ UNCHANGED <<disk, session, cwd, exists, faultVars>>
  BY DEF SaveShellState, StoreFree, OpenTemp, Goto
<1>2. /\ data' \in Payloads /\ Len(data') <= MaxWorkspaces
      /\ IsOwnFile(data')
  <2>1. disk \in Payloads /\ IsOwnFile(disk) /\ target[r] \in SessionIDs
    BY UIAssumption DEF IInv, TypeOK, StoreInv, FilesAreFit
  <2>2. loaded[r] \in States \cup {NoState} /\ IsOwn(loaded[r], target[r])
    BY DEF IInv, TypeOK, SessionsInv, MemoryIsOwn
  <2> QED  BY <1>1, <2>1, <2>2, SavedFits
<1>3. TypeOK'
  BY <1>1, <1>2, UIAssumption DEF IInv, TypeOK, Arrived, faultVars
<1>4. SessionsInv'
  <2>1. \A q \in Requests : /\ pc'[q] = IF q = r THEN "saving" ELSE pc[q]
                           /\ loaded'[q] = IF q = r THEN NoState ELSE loaded[q]
    BY <1>1 DEF IInv, TypeOK
  <2> QED  BY <1>1, <2>1, SessionsUnchanged
<1>5. StoreInv'
  BY <1>1, <1>2 DEF IInv, StoreInv, WritesItsData, FilesAreFit, IsOwnFile, IsOwn
<1> QED  BY <1>3, <1>4, <1>5 DEF IInv

\* A browser's request does so too.
LEMMA PutWorkspacesStep ==
    ASSUME IInv, NEW p \in Puts, PutWorkspaces(p)
    PROVE  IInv'
<1>1. /\ pc[p] = "idle" /\ pc' = [pc EXCEPT ![p] = "saving"]
      /\ storeMu = Nobody /\ storeMu' = p
      /\ \E list \in Lists : data' = Merge(Sent(list), disk)
      /\ temp' = Torn
      /\ UNCHANGED <<disk, session, cwd, exists, loaded, faultVars>>
  BY DEF PutWorkspaces, StoreFree, OpenTemp, Goto, Sent
<1>2. /\ data' \in Payloads /\ Len(data') <= MaxWorkspaces
      /\ IsOwnFile(data')
  <2>1. PICK list \in Lists : data' = Merge(Sent(list), disk)
    BY <1>1
  <2>2. disk \in Payloads /\ IsOwnFile(disk)
    BY DEF IInv, TypeOK, StoreInv, FilesAreFit
  <2> QED  BY <2>1, <2>2, MergedFits
<1>3. TypeOK'
  BY <1>1, <1>2, UIAssumption DEF IInv, TypeOK, Arrived, faultVars
<1>4. SessionsInv'
  <2>1. \A q \in Requests : pc'[q] = pc[q] \/ pc'[q] = "saving"
    BY <1>1 DEF IInv, TypeOK
  <2> QED  BY <1>1, <2>1, SessionsUnchanged
<1>5. StoreInv'
  BY <1>1, <1>2 DEF IInv, StoreInv, WritesItsData, FilesAreFit, IsOwnFile, IsOwn
<1> QED  BY <1>3, <1>4, <1>5 DEF IInv

\* The temporary file is written.
LEMMA WriteTempStep ==
    ASSUME IInv, WriteTemp
    PROVE  IInv'
<1>1. /\ storeMu # Nobody /\ temp' = data
      /\ UNCHANGED <<session, cwd, exists, requestVars, storeMu, data, disk, faultVars>>
  BY DEF WriteTemp
<1>2. TypeOK'
  BY <1>1 DEF IInv, TypeOK, requestVars, faultVars
<1>3. SessionsInv'
  BY <1>1, SessionsUnchanged DEF requestVars
<1>4. StoreInv'
  BY <1>1 DEF IInv, StoreInv, WritesItsData, FilesAreFit, IsOwnFile, IsOwn
<1> QED  BY <1>2, <1>3, <1>4 DEF IInv

\* The mutex of the store is released, with the last file or the one in the
\* temporary file in place.
LEMMA ReleaseStep ==
    ASSUME IInv, storeMu # Nobody, NEW answer \in {"answered", "failed"},
           Release(answer), disk' = disk \/ (temp # Torn /\ disk' = temp),
           crashes' \in 0..MaxCrashes, faults' \in 0..MaxFaults
    PROVE  IInv'
<1>1. /\ storeMu' = Nobody /\ data' = <<>> /\ temp' = Torn
      /\ pc' = [pc EXCEPT ![storeMu] = answer]
      /\ UNCHANGED <<session, cwd, exists, loaded>>
  BY DEF Release, Goto
<1>2. storeMu \in Requests \cup Puts
  BY DEF IInv, TypeOK
<1>3. <<>> \in Payloads /\ Len(<<>>) = 0 /\ DOMAIN <<>> = {}
  BY EmptySeq DEF Payloads
<1>4. disk' = disk \/ disk' = data
  BY DEF IInv, StoreInv, WritesItsData
<1>5. TypeOK'
  <2>1. \A q \in Requests \cup Puts : pc'[q] # "saving"
    BY <1>1, <1>2 DEF IInv, TypeOK
  <2>2. pc' \in [Requests \cup Puts -> {"idle"} \cup Arrived \cup Ended]
    BY <1>1, <1>2 DEF IInv, TypeOK, Ended
  <2>3. Len(data') <= MaxWorkspaces /\ data' \in Payloads
    BY <1>1, <1>3, StoreAssumption
  <2> QED  BY <1>1, <1>4, <2>1, <2>2, <2>3, UIAssumption DEF IInv, TypeOK
<1>6. SessionsInv'
  <2>1. \A q \in Requests : pc'[q] = pc[q] \/ pc'[q] = answer
    BY <1>1, <1>2 DEF IInv, TypeOK
  <2> QED  BY <1>1, <2>1, SessionsUnchanged
<1>7. StoreInv'
  <2>1. WritesItsData'
    BY <1>1 DEF WritesItsData
  <2>2. disk' # Torn /\ Len(disk') <= MaxWorkspaces
    BY <1>4, PayloadAssumption DEF IInv, TypeOK, StoreInv, FilesAreFit
  <2>3. IsOwnFile(disk') /\ IsOwnFile(data')
    BY <1>1, <1>3, <1>4 DEF IInv, StoreInv, FilesAreFit, IsOwnFile
  <2> QED  BY <2>1, <2>2, <2>3 DEF StoreInv, FilesAreFit, IsOwnFile, IsOwn
<1> QED  BY <1>5, <1>6, <1>7 DEF IInv

\* A save ends by the rename, or by a write or a rename that fails.
LEMMA RenameStep ==
    ASSUME IInv, Rename \/ SaveFails
    PROVE  IInv'
<1>1. crashes \in 0..MaxCrashes /\ faults \in 0..MaxFaults
  BY DEF IInv, TypeOK
<1>2. CASE Rename
  BY <1>1, <1>2, ReleaseStep DEF Rename, faultVars
<1>3. CASE SaveFails
  BY <1>1, <1>3, ReleaseStep, UIAssumption DEF SaveFails
<1> QED  BY <1>2, <1>3

\* A directory goes: no session and no file changes.
LEMMA RemoveDirStep ==
    ASSUME IInv, NEW d \in Dirs, RemoveDir(d)
    PROVE  IInv'
<1>1. /\ exists' \subseteq exists /\ faults < MaxFaults /\ faults' = faults + 1
      /\ UNCHANGED <<session, cwd, requestVars, storeVars, crashes>>
  BY DEF RemoveDir
<1>2. TypeOK'
  BY <1>1, UIAssumption DEF IInv, TypeOK, requestVars, storeVars
<1>3. SessionsInv'
  BY <1>1, SessionsUnchanged DEF requestVars
<1> QED  BY <1>1, <1>2, <1>3, StoreUnchanged DEF IInv

\* After a crash there are no sessions, and the file is as it was.
LEMMA CrashStep ==
    ASSUME IInv, Crash
    PROVE  IInv'
<1>1. /\ crashes < MaxCrashes /\ crashes' = crashes + 1
      /\ session' = [id \in SessionIDs |-> NoSession]
      /\ cwd' = Home
      /\ pc' = [r \in DOMAIN pc |-> IF pc[r] \in Arrived THEN "lost" ELSE pc[r]]
      /\ loaded' = [r \in Requests |-> NoState]
      /\ storeMu' = Nobody
      /\ data' = <<>>
      /\ UNCHANGED <<exists, temp, disk, faults>>
  BY DEF Crash
<1>2. \A q \in Requests \cup Puts : pc'[q] \in {"idle"} \cup Ended /\ pc'[q] # "saving"
  BY <1>1 DEF IInv, TypeOK, Arrived, Ended
<1>3. TypeOK'
  <2>1. /\ NoSession \in [status : {"none", "open", "closed"},
                           state : States \cup {NoState}]
        /\ NoSession.state = NoState
    BY DEF NoSession
  <2>2. <<>> \in Payloads /\ Len(<<>>) <= MaxWorkspaces
    BY StoreAssumption, EmptySeq DEF Payloads
  <2>3. pc' \in [Requests \cup Puts -> {"idle"} \cup Arrived \cup Ended]
    BY <1>1, <1>2 DEF IInv, TypeOK
  <2> HIDE DEF NoSession
  <2>4. /\ session' \in [SessionIDs ->
                          [status : {"none", "open", "closed"}, state : States \cup {NoState}]]
        /\ \A id \in SessionIDs : session'[id].state = NoState <=> session'[id] = NoSession
    BY <1>1, <2>1
  <2>5. \A q \in Requests \cup Puts : storeMu' = q <=> pc'[q] = "saving"
    BY <1>1, <1>2, UIAssumption
  <2>6. /\ cwd' \in Dirs /\ exists' \in SUBSET Dirs
        /\ loaded' \in [Requests -> States \cup {NoState}]
        /\ crashes' \in 0..MaxCrashes /\ faults' \in 0..MaxFaults
    BY <1>1, UIAssumption DEF IInv, TypeOK
  <2> QED  BY <1>1, <2>2, <2>3, <2>4, <2>5, <2>6 DEF IInv, TypeOK
<1>4. SessionsInv'
  BY <1>1, <1>2, UIAssumption DEF SessionsInv, OneServer, OneSession, OneProcess,
       CreatesMissing, HasSession, OpenOrClosed, RunsInItsDirectory, MemoryIsOwn, IsOwn,
       HoldsServer, HoldsSession, HoldsProcess, NoSession, Ended
<1>5. StoreInv'
  <2>1. DOMAIN <<>> = {}
    OBVIOUS
  <2> QED  BY <1>1, <2>1 DEF IInv, StoreInv, WritesItsData, FilesAreFit, IsOwnFile, IsOwn
<1> QED  BY <1>3, <1>4, <1>5 DEF IInv

\* Every step keeps the invariant.
LEMMA NextIInv == IInv /\ [Next]_vars => IInv'
<1> SUFFICES ASSUME IInv, [Next]_vars PROVE IInv'
  OBVIOUS
<1>1. ASSUME NEW r \in Requests, Arrive(r) \/ Step(r) PROVE IInv'
  BY <1>1, ArriveStep, LookupStep, LoadShellStateStep, CreateSessionStep, BeginExecuteStep,
     RestoreShellStep, ExecuteLineStep, TakeSnapshotStep, SaveShellStateStep DEF Step
<1>2. ASSUME NEW p \in Puts, PutWorkspaces(p) PROVE IInv'
  BY <1>2, PutWorkspacesStep
<1>3. CASE WriteTemp \/ Rename \/ SaveFails
  BY <1>3, WriteTempStep, RenameStep
<1>4. ASSUME NEW d \in Dirs, RemoveDir(d) PROVE IInv'
  BY <1>4, RemoveDirStep
<1>5. CASE Crash
  BY <1>5, CrashStep
<1>6. CASE UNCHANGED vars
  <2>1. TypeOK'
    BY <1>6 DEF IInv, TypeOK, vars
  <2>2. SessionsInv'
    BY <1>6, SessionsUnchanged DEF vars
  <2> QED  BY <1>6, <2>1, <2>2, StoreUnchanged DEF IInv, vars, storeVars
<1> QED  BY <1>1, <1>2, <1>3, <1>4, <1>5, <1>6 DEF Next

\* The inductive invariant holds in every state of every behaviour.
THEOREM Invariance == Spec => []IInv
BY InitIInv, NextIInv, PTL DEF Spec

\* The type invariant, whose last conjuncts say that the mutex of the store is held
\* exactly by the request that saves.
THEOREM TypeCorrect == Spec => []TypeOK
<1>1. IInv => TypeOK
  BY DEF IInv
<1> QED  BY <1>1, Invariance, PTL

\* Session.Execute holds shellProcessMu from Restore to Snapshot, so that a command
\* runs where its session was, however many sessions share the process.
THEOREM DirectoriesArePrivate == Spec => []RunsInItsDirectory
<1>1. IInv => RunsInItsDirectory
  BY DEF IInv, SessionsInv
<1> QED  BY <1>1, Invariance, PTL

\* Neither a command, a save, a merge nor a restart hands variables from one session
\* to another.
THEOREM SettingsArePrivate == Spec => []SettingsAreOwn
<1>1. IInv => SettingsAreOwn
  <2> SUFFICES ASSUME IInv PROVE SettingsAreOwn
    OBVIOUS
  <2>1. ASSUME NEW id \in SessionIDs, session[id] # NoSession
        PROVE  session[id].state.settings.of \in {Nobody, id}
    BY <2>1, SessionFields, PayloadAssumption DEF IInv, SessionsInv, MemoryIsOwn, IsOwn
  <2>2. ASSUME NEW i \in DOMAIN disk, disk[i].state # NoState
        PROVE  disk[i].state.settings.of \in {Nobody, disk[i].session}
    BY <2>2 DEF IInv, StoreInv, FilesAreFit, IsOwnFile, IsOwn
  <2> QED  BY <2>1, <2>2 DEF SettingsAreOwn
<1> QED  BY <1>1, Invariance, PTL

\* saveLocked writes beside the file and renames, so that no crash and no failure
\* leaves a part of a file in its place.
THEOREM FileIsAlwaysWhole == Spec => []FileIsWhole
<1>1. IInv => FileIsWhole
  BY DEF IInv, StoreInv, FilesAreFit, FileIsWhole
<1> QED  BY <1>1, Invariance, PTL

-----------------------------------------------------------------------------
(* What a step may never do. *)

\* Only CreateSession, of a session that is missing, and Executed change sessions
\* while the server lives.
LEMMA SessionsChange ==
    ASSUME IInv, [Next]_vars, crashes' = crashes, NEW id \in SessionIDs,
           session'[id] # session[id]
    PROVE  \/ session[id] = NoSession
           \/ \E r \in Requests : target[r] = id /\ ExecuteLine(r)
<1>1. ASSUME NEW r \in Requests, CreateSession(r)
      PROVE  session[id] = NoSession
  <2>1. session[target[r]] = NoSession
    BY <1>1 DEF CreateSession, IInv, SessionsInv, CreatesMissing, HoldsServer
  <2>2. session'[id] # session[id] => target[r] = id
    BY <1>1 DEF CreateSession, IInv, TypeOK
  <2> QED  BY <2>1, <2>2
<1>2. ASSUME NEW r \in Requests, ExecuteLine(r)
      PROVE  target[r] = id
  BY <1>2 DEF ExecuteLine, Executed, IInv, TypeOK
<1>3. ~Crash
  BY DEF Crash, IInv, TypeOK
<1>4. CASE session' = session
  BY <1>4
<1>5. ASSUME session' # session
      PROVE  \E r \in Requests : CreateSession(r) \/ ExecuteLine(r)
  BY <1>3, <1>5 DEF Next, Step, vars, Arrive, Lookup, LoadShellState, BeginExecute,
     RestoreShell, TakeSnapshot, SaveShellState, PutWorkspaces, WriteTemp, Rename, SaveFails,
     Release, RemoveDir
<1> QED  BY <1>1, <1>2, <1>4, <1>5

\* What ExecuteLine makes of the session it holds.
LEMMA ExecuteLineChanges ==
    ASSUME IInv, NEW r \in Requests, ExecuteLine(r)
    PROVE  /\ session[target[r]].status = "open"
           /\ session'[target[r]] # NoSession
           /\ session'[target[r]].state.settings.changes
                >= session[target[r]].state.settings.changes
<1> DEFINE id == target[r]
           settings == session[id].state.settings
<1>1. pc[r] = "executing"
  BY DEF ExecuteLine, Executed
<1>2. session[id].status = "open"
  BY <1>1 DEF IInv, SessionsInv, HasSession, HoldsSession
<1>3. id \in SessionIDs /\ settings \in Settings
  BY <1>1, ExecutesOwnSettings
<1>4. cwd \in Dirs /\ exists \subseteq Dirs
  BY DEF IInv, TypeOK
<1>5. ASSUME NEW status \in {"open", "closed"}, NEW dir \in Dirs, NEW new \in Settings,
             new.changes >= settings.changes, Executed(r, status, dir, new)
      PROVE  /\ session'[id] # NoSession
             /\ session'[id].state.settings.changes >= settings.changes
  <2>1. session'[id] = [status |-> status, state |-> Snapshot(dir, new)]
    BY <1>3, <1>5 DEF Executed, IInv, TypeOK
  <2>2. Snapshot(dir, new) \in States /\ Snapshot(dir, new).settings = new
    BY SnapshotIsState
  <2> QED  BY <1>5, <2>1, <2>2, PayloadAssumption DEF NoSession
<1>6. CASE \E d \in exists \cup {cwd} : Executed(r, "open", d, settings)
  BY <1>2, <1>3, <1>4, <1>5, <1>6, SettingsAreTyped
<1>7. CASE Executed(r, "open", cwd, Changed(settings, id))
  BY <1>2, <1>3, <1>4, <1>5, <1>7, SettingsAreTyped
<1>8. CASE Executed(r, "closed", cwd, settings)
  BY <1>2, <1>3, <1>4, <1>5, <1>8, SettingsAreTyped
<1> QED  BY <1>2, <1>6, <1>7, <1>8 DEF ExecuteLine

\* However many requests find a session missing at once, one of them makes it, and
\* from then on it forgets none of its changes.
THEOREM SessionsRemember == Spec => SessionRemembers
<1>1. ASSUME IInv, [Next]_vars, crashes' = crashes, NEW id \in SessionIDs,
             session[id] # NoSession
      PROVE  /\ session'[id] # NoSession
             /\ session'[id].state.settings.changes >= session[id].state.settings.changes
  <2>1. CASE session'[id] = session[id]
    <3>1. session[id].state \in States
      BY <1>1, SessionFields DEF IInv
    <3>2. session[id].state.settings \in Settings
      BY <3>1, StateFields
    <3> QED  BY <1>1, <2>1, <3>2, SettingsAreTyped DEF Settings
  <2>2. CASE session'[id] # session[id]
    <3>1. PICK r \in Requests : target[r] = id /\ ExecuteLine(r)
      BY <1>1, <2>2, SessionsChange
    <3> QED  BY <1>1, <3>1, ExecuteLineChanges
  <2> QED  BY <2>1, <2>2
<1>2. IInv /\ [Next]_vars =>
        [crashes' = crashes =>
           \A id \in SessionIDs : session[id] # NoSession =>
              /\ session'[id] # NoSession
              /\ session'[id].state.settings.changes
                   >= session[id].state.settings.changes]_vars
  BY <1>1
<1> QED  BY <1>2, Invariance, PTL DEF Spec, SessionRemembers

\* A request that waited while its session exited finds it closed and runs nothing.
THEOREM ExitsAreFinal == Spec => ExitIsFinal
<1>1. ASSUME IInv, [Next]_vars, crashes' = crashes, NEW id \in SessionIDs,
             session[id].status = "closed"
      PROVE  session'[id] = session[id]
  <2>1. session[id] # NoSession
    BY <1>1 DEF NoSession
  <2>2. ASSUME session'[id] # session[id] PROVE FALSE
    <3>1. PICK r \in Requests : target[r] = id /\ ExecuteLine(r)
      BY <1>1, <2>1, <2>2, SessionsChange
    <3> QED  BY <1>1, <3>1, ExecuteLineChanges
  <2> QED  BY <2>2
<1>2. IInv /\ [Next]_vars =>
        [crashes' = crashes =>
           \A id \in SessionIDs :
              session[id].status = "closed" => session'[id] = session[id]]_vars
  BY <1>1
<1> QED  BY <1>2, Invariance, PTL DEF Spec, ExitIsFinal

-----------------------------------------------------------------------------
(* What the files keep. *)

\* A browser's list names no session twice, and so does what is sent of it.
LEMMA SentIsDistinct ==
    ASSUME NEW list \in Lists
    PROVE  Distinct(Sent(list))
BY SentFits, BrowserAssumption DEF Distinct

\* Init has an empty file and no other contents.
LEMMA InitKeepInv == Init => KeepInv
<1>1. DOMAIN <<>> = {}
  OBVIOUS
<1> QED  BY <1>1 DEF Init, KeepInv, Distinct, DataKeepsStates

\* Every step keeps what the files keep: the next contents are made from the last
\* under the mutex of the store, and only their writer replaces the file.
LEMMA NextKeepInv == IInv /\ KeepInv /\ [Next]_vars => KeepInv'
<1> SUFFICES ASSUME IInv, KeepInv, [Next]_vars PROVE KeepInv'
  OBVIOUS
<1>1. disk \in Payloads /\ disk \in Files(States) /\ Distinct(disk) /\ Distinct(data)
  BY PayloadsAreFiles DEF IInv, TypeOK, StoreInv, FilesAreFit, KeepInv
<1>2. DOMAIN <<>> = {}
  OBVIOUS
<1>3. ASSUME NEW r \in Requests, SaveShellState(r) PROVE KeepInv'
  <2> DEFINE id == target[r]
  <2>1. /\ storeMu' = r /\ disk' = disk
        /\ data' = SaveState(disk, id, loaded[r])
    BY <1>3 DEF SaveShellState, OpenTemp
  <2>2. id \in SessionIDs /\ loaded[r] \in States \cup {NoState}
    BY UIAssumption DEF IInv, TypeOK
  <2>3. Distinct(data')
    BY <1>1, <2>1, <2>2, SaveKeepsDistinct
  <2>4. \A other \in SessionIDs :
          \/ id = other
          \/ ~Listed(data', other)
          \/ LoadState(data', other) = LoadState(disk', other)
    BY <1>1, <2>1, <2>2, SaveKeepsOthers
  <2> QED  BY <1>1, <2>1, <2>3, <2>4 DEF KeepInv, Distinct, DataKeepsStates
<1>4. ASSUME NEW p \in Puts, PutWorkspaces(p) PROVE KeepInv'
  <2>1. PICK list \in Lists : data' = Merge(Sent(list), disk)
    BY <1>4 DEF PutWorkspaces, Sent
  <2>2. disk' = disk
    BY <1>4 DEF PutWorkspaces, OpenTemp
  <2>3. /\ Sent(list) \in Files(States) /\ Distinct(Sent(list))
        /\ \A i \in DOMAIN Sent(list) : Sent(list)[i].state = NoState
    BY SentFits, SentIsDistinct
  <2>4. /\ Distinct(data')
        /\ \A id : Listed(data', id) => LoadState(data', id) = LoadState(disk, id)
    BY <1>1, <2>1, <2>3, MergeKeepsStates
  <2> QED  BY <1>1, <2>2, <2>4 DEF KeepInv, Distinct, DataKeepsStates
<1>5. CASE Rename \/ SaveFails
  <2>1. storeMu' = Nobody /\ data' = <<>> /\ (disk' = disk \/ disk' = data)
    BY <1>5 DEF Rename, SaveFails, Release, IInv, StoreInv, WritesItsData
  <2> QED  BY <1>1, <1>2, <2>1 DEF KeepInv, Distinct, DataKeepsStates
<1>6. CASE Crash
  <2>1. storeMu' = Nobody /\ data' = <<>> /\ disk' = disk
    BY <1>6 DEF Crash
  <2> QED  BY <1>1, <1>2, <2>1 DEF KeepInv, Distinct, DataKeepsStates
<1>7. CASE UNCHANGED <<storeMu, data, disk>>
  BY <1>7 DEF KeepInv, Distinct, DataKeepsStates, Listed, LoadState, StatesOf, Holds
<1>8. \/ \E r \in Requests : SaveShellState(r)
      \/ \E p \in Puts : PutWorkspaces(p)
      \/ Rename \/ SaveFails \/ Crash
      \/ UNCHANGED <<storeMu, data, disk>>
  BY DEF Next, Step, vars, storeVars, Arrive, Lookup, LoadShellState, CreateSession,
     BeginExecute, RestoreShell, ExecuteLine, Executed, TakeSnapshot, WriteTemp, RemoveDir
<1> QED  BY <1>3, <1>4, <1>5, <1>6, <1>7, <1>8

\* A save of one session and a list of a browser keep the states stored for the
\* sessions the new file lists; the limit and the list decide only which these are.
THEOREM StatesAreKept == Spec => StoredStateIsKept
<1>1. ASSUME IInv, KeepInv, [Next]_vars, NEW id \in SessionIDs,
             LoadState(disk', id) # LoadState(disk, id)
      PROVE  \/ storeMu \in Requests /\ target[storeMu] = id
             \/ \A i \in DOMAIN disk' : disk'[i].session # id
  <2>1. disk' # disk
    BY <1>1
  <2>2. storeMu # Nobody /\ disk' = data
    BY <1>1, <2>1 DEF Next, Step, vars, storeVars, Arrive, Lookup, LoadShellState,
       CreateSession, BeginExecute, RestoreShell, ExecuteLine, Executed, TakeSnapshot,
       SaveShellState, PutWorkspaces, OpenTemp, WriteTemp, Rename, SaveFails, RemoveDir,
       Crash, IInv, StoreInv, WritesItsData
  <2> QED  BY <1>1, <2>2 DEF KeepInv, DataKeepsStates, Listed
<1>2. IInv /\ KeepInv /\ [Next]_vars =>
        [\A id \in SessionIDs :
           LoadState(disk', id) # LoadState(disk, id) =>
              \/ storeMu \in Requests /\ target[storeMu] = id
              \/ \A i \in DOMAIN disk' : disk'[i].session # id]_vars
  BY <1>1
<1> QED  BY <1>2, Invariance, InitKeepInv, NextKeepInv, PTL DEF Spec, StoredStateIsKept
=============================================================================
