----------------------------- MODULE UISessions -----------------------------
(***************************************************************************)
(* The shell sessions of gosh-ui: handleExecute, handleWorkspaces, session *)
(* and Session.Execute of internal/ui/server.go with the WorkspaceStore    *)
(* they save to, over crashes and restarts of the server.                  *)
(*                                                                         *)
(* Every HTTP request is a goroutine.  All sessions share the working      *)
(* directory of the one server process.  Four kinds of mutex are taken in  *)
(* nested ways: Server.mu, Session.mu, shellProcessMu and                  *)
(* WorkspaceStore.mu.  The first three are held at known program points    *)
(* and are not variables; storeMu names the request that holds the last.   *)
(***************************************************************************)
EXTENDS WorkspaceStore

CONSTANTS
    MaxRequests, \* execute requests, numbered as they arrive (bound)
    target,      \* target[r]: the session of execute request r
    Puts,        \* requests to replace the list of workspaces (bound)
    Lists,       \* the lists of session ids a browser may send
    Dirs, Home,  \* directories, and the one gosh-ui is started in
    NoDir,       \* the empty WorkingDir that Snapshot records when Getwd fails
    Nobody,      \* the session of an unset variable; the holder of a free mutex
    Torn,        \* a file that is missing or only partly written
    MaxCrashes,  \* crashes of the server (bound)
    MaxFaults    \* failed writes of the file and removed directories (bound)

Requests == 1..MaxRequests

ASSUME UIAssumption ==
    /\ target \in [Requests -> SessionIDs]
    /\ Requests \cap Puts = {}
    /\ Nobody \notin Requests \cup Puts
    /\ Home \in Dirs
    /\ MaxCrashes \in Nat
    /\ MaxFaults \in Nat

VARIABLES
    session,  \* Server.sessions and the Session it holds for an id
    cwd,      \* working directory of the server process
    exists,   \* directories that exist
    pc,       \* pc[r]: progress of request r
    loaded,   \* loaded[r]: the state r loaded, and later the one it will save
    storeMu,  \* the request that holds WorkspaceStore.mu
    data,     \* what the holder of storeMu is writing
    temp,     \* the temporary file
    disk,     \* the workspace file
    crashes,
    faults

requestVars == <<pc, loaded>>
storeVars   == <<storeMu, data, temp, disk>>
faultVars   == <<crashes, faults>>
vars == <<session, cwd, exists, pc, loaded, storeMu, data, temp, disk,
          crashes, faults>>

\* Variables and functions of a shell: how often they were changed, by a command
\* of which session.
Settings == [of : SessionIDs \cup {Nobody}, changes : Nat]
NoSettings == [of |-> Nobody, changes |-> 0]
Changed(settings, id) == [of |-> id, changes |-> settings.changes + 1]

States == [dir : Dirs \cup {NoDir}, settings : Settings]
NoSession == [status |-> "none", state |-> NoState]
Payloads == Seq([session : SessionIDs, state : States \cup {NoState}])

\* The empty values are no states and no contents of the file.
ASSUME PayloadAssumption ==
    /\ NoState \notin States
    /\ Torn \notin Payloads
    /\ Lists \subseteq Seq(SessionIDs)

\* A browser makes up a session id for each of its workspaces (newSessionId), so
\* that its list has none twice; the server does not look.
ASSUME BrowserAssumption ==
    \A list \in Lists : \A i, j \in DOMAIN list : list[i] = list[j] => i = j

Arrived == {"lookup", "load", "create", "lock", "run", "executing", "snapshot",
            "save", "saving"}
Ended == {"answered", "failed", "lost"}

TypeOK ==
    /\ session \in [SessionIDs ->
                     [status : {"none", "open", "closed"}, state : States \cup {NoState}]]
    /\ \A id \in SessionIDs : session[id].state = NoState <=> session[id] = NoSession
    /\ cwd \in Dirs
    /\ exists \in SUBSET Dirs
    /\ pc \in [Requests \cup Puts -> {"idle"} \cup Arrived \cup Ended]
    /\ loaded \in [Requests -> States \cup {NoState}]
    /\ storeMu \in Requests \cup Puts \cup {Nobody}
    /\ \A r \in Requests \cup Puts : storeMu = r <=> pc[r] = "saving"
    /\ data \in Payloads /\ Len(data) <= MaxWorkspaces
    /\ temp \in Payloads \cup {Torn}
    /\ disk \in Payloads \cup {Torn}
    /\ crashes \in 0..MaxCrashes
    /\ faults \in 0..MaxFaults

Init ==
    /\ session = [id \in SessionIDs |-> NoSession]
    /\ cwd = Home
    /\ exists = Dirs
    /\ pc = [r \in Requests \cup Puts |-> "idle"]
    /\ loaded = [r \in Requests |-> NoState]
    /\ storeMu = Nobody
    /\ data = <<>>
    /\ temp = Torn
    /\ disk = <<>>
    /\ crashes = 0
    /\ faults = 0

-----------------------------------------------------------------------------
(* The mutexes. *)

\* session() looks into the map without Server.mu.
HoldsServerFault(r) == FALSE

\* Server.mu, from the lookup of a session until it is in the map.
HoldsServer(r) == pc[r] \in {"load", "create"}

\* handleExecute takes the snapshot while Execute's deferred Unlock is pending.
HoldsSessionFault(r) == pc[r] \in {"run", "executing", "snapshot"}

\* Session.mu, while Session.Execute runs.
HoldsSession(r) == pc[r] \in {"run", "executing"}

\* shellProcessMu, between Restore and Snapshot in Execute.
HoldsProcess(r) == pc[r] = "executing"

ServerFree      == \A r \in Requests : ~HoldsServer(r)
SessionFree(id) == \A r \in Requests : target[r] = id => ~HoldsSession(r)
ProcessFree     == \A r \in Requests : ~HoldsProcess(r)
StoreFree       == storeMu = Nobody

-----------------------------------------------------------------------------
(* Shell.Snapshot and Shell.Restore. *)

\* Snapshot, of a shell with these settings, when d is the working directory.
Snapshot(d, settings) ==
    [dir |-> IF d \in exists THEN d ELSE NoDir, settings |-> settings]

\* The directory Restore would change to is not there.
RestoreFails(state) == state.dir # NoDir /\ state.dir \notin exists

\* The working directory after Restore, which may have failed.
RestoredDir(state) ==
    IF state.dir # NoDir /\ state.dir \in exists THEN state.dir ELSE cwd

-----------------------------------------------------------------------------
(* session(): find the session or make it. *)

Goto(r, label) == pc' = [pc EXCEPT ![r] = label]

Arrive(r) ==
    /\ pc[r] = "idle"
    /\ \A q \in Requests : q < r => pc[q] # "idle"
    /\ Goto(r, "lookup")
    /\ UNCHANGED <<session, cwd, exists, loaded, storeVars, faultVars>>

Lookup(r) ==
    /\ pc[r] = "lookup"
    /\ ServerFree
    /\ Goto(r, IF session[target[r]] = NoSession THEN "load" ELSE "lock")
    /\ UNCHANGED <<session, cwd, exists, loaded, storeVars, faultVars>>

LoadShellState(r) ==
    /\ pc[r] = "load"
    /\ StoreFree
    /\ loaded' = [loaded EXCEPT ![r] = LoadState(disk, target[r])]
    /\ Goto(r, "create")
    /\ UNCHANGED <<session, cwd, exists, storeVars, faultVars>>

\* newSessionWithState.  A Restore that fails is ignored: the session has neither
\* variables nor functions and begins in the directory some other session left.
CreatedState(state) ==
    IF state = NoState \/ RestoreFails(state)
      THEN Snapshot(cwd, NoSettings)
      ELSE Snapshot(RestoredDir(state), state.settings)

CreateSession(r) ==
    /\ pc[r] = "create"
    /\ ProcessFree
    /\ session' = [session EXCEPT ![target[r]] =
                     [status |-> "open", state |-> CreatedState(loaded[r])]]
    /\ cwd' = IF loaded[r] = NoState THEN cwd ELSE RestoredDir(loaded[r])
    /\ loaded' = [loaded EXCEPT ![r] = NoState]
    /\ Goto(r, "lock")
    /\ UNCHANGED <<exists, storeVars, faultVars>>

-----------------------------------------------------------------------------
(* Session.Execute. *)

\* The session is not asked whether it has exited.
BeginExecuteFault(r) ==
    /\ pc[r] = "lock"
    /\ SessionFree(target[r])
    /\ Goto(r, "run")
    /\ UNCHANGED <<session, cwd, exists, loaded, storeVars, faultVars>>

BeginExecute(r) ==
    /\ pc[r] = "lock"
    /\ SessionFree(target[r])
    /\ Goto(r, IF session[target[r]].status = "closed" THEN "answered" ELSE "run")
    /\ UNCHANGED <<session, cwd, exists, loaded, storeVars, faultVars>>

\* Restore is called before shellProcessMu is taken.
RestoreShellFault(r) ==
    LET state == session[target[r]].state IN
    /\ pc[r] = "run"
    /\ IF RestoreFails(state)
         THEN Goto(r, "snapshot") /\ UNCHANGED cwd
         ELSE Goto(r, "executing") /\ cwd' = RestoredDir(state)
    /\ UNCHANGED <<session, exists, loaded, storeVars, faultVars>>

\* A session whose directory is gone runs no command, but the request still goes
\* on to save the state.
RestoreShell(r) ==
    LET state == session[target[r]].state IN
    /\ pc[r] = "run"
    /\ ProcessFree
    /\ IF RestoreFails(state)
         THEN Goto(r, "snapshot") /\ UNCHANGED cwd
         ELSE Goto(r, "executing") /\ cwd' = RestoredDir(state)
    /\ UNCHANGED <<session, exists, loaded, storeVars, faultVars>>

\* ExecuteLine, then Snapshot: cd to a directory (or any command that changes
\* nothing, which is cd to where we are), set or fn, or exit.
Executed(r, status, dir, settings) ==
    /\ pc[r] = "executing"
    /\ cwd' = dir
    /\ session' = [session EXCEPT ![target[r]] =
                     [status |-> status, state |-> Snapshot(dir, settings)]]
    /\ Goto(r, IF status = "closed" THEN "answered" ELSE "snapshot")
    /\ UNCHANGED <<exists, loaded, storeVars, faultVars>>

ExecuteLine(r) ==
    LET settings == session[target[r]].state.settings IN
    \/ \E d \in exists \cup {cwd} : Executed(r, "open", d, settings)
    \/ Executed(r, "open", cwd, Changed(settings, target[r]))
    \/ Executed(r, "closed", cwd, settings)

\* Session.Snapshot, after Execute has released the session.
TakeSnapshot(r) ==
    /\ pc[r] = "snapshot"
    /\ SessionFree(target[r])
    /\ loaded' = [loaded EXCEPT ![r] = session[target[r]].state]
    /\ Goto(r, "save")
    /\ UNCHANGED <<session, cwd, exists, storeVars, faultVars>>

-----------------------------------------------------------------------------
(* Saving the file. *)

\* The file is written in place.
OpenTempFault == temp' = Torn /\ disk' = Torn

\* os.WriteFile truncates the temporary file before it writes.
OpenTemp == temp' = Torn /\ UNCHANGED disk

\* SaveShellState up to the write: the file is read and changed under storeMu.
SaveShellState(r) ==
    /\ pc[r] = "save"
    /\ StoreFree
    /\ storeMu' = r
    /\ data' = SaveState(disk, target[r], loaded[r])
    /\ loaded' = [loaded EXCEPT ![r] = NoState]
    /\ OpenTemp
    /\ Goto(r, "saving")
    /\ UNCHANGED <<session, cwd, exists, faultVars>>

\* Save: a browser replaces the list; it never sends a shell state.
PutWorkspaces(p) ==
    /\ pc[p] = "idle"
    /\ StoreFree
    /\ storeMu' = p
    /\ \E list \in Lists :
         LET sent == [i \in DOMAIN list |-> WorkspaceRecord(list[i], NoState)]
         IN  data' = Merge(Sanitize(sent), disk)
    /\ OpenTemp
    /\ Goto(p, "saving")
    /\ UNCHANGED <<session, cwd, exists, loaded, faultVars>>

WriteTemp ==
    /\ storeMu # Nobody
    /\ temp = Torn
    /\ temp' = data
    /\ UNCHANGED <<session, cwd, exists, requestVars, storeMu, data, disk, faultVars>>

\* The mutex is not released on the way out.
ReleaseFault(answer) ==
    /\ storeMu' = storeMu
    /\ data' = <<>>
    /\ temp' = Torn
    /\ Goto(storeMu, answer)
    /\ UNCHANGED <<session, cwd, exists, loaded>>

\* The file is released, and the request that held it answered.
Release(answer) ==
    /\ storeMu' = Nobody
    /\ data' = <<>>
    /\ temp' = Torn
    /\ Goto(storeMu, answer)
    /\ UNCHANGED <<session, cwd, exists, loaded>>

Rename ==
    /\ storeMu # Nobody
    /\ temp # Torn
    /\ disk' = temp
    /\ Release("answered")
    /\ UNCHANGED faultVars

\* The write or the rename fails.
SaveFails ==
    /\ storeMu # Nobody
    /\ faults < MaxFaults
    /\ faults' = faults + 1
    /\ Release("failed")
    /\ UNCHANGED <<disk, crashes>>

-----------------------------------------------------------------------------
(* The environment. *)

RemoveDir(d) ==
    /\ d \in exists \ {Home}
    /\ faults < MaxFaults
    /\ faults' = faults + 1
    /\ exists' = exists \ {d}
    /\ UNCHANGED <<session, cwd, requestVars, storeVars, crashes>>

\* gosh-ui dies and is started again; only the files are left.
Crash ==
    /\ crashes < MaxCrashes
    /\ crashes' = crashes + 1
    /\ session' = [id \in SessionIDs |-> NoSession]
    /\ cwd' = Home
    /\ pc' = [r \in DOMAIN pc |-> IF pc[r] \in Arrived THEN "lost" ELSE pc[r]]
    /\ loaded' = [r \in Requests |-> NoState]
    /\ storeMu' = Nobody
    /\ data' = <<>>
    /\ UNCHANGED <<exists, temp, disk, faults>>

Step(r) ==
    \/ Lookup(r)
    \/ LoadShellState(r)
    \/ CreateSession(r)
    \/ BeginExecute(r)
    \/ RestoreShell(r)
    \/ ExecuteLine(r)
    \/ TakeSnapshot(r)
    \/ SaveShellState(r)

Next ==
    \/ \E r \in Requests : Arrive(r) \/ Step(r)
    \/ \E p \in Puts : PutWorkspaces(p)
    \/ WriteTemp
    \/ Rename
    \/ SaveFails
    \/ \E d \in Dirs : RemoveDir(d)
    \/ Crash

Spec == Init /\ [][Next]_vars

\* A goroutine that can go on does, commands end, and so do writes of the file.
Fairness ==
    /\ \A r \in Requests : WF_vars(Step(r))
    /\ WF_vars(WriteTemp)
    /\ WF_vars(Rename)

FairSpec == Spec /\ Fairness

-----------------------------------------------------------------------------
(* Properties. *)

\* Isolation: a command runs in the directory its own session was last in, if
\* that was recorded, whatever the other sessions of the process do meanwhile.
RunsInItsDirectory ==
    \A r \in Requests :
        pc[r] = "executing" =>
            cwd = session[target[r]].state.dir \/ session[target[r]].state.dir = NoDir

\* No session, in memory or in the file, has variables another session has set.
SettingsAreOwn ==
    /\ \A id \in SessionIDs :
         session[id] # NoSession => session[id].state.settings.of \in {Nobody, id}
    /\ \A i \in DOMAIN disk :
         disk[i].state # NoState
            => disk[i].state.settings.of \in {Nobody, disk[i].session}

\* Wherever the server dies, the file it leaves is one it finished writing.
FileIsWhole == disk # Torn

\* A stored state is replaced by requests of its own session only: neither a save
\* of another session nor a browser's list brings back an old one or loses it,
\* unless the whole workspace goes.
StoredStateIsKept ==
    [][\A id \in SessionIDs :
         LoadState(disk', id) # LoadState(disk, id) =>
            \/ storeMu \in Requests /\ target[storeMu] = id
            \/ \A i \in DOMAIN disk' : disk'[i].session # id]_vars

\* While the server lives a session forgets no change of its variables, however
\* many requests find it missing at once.
SessionRemembers ==
    [][crashes' = crashes =>
         \A id \in SessionIDs : session[id] # NoSession =>
            /\ session'[id] # NoSession
            /\ session'[id].state.settings.changes
                 >= session[id].state.settings.changes]_vars

\* A session that has exited runs no command of a request that was waiting.
ExitIsFinal ==
    [][crashes' = crashes =>
         \A id \in SessionIDs :
            session[id].status = "closed" => session'[id] = session[id]]_vars

\* Every request ends, by an answer unless the server dies: the mutexes never wait
\* for one another in a circle.  (There are finitely many requests, so it is enough
\* that again and again none is under way.)
RequestsEnd == []<>(\A r \in Requests \cup Puts : pc[r] \notin Arrived)

-----------------------------------------------------------------------------
(* What the documentation leads one to expect and the code does not do. *)

\* When no request of a session is on its way, a restart would recover the state
\* the session has.
StoredStateIsCurrent ==
    \A id \in SessionIDs :
        session[id].status = "open"
            /\ (\A r \in Requests : target[r] = id => pc[r] \notin Arrived)
        => LoadState(disk, id) = session[id].state
=============================================================================
