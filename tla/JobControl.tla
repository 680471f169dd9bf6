----------------------------- MODULE JobControl -----------------------------
(***************************************************************************)
(* Job control of gosh: the JobTable and the process handling of           *)
(* internal/executor, with the jobs, fg, bg and stop commands of           *)
(* internal/shell that drive it.                                           *)
(*                                                                         *)
(* The actors are the shell goroutine (one command line at a time), one    *)
(* waiter goroutine per started command line, the operating system that    *)
(* ends processes, and the user who sends signals to the shell.  A command *)
(* that reads the table, signals process groups and then marks the job     *)
(* takes one step for each of these: the table's mutex is held in each     *)
(* step and free between them.                                             *)
(***************************************************************************)
EXTENDS Naturals, FiniteSets

CONSTANTS
    MaxLaunch,   \* command lines started in one behaviour (bound)
    NProc,       \* longest pipeline (bound)
    Signals      \* signals the shell is notified of: {} in the browser UI,
                 \* where Run, and so NewSignalChannel, is never called

\* "INT" stands for SIGINT and SIGTERM, which the code treats alike.
ASSUME JobControlAssumption ==
    /\ MaxLaunch \in Nat \ {0}
    /\ NProc \in Nat \ {0}
    /\ Signals \subseteq {"INT", "TSTP"}

VARIABLES
    nextLaunch,  \* the next command line to start
    proc,        \* proc[l][p]: process p of the pipeline of command line l
    failed,      \* failed[l]: some process of l ended with an error
    waiter,      \* waiter[l]: the goroutine that runs waitProcesses for l
    waiterJob,   \* waiterJob[l]: the job that goroutine completes, 0 for none
    nextID,      \* JobTable.nextID
    status,      \* status[j]: Job.Status, "none" before the job exists
    closed,      \* closed[j]: the channel Job.done is closed
    jobLaunch,   \* jobLaunch[j]: the command line the job was made from
    pc,          \* where the shell goroutine is
    command,     \* the job command it runs
    job,         \* that command's job
    group,       \* the next process group the command will signal
    foreground,  \* the command line waitForeground waits for
    pending,     \* the content of the signal channel, whose capacity is 1
    pendingFor   \* history: the command line that had the user's terminal
                 \* when the pending signal was sent, 0 for the prompt

launchVars == <<nextLaunch, proc, failed, waiter, waiterJob>>
tableVars  == <<nextID, status, closed, jobLaunch>>
shellVars  == <<pc, command, job, group, foreground>>
signalVars == <<pending, pendingFor>>
vars == <<nextLaunch, proc, failed, waiter, waiterJob, nextID, status, closed,
          jobLaunch, pc, command, job, group, foreground, pending, pendingFor>>

Launches == 1..MaxLaunch
Procs    == 1..NProc
Jobs     == 1..MaxLaunch    \* a command line becomes a job at most once

Live     == {"running", "stopped"}
Finished == {"done", "failed"}

TypeOK ==
    /\ nextLaunch \in 1..(MaxLaunch + 1)
    /\ proc \in [Launches -> [Procs ->
                  {"none", "running", "stopped", "zombie", "reaped"}]]
    /\ failed \in [Launches -> BOOLEAN]
    /\ waiter \in [Launches -> {"none", "waiting", "collected", "returned"}]
    /\ waiterJob \in [Launches -> 0..MaxLaunch]
    /\ nextID \in 1..nextLaunch
    /\ status \in [Jobs -> {"none"} \cup Live \cup Finished]
    /\ closed \in [Jobs -> BOOLEAN]
    /\ jobLaunch \in [Jobs -> 0..MaxLaunch]
    /\ pc \in {"idle", "foreground", "signal", "mark", "wait"}
    /\ command \in {"fg", "bg", "stop"}
    /\ job \in Jobs
    /\ group \in 1..(NProc + 1)
    /\ foreground \in Launches
    /\ pending \in {"none"} \cup Signals
    /\ pendingFor \in 0..MaxLaunch

Init ==
    /\ nextLaunch = 1
    /\ proc = [l \in Launches |-> [p \in Procs |-> "none"]]
    /\ failed = [l \in Launches |-> FALSE]
    /\ waiter = [l \in Launches |-> "none"]
    /\ waiterJob = [l \in Launches |-> 0]
    /\ nextID = 1
    /\ status = [j \in Jobs |-> "none"]
    /\ closed = [j \in Jobs |-> FALSE]
    /\ jobLaunch = [j \in Jobs |-> 0]
    /\ pc = "idle"
    /\ command = "fg"
    /\ job = 1
    /\ group = 1
    /\ foreground = 1
    /\ pending = "none"
    /\ pendingFor = 0

-----------------------------------------------------------------------------
(* The job table: each operator is one critical section of JobTable.mu. *)

\* (Names ending in Fault are plausible mistakes in the operator that follows.
\* They are not part of the specification: they show that a property can fail.)

\* nextID is not advanced.
AddSameIDFault(l, s) ==
    /\ nextID' = nextID
    /\ status' = [status EXCEPT ![nextID] = s]
    /\ closed' = [closed EXCEPT ![nextID] = FALSE]
    /\ jobLaunch' = [jobLaunch EXCEPT ![nextID] = l]

\* The job is numbered by command line rather than by job.
AddByLaunchFault(l, s) ==
    /\ nextID' = nextID + 1
    /\ status' = [status EXCEPT ![l] = s]
    /\ closed' = [closed EXCEPT ![l] = FALSE]
    /\ jobLaunch' = [jobLaunch EXCEPT ![l] = l]

\* JobTable.Add, with the status the job has when the mutex is next free.
Add(l, s) ==
    /\ nextID' = nextID + 1
    /\ status' = [status EXCEPT ![nextID] = s]
    /\ closed' = [closed EXCEPT ![nextID] = FALSE]
    /\ jobLaunch' = [jobLaunch EXCEPT ![nextID] = l]

\* A failing job is recorded and the function returns before close(job.done).
CompleteNoCloseFault(j, err) ==
    /\ status' = [status EXCEPT ![j] = IF err THEN "failed" ELSE "done"]
    /\ closed' = [closed EXCEPT ![j] = ~err]
    /\ UNCHANGED <<nextID, jobLaunch>>

\* Complete is guarded like MarkStopped: only a running job can finish.
CompleteOnlyRunningFault(j, err) ==
    IF status[j] = "running"
      THEN /\ status' = [status EXCEPT ![j] = IF err THEN "failed" ELSE "done"]
           /\ closed' = [closed EXCEPT ![j] = TRUE]
           /\ UNCHANGED <<nextID, jobLaunch>>
      ELSE UNCHANGED tableVars

\* JobTable.Complete: whatever status the job had, and no process is signalled.
Complete(j, err) ==
    /\ status' = [status EXCEPT ![j] = IF err THEN "failed" ELSE "done"]
    /\ closed' = [closed EXCEPT ![j] = TRUE]
    /\ UNCHANGED <<nextID, jobLaunch>>

\* The status is not tested again under the mutex.
MarkGuardFault(j) == TRUE

\* JobTable.MarkStopped and MarkRunning: refused unless the job still has the
\* status the command saw when it began.
MarkGuard(j) == status[j] = IF command = "stop" THEN "running" ELSE "stopped"

Mark(j) ==
    /\ status' = IF MarkGuard(j)
                   THEN [status EXCEPT ![j] = IF command = "stop" THEN "stopped"
                                                                  ELSE "running"]
                   ELSE status
    /\ UNCHANGED <<nextID, closed, jobLaunch>>

-----------------------------------------------------------------------------
(* Starting a command line. *)

\* A command returns and its local variables are gone.
BackToPrompt ==
    /\ pc' = "idle"
    /\ command' = "fg"
    /\ job' = 1
    /\ group' = 1
    /\ foreground' = 1

\* Every process of the pipeline is started before anything else happens.
StartProcesses(l, last) ==
    /\ nextLaunch' = l + 1
    /\ proc' = [proc EXCEPT ![l] =
                  [p \in Procs |-> IF p <= last THEN "running" ELSE "none"]]
    /\ UNCHANGED failed

\* RunLine with a trailing "&": the job is added, its waiter is started with
\* the job's number, and the prompt is back.
StartBackground(width) ==
    /\ pc = "idle" /\ nextLaunch \in Launches
    /\ StartProcesses(nextLaunch, width)
    /\ Add(nextLaunch, "running")
    /\ waiter' = [waiter EXCEPT ![nextLaunch] = "waiting"]
    /\ waiterJob' = [waiterJob EXCEPT ![nextLaunch] = nextID]
    /\ UNCHANGED <<shellVars, signalVars>>

\* Run, and RunLine without "&": waitForeground starts a waiter with no job.
StartForeground(width) ==
    /\ pc = "idle" /\ nextLaunch \in Launches
    /\ StartProcesses(nextLaunch, width)
    /\ waiter' = [waiter EXCEPT ![nextLaunch] = "waiting"]
    /\ pc' = "foreground"
    /\ foreground' = nextLaunch
    /\ UNCHANGED <<waiterJob, tableVars, command, job, group, signalVars>>

\* RunLine when Start fails on process started+1: the error is returned and the
\* processes already running are neither waited for nor stopped.
StartFails(started) ==
    /\ pc = "idle" /\ nextLaunch \in Launches
    /\ StartProcesses(nextLaunch, started)
    /\ UNCHANGED <<waiter, waiterJob, tableVars, shellVars, signalVars>>

-----------------------------------------------------------------------------
(* Processes and their waiters. *)

\* A running process ends, well or badly; a suspended one can only be killed.
ProcExit(l, p) ==
    /\ proc[l][p] \in Live
    /\ proc' = [proc EXCEPT ![l][p] = "zombie"]
    /\ \E bad \in BOOLEAN :
         /\ proc[l][p] = "stopped" => bad
         /\ failed' = [failed EXCEPT ![l] = @ \/ bad]
    /\ UNCHANGED <<nextLaunch, waiter, waiterJob, tableVars, shellVars, signalVars>>

\* process.Wait in a goroutine of waitProcesses: the process leaves the system
\* and its group can no longer be signalled.
Reap(l, p) ==
    /\ waiter[l] = "waiting"
    /\ proc[l][p] = "zombie"
    /\ proc' = [proc EXCEPT ![l][p] = "reaped"]
    /\ UNCHANGED <<nextLaunch, failed, waiter, waiterJob, tableVars, shellVars,
                   signalVars>>

\* waitProcesses returns when it has had an error value from every process.
AllReaped(l) == \A p \in Procs : proc[l][p] \in {"none", "reaped"}

\* The first process to end ends the wait.
WaitProcessesFault(l) ==
    /\ waiter[l] = "waiting"
    /\ \E p \in Procs : proc[l][p] = "reaped"
    /\ waiter' = [waiter EXCEPT ![l] = "collected"]
    /\ UNCHANGED <<nextLaunch, proc, failed, waiterJob, tableVars, shellVars,
                   signalVars>>

WaitProcesses(l) ==
    /\ waiter[l] = "waiting"
    /\ AllReaped(l)
    /\ waiter' = [waiter EXCEPT ![l] = "collected"]
    /\ UNCHANGED <<nextLaunch, proc, failed, waiterJob, tableVars, shellVars,
                   signalVars>>

\* The end of a waiter: Complete for a background job; for a foreground command
\* the value goes into the channel done, whose buffer always has room for it.
WaiterReturns(l) ==
    /\ waiter[l] = "collected"
    /\ waiter' = [waiter EXCEPT ![l] = "returned"]
    /\ IF waiterJob[l] = 0 THEN UNCHANGED tableVars
                           ELSE Complete(waiterJob[l], failed[l])
    /\ UNCHANGED <<nextLaunch, proc, failed, waiterJob, shellVars, signalVars>>

-----------------------------------------------------------------------------
(* waitForeground: done and the signal channel in one select. *)

ForegroundDone ==
    /\ pc = "foreground"
    /\ waiter[foreground] = "returned"
    /\ BackToPrompt
    /\ UNCHANGED <<launchVars, tableVars, signalVars>>

\* forwardSignal to every group, whether or not some are gone.  A process may
\* handle the signal and carry on.
Forward(sig) ==
    \E hit \in SUBSET {p \in Procs : proc[foreground][p] = "running"} :
        /\ proc' = [proc EXCEPT ![foreground] =
                      [p \in Procs |-> IF p \notin hit THEN proc[foreground][p]
                                       ELSE IF sig = "TSTP" THEN "stopped"
                                       ELSE "zombie"]]
        /\ failed' = [failed EXCEPT ![foreground] =
                        @ \/ (sig # "TSTP" /\ hit # {})]

\* waitForeground goes on waiting after it has made the stopped job.
ForegroundSignalNoReturnFault ==
    /\ pc = "foreground"
    /\ pending # "none"
    /\ Forward(pending)
    /\ IF pending = "TSTP" THEN Add(foreground, "stopped") ELSE UNCHANGED tableVars
    /\ pending' = "none"
    /\ pendingFor' = 0
    /\ UNCHANGED <<nextLaunch, waiter, waiterJob, shellVars>>

\* After SIGTSTP the command becomes a stopped job and the prompt is back, but
\* the command's waiter still has no job to complete.
ForegroundSignal ==
    /\ pc = "foreground"
    /\ pending # "none"
    /\ Forward(pending)
    /\ IF pending = "TSTP"
         THEN Add(foreground, "stopped") /\ BackToPrompt
         ELSE UNCHANGED <<tableVars, shellVars>>
    /\ pending' = "none"
    /\ pendingFor' = 0
    /\ UNCHANGED <<nextLaunch, waiter, waiterJob>>

\* The command line the user is looking at: the foreground one, or that of the job
\* fg waits for, as long as a process of it is there.
OnTerminal ==
    CASE pc = "foreground" -> foreground
      [] pc = "wait" /\ (\E p \in Procs : proc[jobLaunch[job]][p] \in Live)
           -> jobLaunch[job]
      [] OTHER -> 0

\* signal.Notify on a channel of capacity 1: a signal that finds it full is lost.
SendSignal(sig) ==
    /\ pending = "none"
    /\ pending' = sig
    /\ pendingFor' = OnTerminal
    /\ UNCHANGED <<launchVars, tableVars, shellVars>>

-----------------------------------------------------------------------------
(* jobs, fg, bg and stop. *)

\* JobTable.Get and the tests of runJobCommand, StopJob and ResumeJob on the
\* snapshot it returns: "print" where the command only prints and returns.
AfterGet(c, s) ==
    CASE c = "stop" -> IF s = "running" THEN "signal" ELSE "print"
      [] c = "bg"   -> IF s = "stopped" THEN "signal" ELSE "print"
      [] c = "fg"   -> IF s = "stopped" THEN "signal" ELSE "wait"

JobCommand(c, j) ==
    /\ pc = "idle"
    /\ status[j] # "none"
    /\ AfterGet(c, status[j]) # "print"
    /\ command' = c
    /\ job' = j
    /\ pc' = AfterGet(c, status[j])
    /\ UNCHANGED <<launchVars, tableVars, group, foreground, signalVars>>

\* jobs, and the commands that only print: an unknown job, stop or bg of a job
\* with another status.
PrintJobs ==
    /\ pc = "idle"
    /\ UNCHANGED vars

\* Only the first process group is signalled.
SignalledLeaderFault(state) ==
    CASE command = "stop" /\ state = "running" /\ group = 1  -> "stopped"
      [] command # "stop" /\ state = "stopped" /\ group = 1  -> "running"
      [] OTHER                                               -> state

\* syscall.Kill(-pgid, SIGSTOP or SIGCONT).
Signalled(state) ==
    CASE command = "stop" /\ state = "running"  -> "stopped"
      [] command # "stop" /\ state = "stopped"  -> "running"
      [] OTHER                                  -> state

GroupGone(l, g) == proc[l][g] = "reaped"

\* One turn of signalJobGroups: the first group that no longer exists ends the
\* command with an error, the groups already signalled staying as they are.
SignalGroup ==
    LET l == jobLaunch[job] IN
    /\ pc = "signal"
    /\ group \in Procs /\ proc[l][group] # "none"
    /\ IF GroupGone(l, group)
         THEN BackToPrompt /\ UNCHANGED proc
         ELSE /\ proc' = [proc EXCEPT ![l][group] = Signalled(@)]
              /\ group' = group + 1
              /\ UNCHANGED <<pc, command, job, foreground>>
    /\ UNCHANGED <<nextLaunch, failed, waiter, waiterJob, tableVars, signalVars>>

\* The error of a vanished group is dropped and the job is marked all the same.
AllSignalledFault ==
    /\ pc = "signal"
    /\ group \in Procs => proc[jobLaunch[job]][group] \in {"none", "reaped"}
    /\ pc' = "mark"
    /\ UNCHANGED <<launchVars, tableVars, command, job, group, foreground, signalVars>>

AllSignalled ==
    /\ pc = "signal"
    /\ group \in Procs => proc[jobLaunch[job]][group] = "none"
    /\ pc' = "mark"
    /\ UNCHANGED <<launchVars, tableVars, command, job, group, foreground, signalVars>>

MarkJob ==
    /\ pc = "mark"
    /\ Mark(job)
    /\ IF command = "fg" /\ MarkGuard(job)
         THEN pc' = "wait" /\ group' = 1 /\ UNCHANGED <<command, job, foreground>>
         ELSE BackToPrompt
    /\ UNCHANGED <<launchVars, signalVars>>

\* Wait looks at the processes, not at the channel done.
WaitReturnsFault ==
    /\ pc = "wait"
    /\ AllReaped(jobLaunch[job])
    /\ BackToPrompt
    /\ UNCHANGED <<launchVars, tableVars, signalVars>>

\* JobTable.Wait: only the channel done ends it; signals are not looked at.
WaitReturns ==
    /\ pc = "wait"
    /\ closed[job]
    /\ BackToPrompt
    /\ UNCHANGED <<launchVars, tableVars, signalVars>>

-----------------------------------------------------------------------------
Next ==
    \/ \E w \in Procs : StartBackground(w) \/ StartForeground(w)
    \/ \E n \in 0..(NProc - 1) : StartFails(n)
    \/ \E l \in Launches, p \in Procs : ProcExit(l, p) \/ Reap(l, p)
    \/ \E l \in Launches : WaitProcesses(l) \/ WaiterReturns(l)
    \/ \E sig \in Signals : SendSignal(sig)
    \/ \E c \in {"fg", "bg", "stop"}, j \in Jobs : JobCommand(c, j)
    \/ PrintJobs
    \/ ForegroundDone
    \/ ForegroundSignal
    \/ SignalGroup
    \/ AllSignalled
    \/ MarkJob
    \/ WaitReturns

Spec == Init /\ [][Next]_vars

\* Goroutines that can run do run; nothing is assumed of programs and users.
Fairness ==
    /\ \A l \in Launches :
         /\ \A p \in Procs : WF_vars(Reap(l, p))
         /\ WF_vars(WaitProcesses(l))
         /\ WF_vars(WaiterReturns(l))
    /\ WF_vars(ForegroundDone)
    /\ WF_vars(SignalGroup)
    /\ WF_vars(AllSignalled)
    /\ WF_vars(MarkJob)
    /\ WF_vars(WaitReturns)

FairSpec == Spec /\ Fairness

-----------------------------------------------------------------------------
(* Properties. *)

\* Job.done is closed exactly for the jobs that fg reports as done or failed:
\* fg neither waits for a finished job nor returns before the job is finished.
DoneClosedIffFinished ==
    \A j \in Jobs : closed[j] <=> status[j] \in Finished

\* Complete closes Job.done without looking whether it is open, which panics on
\* a closed channel: a waiter that will call it always finds the channel open.
NoDoubleClose ==
    \A l \in Launches :
        waiterJob[l] # 0 /\ waiter[l] \in {"waiting", "collected"}
            => ~closed[waiterJob[l]]

\* A job listed as done or failed has left no process behind, in whatever order
\* the processes of its pipeline ended and whatever was suspended meanwhile.
FinishedJobsHaveNoProcess ==
    \A j \in Jobs : status[j] \in Finished => AllReaped(jobLaunch[j])

\* A job that has finished keeps its status, although stop, bg and fg mark it
\* from a snapshot taken before they signalled its processes.
FinishedIsFinal ==
    [][\A j \in Jobs : status[j] \in Finished => status'[j] = status[j]]_vars

\* stop never reports a job stopped while one of its processes still runs.
StopStopsEveryProcess ==
    [][\A j \in Jobs :
         status[j] = "running" /\ status'[j] = "stopped"
            => \A p \in Procs : proc[jobLaunch[j]][p] # "running"]_vars

\* fg and bg never report a job running while one of its processes is suspended.
ResumeResumesEveryProcess ==
    [][\A j \in Jobs :
         status[j] = "stopped" /\ status'[j] = "running"
            => \A p \in Procs : proc[jobLaunch[j]][p] # "stopped"]_vars

\* When fg's wait is over the job it prints is finished.
FgReportsFinishedJob ==
    [][pc = "wait" /\ pc' = "idle" => status[job] \in Finished]_vars

\* The processes of a launched command line are all gone.
AllGone(l) == \A p \in Procs : proc[l][p] \in {"none", "zombie", "reaped"}

\* A job started with "&" whose processes have ended is eventually reported so,
\* also when it was suspended or being signalled as they ended.
BackgroundJobsFinish ==
    \A j \in Jobs :
        status[j] # "none" /\ waiterJob[jobLaunch[j]] = j /\ AllGone(jobLaunch[j])
            ~> status[j] \in Finished

\* The prompt comes back after the processes it waits for have ended: the
\* foreground command, or the "&" job that fg waits for.
PromptReturns ==
    \A l \in Launches :
        /\ AllGone(l)
        /\ \/ pc = "foreground" /\ foreground = l
           \/ pc = "wait" /\ jobLaunch[job] = l /\ waiterJob[l] = job
        ~> pc = "idle"

\* The job table implements the life cycle of JobLifecycle.
Lifecycle == INSTANCE JobLifecycle WITH MaxJobs <- MaxLaunch
ImplementsLifecycle == Lifecycle!Spec

-----------------------------------------------------------------------------
(* What the documentation leads one to expect and the code does not do. *)

\* Every job whose processes have ended is eventually reported so.
EveryJobFinishes ==
    \A j \in Jobs :
        status[j] # "none" /\ AllGone(jobLaunch[j]) ~> status[j] \in Finished

\* A signal that the user sends while fg waits for a job is forwarded to the
\* processes of that job, not to a command that is started later.
SignalReachesItsCommand ==
    [][\A j \in Jobs :
         /\ status[j] # "none" /\ jobLaunch[j] = pendingFor
         /\ pc = "foreground" /\ pending # "none" /\ pending' = "none"
         => foreground = pendingFor]_vars

\* At the prompt, a job listed as running has no process that stop suspended.
RunningJobsRun ==
    pc = "idle" =>
        \A j \in Jobs : status[j] = "running"
                          => \A p \in Procs : proc[jobLaunch[j]][p] # "stopped"
=============================================================================
