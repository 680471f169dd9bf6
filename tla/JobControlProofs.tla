-------------------------- MODULE JobControlProofs --------------------------
(***************************************************************************)
(* Machine-checked proofs about JobControl, for every number of command    *)
(* lines, every pipeline length and every set of signals.                  *)
(***************************************************************************)
EXTENDS JobControl, TLAPS

(***************************************************************************)
(* The inductive invariant.  The properties are not inductive: that a      *)
(* channel is closed once rests on a job being owned by one waiter, and    *)
(* that needs job numbers to be fresh; that stop has stopped every process *)
(* rests on how far the command has come through the process groups.       *)
(***************************************************************************)

\* Nothing is known yet of a command line that has not been started.
FreshLaunches ==
    \A l \in Launches : l >= nextLaunch =>
        /\ waiter[l] = "none"
        /\ waiterJob[l] = 0

\* The processes of a pipeline are numbered from 1 without a gap.
NoGaps ==
    \A l \in Launches : \A p, q \in Procs :
        proc[l][p] = "none" /\ p <= q => proc[l][q] = "none"

\* The jobs are those with a number below nextID, made from started commands.
JobsNumbered ==
    \A j \in Jobs :
        /\ status[j] = "none" <=> j >= nextID
        /\ j < nextID => jobLaunch[j] \in Launches /\ jobLaunch[j] < nextLaunch

\* A waiter completes the job made from its own command line.
WaitersOwnJobs ==
    \A l \in Launches : waiterJob[l] # 0 =>
        /\ waiterJob[l] < nextID
        /\ jobLaunch[waiterJob[l]] = l

\* A waiter that is past waitProcesses has seen every process go, and a closed
\* channel was closed by the waiter of the job's command line.
CollectedMeansReaped ==
    \A l \in Launches : waiter[l] \in {"collected", "returned"} => AllReaped(l)

ClosedByWaiter ==
    \A j \in Jobs : closed[j] => waiter[jobLaunch[j]] = "returned"

\* What the shell goroutine relies on while it runs a command.
ShellHolds ==
    /\ pc \in {"signal", "mark", "wait"} => job < nextID
    /\ pc \notin {"signal", "mark"} => group = 1
    /\ pc = "foreground" => foreground < nextLaunch /\ nextID < nextLaunch

\* The state a process is no longer in once the command has signalled its group.
Unwanted == IF command = "stop" THEN "running" ELSE "stopped"

\* The groups already signalled are not in the state the command ends.
SignalledSoFar ==
    \A p \in Procs :
        (pc = "signal" /\ p < group) \/ pc = "mark" =>
            proc[jobLaunch[job]][p] # Unwanted

IInv ==
    /\ TypeOK
    /\ FreshLaunches
    /\ NoGaps
    /\ JobsNumbered
    /\ WaitersOwnJobs
    /\ CollectedMeansReaped
    /\ ClosedByWaiter
    /\ DoneClosedIffFinished
    /\ NoDoubleClose
    /\ ShellHolds
    /\ SignalledSoFar

-----------------------------------------------------------------------------
(* The invariant holds at the start, and every action preserves it. *)

\* A shell that has just started has no command line and no job.
LEMMA InitIInv == Init => IInv
  BY JobControlAssumption
  DEF JobControlAssumption, Init, IInv, TypeOK, FreshLaunches, NoGaps,
      JobsNumbered, WaitersOwnJobs, CollectedMeansReaped, ClosedByWaiter,
      DoneClosedIffFinished, NoDoubleClose, ShellHolds, SignalledSoFar,
      AllReaped, Launches, Procs, Jobs, Live, Finished

\* The invariant is preserved by a command line started with &.
LEMMA StartBackgroundStep ==
  ASSUME IInv, NEW w \in Procs, StartBackground(w)
  PROVE  IInv'
<1> USE JobControlAssumption
    DEF JobControlAssumption, Launches, Procs, Jobs, Live, Finished
<1>1. TypeOK'
  <2>1. nextLaunch' \in 1..(MaxLaunch + 1) /\ nextID' \in 1..nextLaunch'
    BY DEF IInv, TypeOK, StartBackground, StartProcesses, Add
  <2>2. proc' \in [Launches -> [Procs ->
                    {"none", "running", "stopped", "zombie", "reaped"}]]
    BY DEF IInv, TypeOK, StartBackground, StartProcesses
  <2>3. /\ waiter' \in [Launches -> {"none", "waiting", "collected", "returned"}]
        /\ waiterJob' \in [Launches -> 0..MaxLaunch]
    BY DEF IInv, TypeOK, StartBackground
  <2>4. /\ status' \in [Jobs -> {"none"} \cup Live \cup Finished]
        /\ closed' \in [Jobs -> BOOLEAN]
        /\ jobLaunch' \in [Jobs -> 0..MaxLaunch]
    BY DEF IInv, TypeOK, StartBackground, Add
  <2> QED
    BY <2>1, <2>2, <2>3, <2>4
    DEF IInv, TypeOK, StartBackground, StartProcesses, shellVars, signalVars
<1>2. FreshLaunches'
  BY DEF IInv, TypeOK, FreshLaunches, StartBackground, StartProcesses, Add,
         shellVars, signalVars
<1>3. NoGaps'
  BY DEF IInv, TypeOK, NoGaps, StartBackground, StartProcesses, Add, shellVars,
         signalVars
<1>4. JobsNumbered'
  <2>1. nextID \in Jobs /\ nextID' = nextID + 1 /\ nextLaunch' = nextLaunch + 1
    BY DEF IInv, TypeOK, StartBackground, StartProcesses, Add
  <2>2. status' = [status EXCEPT ![nextID] = "running"]
    BY DEF StartBackground, Add
  <2>3. jobLaunch' = [jobLaunch EXCEPT ![nextID] = nextLaunch]
    BY DEF StartBackground, Add
  <2>4. nextLaunch \in Launches
    BY DEF StartBackground
  <2> QED
    BY <2>1, <2>2, <2>3, <2>4, SMTT(30) DEF IInv, TypeOK, JobsNumbered
<1>5. WaitersOwnJobs'
  BY DEF IInv, TypeOK, WaitersOwnJobs, FreshLaunches, JobsNumbered, ShellHolds,
         StartBackground, StartProcesses, Add, shellVars, signalVars
<1>6. CollectedMeansReaped'
  BY DEF IInv, TypeOK, CollectedMeansReaped, FreshLaunches, ShellHolds,
         AllReaped, StartBackground, StartProcesses, Add, shellVars, signalVars
<1>7. ClosedByWaiter'
  BY DEF IInv, TypeOK, ClosedByWaiter, JobsNumbered, FreshLaunches,
         WaitersOwnJobs, DoneClosedIffFinished, StartBackground,
         StartProcesses, Add, shellVars, signalVars
<1>8. DoneClosedIffFinished'
  BY DEF IInv, TypeOK, DoneClosedIffFinished, JobsNumbered, ShellHolds,
         StartBackground, StartProcesses, Add, shellVars, signalVars
<1>9. NoDoubleClose'
  BY DEF IInv, TypeOK, NoDoubleClose, WaitersOwnJobs, JobsNumbered,
         FreshLaunches, DoneClosedIffFinished, StartBackground, StartProcesses,
         Add, shellVars, signalVars
<1>10. ShellHolds'
  BY DEF IInv, TypeOK, ShellHolds, JobsNumbered, StartBackground,
         StartProcesses, Add, shellVars, signalVars
<1>11. SignalledSoFar'
  BY DEF IInv, TypeOK, SignalledSoFar, ShellHolds, JobsNumbered, NoGaps,
         Unwanted, StartBackground, StartProcesses, Add, shellVars, signalVars
<1> QED BY <1>1, <1>2, <1>3, <1>4, <1>5, <1>6, <1>7, <1>8, <1>9, <1>10, <1>11 DEF IInv

\* The invariant is preserved by a foreground command line.
LEMMA StartForegroundStep ==
  ASSUME IInv, NEW w \in Procs, StartForeground(w)
  PROVE  IInv'
<1> USE JobControlAssumption
    DEF JobControlAssumption, Launches, Procs, Jobs, Live, Finished
<1>1. TypeOK'
  BY DEF IInv, TypeOK, ShellHolds, StartForeground, StartProcesses, tableVars,
         signalVars
<1>2. FreshLaunches'
  BY DEF IInv, TypeOK, FreshLaunches, StartForeground, StartProcesses,
         tableVars, signalVars
<1>3. NoGaps'
  BY DEF IInv, TypeOK, NoGaps, StartForeground, StartProcesses, tableVars,
         signalVars
<1>4. JobsNumbered'
  BY DEF IInv, TypeOK, JobsNumbered, ShellHolds, WaitersOwnJobs,
         DoneClosedIffFinished, StartForeground, StartProcesses, tableVars,
         signalVars
<1>5. CollectedMeansReaped'
  BY DEF IInv, TypeOK, CollectedMeansReaped, FreshLaunches, ShellHolds,
         AllReaped, StartForeground, StartProcesses, tableVars, signalVars
<1>6. ClosedByWaiter'
  BY DEF IInv, TypeOK, ClosedByWaiter, JobsNumbered, FreshLaunches,
         WaitersOwnJobs, DoneClosedIffFinished, StartForeground,
         StartProcesses, tableVars, signalVars
<1>7. NoDoubleClose'
  BY DEF IInv, TypeOK, NoDoubleClose, WaitersOwnJobs, JobsNumbered,
         FreshLaunches, DoneClosedIffFinished, StartForeground, StartProcesses,
         tableVars, signalVars
<1>8. ShellHolds'
  BY DEF IInv, TypeOK, ShellHolds, JobsNumbered, StartForeground,
         StartProcesses, tableVars, signalVars
<1>9. SignalledSoFar'
  BY DEF IInv, TypeOK, SignalledSoFar, ShellHolds, JobsNumbered, NoGaps,
         Unwanted, StartForeground, StartProcesses, tableVars, signalVars
<1>10. WaitersOwnJobs' /\ DoneClosedIffFinished'
  BY DEF IInv, WaitersOwnJobs, DoneClosedIffFinished, StartForeground,
         StartProcesses, tableVars, signalVars
<1> QED BY <1>1, <1>2, <1>3, <1>4, <1>5, <1>6, <1>7, <1>8, <1>9, <1>10 DEF IInv

\* The invariant is preserved by a command line that cannot be started.
LEMMA StartFailsStep ==
  ASSUME IInv, NEW n \in 0..(NProc - 1), StartFails(n)
  PROVE  IInv'
<1> USE JobControlAssumption
    DEF JobControlAssumption, Launches, Procs, Jobs, Live, Finished
<1>1. TypeOK'
  BY DEF IInv, TypeOK, ShellHolds, StartFails, StartProcesses, tableVars,
         shellVars, signalVars
<1>2. FreshLaunches'
  BY DEF IInv, TypeOK, FreshLaunches, StartFails, StartProcesses, tableVars,
         shellVars, signalVars
<1>3. NoGaps'
  BY DEF IInv, TypeOK, NoGaps, StartFails, StartProcesses, tableVars,
         shellVars, signalVars
<1>4. JobsNumbered'
  BY DEF IInv, TypeOK, JobsNumbered, ShellHolds, WaitersOwnJobs,
         DoneClosedIffFinished, StartFails, StartProcesses, tableVars,
         shellVars, signalVars
<1>5. CollectedMeansReaped'
  BY DEF IInv, TypeOK, CollectedMeansReaped, FreshLaunches, ShellHolds,
         AllReaped, StartFails, StartProcesses, tableVars, shellVars,
         signalVars
<1>6. ShellHolds'
  BY DEF IInv, TypeOK, ShellHolds, JobsNumbered, StartFails, StartProcesses,
         tableVars, shellVars, signalVars
<1>7. SignalledSoFar'
  BY DEF IInv, TypeOK, SignalledSoFar, ShellHolds, JobsNumbered, NoGaps,
         Unwanted, StartFails, StartProcesses, tableVars, shellVars, signalVars
<1>8. WaitersOwnJobs' /\ ClosedByWaiter' /\ DoneClosedIffFinished' /\ NoDoubleClose'
  BY DEF IInv, WaitersOwnJobs, ClosedByWaiter, DoneClosedIffFinished,
         NoDoubleClose, StartFails, StartProcesses, tableVars, shellVars,
         signalVars
<1> QED BY <1>1, <1>2, <1>3, <1>4, <1>5, <1>6, <1>7, <1>8 DEF IInv

\* The invariant is preserved by the end of a process.
LEMMA ProcExitStep ==
  ASSUME IInv, NEW l \in Launches, NEW p \in Procs, ProcExit(l, p)
  PROVE  IInv'
<1> USE JobControlAssumption
    DEF JobControlAssumption, Launches, Procs, Jobs, Live, Finished
<1>1. TypeOK'
  BY DEF IInv, TypeOK, ShellHolds, ProcExit, tableVars, shellVars, signalVars
<1>2. NoGaps'
  BY SMTT(30) DEF IInv, TypeOK, NoGaps, ProcExit, tableVars, shellVars, signalVars
<1>3. CollectedMeansReaped'
  BY SMTT(30) DEF IInv, TypeOK, CollectedMeansReaped, FreshLaunches, ShellHolds,
         AllReaped, ProcExit, tableVars, shellVars, signalVars
<1>4. SignalledSoFar'
  <2>1. proc' = [proc EXCEPT ![l][p] = "zombie"] /\ proc \in [Launches ->
          [Procs -> {"none", "running", "stopped", "zombie", "reaped"}]]
    BY DEF IInv, TypeOK, ProcExit
  <2>2. \A k \in Launches, q \in Procs :
          proc'[k][q] = proc[k][q] \/ proc'[k][q] = "zombie"
    BY <2>1
  <2>3. pc \in {"signal", "mark"} => jobLaunch[job] \in Launches
    BY DEF IInv, TypeOK, ShellHolds, JobsNumbered
  <2>4. Unwanted' = Unwanted /\ Unwanted # "zombie"
    BY DEF Unwanted, ProcExit, shellVars
  <2> QED
    BY <2>2, <2>3, <2>4 DEF IInv, SignalledSoFar, ProcExit, tableVars, shellVars
<1>5. FreshLaunches' /\ JobsNumbered' /\ WaitersOwnJobs' /\ ClosedByWaiter' /\
      DoneClosedIffFinished' /\ NoDoubleClose' /\ ShellHolds'
  BY DEF IInv, FreshLaunches, JobsNumbered, WaitersOwnJobs, ClosedByWaiter,
         DoneClosedIffFinished, NoDoubleClose, ShellHolds, ProcExit, tableVars,
         shellVars, signalVars
<1> QED BY <1>1, <1>2, <1>3, <1>4, <1>5 DEF IInv

\* The invariant is preserved by a process that is waited for.
LEMMA ReapStep ==
  ASSUME IInv, NEW l \in Launches, NEW p \in Procs, Reap(l, p)
  PROVE  IInv'
<1> USE JobControlAssumption
    DEF JobControlAssumption, Launches, Procs, Jobs, Live, Finished
<1>1. TypeOK'
  BY DEF IInv, TypeOK, ShellHolds, Reap, tableVars, shellVars, signalVars
<1>2. NoGaps'
  BY SMTT(30) DEF IInv, TypeOK, NoGaps, Reap, tableVars, shellVars, signalVars
<1>3. CollectedMeansReaped'
  BY DEF IInv, TypeOK, CollectedMeansReaped, FreshLaunches, ShellHolds,
         AllReaped, Reap, tableVars, shellVars, signalVars
<1>4. SignalledSoFar'
  <2>1. proc' = [proc EXCEPT ![l][p] = "reaped"] /\ proc \in [Launches ->
          [Procs -> {"none", "running", "stopped", "zombie", "reaped"}]]
    BY DEF IInv, TypeOK, Reap
  <2>2. \A k \in Launches, q \in Procs :
          proc'[k][q] = proc[k][q] \/ proc'[k][q] = "reaped"
    BY <2>1
  <2>3. pc \in {"signal", "mark"} => jobLaunch[job] \in Launches
    BY DEF IInv, TypeOK, ShellHolds, JobsNumbered
  <2>4. Unwanted' = Unwanted /\ Unwanted # "reaped"
    BY DEF Unwanted, Reap, shellVars
  <2> QED
    BY <2>2, <2>3, <2>4 DEF IInv, SignalledSoFar, Reap, tableVars, shellVars
<1>5. FreshLaunches' /\ JobsNumbered' /\ WaitersOwnJobs' /\ ClosedByWaiter' /\
      DoneClosedIffFinished' /\ NoDoubleClose' /\ ShellHolds'
  BY DEF IInv, FreshLaunches, JobsNumbered, WaitersOwnJobs, ClosedByWaiter,
         DoneClosedIffFinished, NoDoubleClose, ShellHolds, Reap, tableVars,
         shellVars, signalVars
<1> QED BY <1>1, <1>2, <1>3, <1>4, <1>5 DEF IInv

\* The invariant is preserved by the return of waitProcesses.
LEMMA WaitProcessesStep ==
  ASSUME IInv, NEW l \in Launches, WaitProcesses(l)
  PROVE  IInv'
<1> USE JobControlAssumption
    DEF JobControlAssumption, Launches, Procs, Jobs, Live, Finished
<1>1. TypeOK'
  BY DEF IInv, TypeOK, ShellHolds, WaitProcesses, tableVars, shellVars,
         signalVars
<1>2. FreshLaunches'
  BY DEF IInv, TypeOK, FreshLaunches, WaitProcesses, tableVars, shellVars,
         signalVars
<1>3. CollectedMeansReaped'
  BY DEF IInv, TypeOK, CollectedMeansReaped, FreshLaunches, ShellHolds,
         AllReaped, WaitProcesses, tableVars, shellVars, signalVars
<1>4. ClosedByWaiter'
  BY DEF IInv, TypeOK, ClosedByWaiter, JobsNumbered, FreshLaunches,
         WaitersOwnJobs, DoneClosedIffFinished, WaitProcesses, tableVars,
         shellVars, signalVars
<1>5. NoDoubleClose'
  BY DEF IInv, TypeOK, NoDoubleClose, WaitersOwnJobs, JobsNumbered,
         FreshLaunches, DoneClosedIffFinished, WaitProcesses, tableVars,
         shellVars, signalVars
<1>6. NoGaps' /\ JobsNumbered' /\ WaitersOwnJobs' /\ DoneClosedIffFinished' /\
      ShellHolds' /\ SignalledSoFar'
  BY DEF IInv, NoGaps, JobsNumbered, WaitersOwnJobs, DoneClosedIffFinished,
         ShellHolds, SignalledSoFar, Unwanted, WaitProcesses, tableVars,
         shellVars, signalVars
<1> QED BY <1>1, <1>2, <1>3, <1>4, <1>5, <1>6 DEF IInv

\* The invariant is preserved by the end of a waiter.
LEMMA WaiterReturnsStep ==
  ASSUME IInv, NEW l \in Launches, WaiterReturns(l)
  PROVE  IInv'
<1> USE JobControlAssumption
    DEF JobControlAssumption, Launches, Procs, Jobs, Live, Finished
<1> USE JobControlAssumption DEF JobControlAssumption, Launches, Procs, Jobs
<1> DEFINE w == waiterJob[l]
<1>1. waiter' = [waiter EXCEPT ![l] = "returned"] /\ waiter[l] = "collected"
  BY DEF WaiterReturns
<1>2. UNCHANGED <<nextLaunch, proc, waiterJob, nextID, jobLaunch, shellVars, signalVars>>
  BY DEF WaiterReturns, Complete, tableVars
<1>3. CASE w = 0
  <2>1. UNCHANGED <<status, closed>>
    BY <1>3 DEF WaiterReturns, tableVars
  <2>2. TypeOK'
    BY <1>1, <1>2, <2>1 DEF IInv, TypeOK, shellVars, signalVars, WaiterReturns
  <2>3. CollectedMeansReaped' /\ ClosedByWaiter' /\ NoDoubleClose' /\ FreshLaunches'
    BY <1>1, <1>2, <2>1
    DEF IInv, TypeOK, CollectedMeansReaped, ClosedByWaiter, NoDoubleClose,
        FreshLaunches, AllReaped
  <2>4. /\ NoGaps' /\ JobsNumbered' /\ WaitersOwnJobs' /\ DoneClosedIffFinished'
        /\ ShellHolds' /\ SignalledSoFar'
    BY <1>2, <2>1
    DEF IInv, NoGaps, JobsNumbered, WaitersOwnJobs, DoneClosedIffFinished, ShellHolds,
        SignalledSoFar, Unwanted, shellVars
  <2> QED
    BY <2>2, <2>3, <2>4 DEF IInv
<1>4. CASE w # 0
  <2>1. /\ status' = [status EXCEPT ![w] = IF failed[l] THEN "failed" ELSE "done"]
        /\ closed' = [closed EXCEPT ![w] = TRUE]
    BY <1>4 DEF WaiterReturns, Complete
  <2>2. w \in Jobs /\ w < nextID /\ jobLaunch[w] = l
    BY <1>4 DEF IInv, TypeOK, WaitersOwnJobs
  <2>3. TypeOK'
    BY <1>1, <1>2, <2>1, <2>2, SMTT(30)
    DEF IInv, TypeOK, shellVars, signalVars, WaiterReturns, Finished
  <2>4. JobsNumbered'
    BY <1>2, <2>1, <2>2 DEF IInv, TypeOK, JobsNumbered
  <2>5. ClosedByWaiter'
    BY <1>1, <1>2, <2>1, <2>2 DEF IInv, TypeOK, ClosedByWaiter
  <2>6. DoneClosedIffFinished'
    BY <2>1, <2>2 DEF IInv, TypeOK, DoneClosedIffFinished, Finished
  <2>7. NoDoubleClose'
    BY <1>1, <1>2, <2>1, <2>2 DEF IInv, TypeOK, NoDoubleClose, WaitersOwnJobs
  <2>8. CollectedMeansReaped' /\ FreshLaunches'
    BY <1>1, <1>2, SMTT(30) DEF IInv, TypeOK, CollectedMeansReaped, FreshLaunches, AllReaped
  <2>9. NoGaps' /\ WaitersOwnJobs' /\ ShellHolds' /\ SignalledSoFar'
    BY <1>2
    DEF IInv, NoGaps, WaitersOwnJobs, ShellHolds, SignalledSoFar, Unwanted, shellVars
  <2> QED
    BY <2>3, <2>4, <2>5, <2>6, <2>7, <2>8, <2>9 DEF IInv
<1> QED BY <1>3, <1>4

\* The invariant is preserved by a signal sent to the shell.
LEMMA SendSignalStep ==
  ASSUME IInv, NEW sig \in Signals, SendSignal(sig)
  PROVE  IInv'
<1> USE JobControlAssumption
    DEF JobControlAssumption, Launches, Procs, Jobs, Live, Finished
<1>1. TypeOK'
  BY SMTT(30) DEF IInv, TypeOK, ShellHolds, SendSignal, OnTerminal, launchVars,
         tableVars, shellVars
<1>2. FreshLaunches' /\ NoGaps' /\ JobsNumbered' /\ WaitersOwnJobs' /\
      CollectedMeansReaped' /\ ClosedByWaiter' /\ DoneClosedIffFinished' /\
      NoDoubleClose' /\ ShellHolds' /\ SignalledSoFar'
  BY DEF IInv, FreshLaunches, NoGaps, JobsNumbered, WaitersOwnJobs,
         CollectedMeansReaped, ClosedByWaiter, DoneClosedIffFinished,
         NoDoubleClose, ShellHolds, SignalledSoFar, AllReaped, Unwanted,
         SendSignal, OnTerminal, launchVars, tableVars, shellVars
<1> QED BY <1>1, <1>2 DEF IInv

\* The invariant is preserved by a job command that acts.
LEMMA JobCommandStep ==
  ASSUME IInv, NEW c \in {"fg", "bg", "stop"}, NEW j \in Jobs, JobCommand(c, j)
  PROVE  IInv'
<1> USE JobControlAssumption
    DEF JobControlAssumption, Launches, Procs, Jobs, Live, Finished
<1>1. TypeOK'
  BY DEF IInv, TypeOK, ShellHolds, JobCommand, AfterGet, launchVars, tableVars,
         signalVars
<1>2. ShellHolds'
  BY SMTT(30) DEF IInv, TypeOK, ShellHolds, JobsNumbered, JobCommand, AfterGet,
         launchVars, tableVars, signalVars
<1>3. SignalledSoFar'
  <2>1. pc' \in {"signal", "wait"} /\ group' = group
    BY DEF JobCommand, AfterGet, IInv, TypeOK
  <2>2. group = 1
    BY DEF JobCommand, IInv, ShellHolds
  <2> QED
    BY <2>1, <2>2 DEF SignalledSoFar
<1>4. FreshLaunches' /\ NoGaps' /\ JobsNumbered' /\ WaitersOwnJobs' /\
      CollectedMeansReaped' /\ ClosedByWaiter' /\ DoneClosedIffFinished' /\
      NoDoubleClose'
  BY DEF IInv, FreshLaunches, NoGaps, JobsNumbered, WaitersOwnJobs,
         CollectedMeansReaped, ClosedByWaiter, DoneClosedIffFinished,
         NoDoubleClose, AllReaped, JobCommand, AfterGet, launchVars, tableVars,
         signalVars
<1> QED BY <1>1, <1>2, <1>3, <1>4 DEF IInv

\* The invariant is preserved by the end of a foreground command.
LEMMA ForegroundDoneStep ==
  ASSUME IInv, ForegroundDone
  PROVE  IInv'
<1> USE JobControlAssumption
    DEF JobControlAssumption, Launches, Procs, Jobs, Live, Finished
<1>1. TypeOK'
  BY DEF IInv, TypeOK, ShellHolds, ForegroundDone, BackToPrompt, launchVars,
         tableVars, signalVars
<1>2. ShellHolds'
  BY DEF IInv, TypeOK, ShellHolds, JobsNumbered, ForegroundDone, BackToPrompt,
         launchVars, tableVars, signalVars
<1>3. SignalledSoFar'
  BY DEF IInv, TypeOK, SignalledSoFar, ShellHolds, JobsNumbered, NoGaps,
         Unwanted, ForegroundDone, BackToPrompt, launchVars, tableVars,
         signalVars
<1>4. FreshLaunches' /\ NoGaps' /\ JobsNumbered' /\ WaitersOwnJobs' /\
      CollectedMeansReaped' /\ ClosedByWaiter' /\ DoneClosedIffFinished' /\
      NoDoubleClose'
  BY DEF IInv, FreshLaunches, NoGaps, JobsNumbered, WaitersOwnJobs,
         CollectedMeansReaped, ClosedByWaiter, DoneClosedIffFinished,
         NoDoubleClose, AllReaped, ForegroundDone, BackToPrompt, launchVars,
         tableVars, signalVars
<1> QED BY <1>1, <1>2, <1>3, <1>4 DEF IInv

\* The invariant is preserved by a signal forwarded to the foreground command.
LEMMA ForegroundSignalStep ==
  ASSUME IInv, ForegroundSignal
  PROVE  IInv'
<1> USE JobControlAssumption
    DEF JobControlAssumption, Launches, Procs, Jobs, Live, Finished
<1> USE JobControlAssumption DEF JobControlAssumption, Launches, Procs, Jobs
<1>1. PICK hit \in SUBSET {p \in Procs : proc[foreground][p] = "running"} :
        /\ proc' = [proc EXCEPT ![foreground] =
                      [p \in Procs |-> IF p \notin hit THEN proc[foreground][p]
                                       ELSE IF pending = "TSTP" THEN "stopped"
                                       ELSE "zombie"]]
        /\ failed' = [failed EXCEPT ![foreground] =
                        @ \/ (pending # "TSTP" /\ hit # {})]
  BY DEF ForegroundSignal, Forward
<1>2. /\ pc = "foreground" /\ foreground < nextLaunch /\ nextID < nextLaunch
      /\ UNCHANGED <<nextLaunch, waiter, waiterJob>>
      /\ pending' = "none" /\ pendingFor' = 0
  BY DEF ForegroundSignal, IInv, ShellHolds
<1>3. proc' \in [Launches -> [Procs ->
                  {"none", "running", "stopped", "zombie", "reaped"}]]
  <2>1. [p \in Procs |-> IF p \notin hit THEN proc[foreground][p]
                         ELSE IF pending = "TSTP" THEN "stopped" ELSE "zombie"]
          \in [Procs -> {"none", "running", "stopped", "zombie", "reaped"}]
    BY DEF IInv, TypeOK
  <2> QED
    BY <1>1, <2>1 DEF IInv, TypeOK
<1>4. failed' \in [Launches -> BOOLEAN]
  BY <1>1 DEF IInv, TypeOK
<1>5. \A l \in Launches, p \in Procs :
        proc[l][p] # "running" => proc'[l][p] = proc[l][p]
  BY <1>1 DEF IInv, TypeOK
<1>6. \A l \in Launches, p \in Procs : proc'[l][p] = "none" => proc[l][p] = "none"
  BY <1>1 DEF IInv, TypeOK
<1>7. NoGaps'
  BY <1>5, <1>6 DEF IInv, NoGaps
<1>8. CollectedMeansReaped'
  <2>1. \A l \in Launches : AllReaped(l) => AllReaped(l)'
    BY <1>5 DEF AllReaped
  <2> QED
    BY <1>2, <2>1 DEF IInv, CollectedMeansReaped
<1>9. FreshLaunches'
  BY <1>2 DEF IInv, FreshLaunches
<1>10. CASE pending = "TSTP"
  <2>1. /\ nextID' = nextID + 1
        /\ status' = [status EXCEPT ![nextID] = "stopped"]
        /\ closed' = [closed EXCEPT ![nextID] = FALSE]
        /\ jobLaunch' = [jobLaunch EXCEPT ![nextID] = foreground]
        /\ pc' = "idle" /\ command' = "fg" /\ job' = 1 /\ group' = 1 /\ foreground' = 1
    BY <1>10 DEF ForegroundSignal, Add, BackToPrompt
  <2>2. nextID \in Jobs /\ foreground \in Launches
    BY <1>2 DEF IInv, TypeOK
  <2>3. ~closed[nextID]
    <3>1. status[nextID] = "none"
      BY <2>2 DEF IInv, TypeOK, JobsNumbered
    <3> QED
      BY <2>2, <3>1 DEF IInv, DoneClosedIffFinished, Finished
  <2>4. TypeOK'
    BY <1>2, <1>3, <1>4, <2>1, <2>2 DEF IInv, TypeOK, Live
  <2>5. JobsNumbered'
    BY <1>2, <2>1, <2>2 DEF IInv, TypeOK, JobsNumbered
  <2>6. WaitersOwnJobs'
    BY <1>2, <2>1, <2>2, SMTT(30) DEF IInv, TypeOK, WaitersOwnJobs
  <2>7. ClosedByWaiter'
    BY <1>2, <2>1, <2>2 DEF IInv, TypeOK, ClosedByWaiter
  <2>7a. NoDoubleClose'
    <3>1. \A j \in Jobs : j # nextID => closed'[j] = closed[j]
      BY <2>1 DEF IInv, TypeOK
    <3>2. \A l \in Launches : waiterJob[l] # 0 =>
            waiterJob[l] \in Jobs /\ waiterJob[l] # nextID
      BY DEF IInv, TypeOK, WaitersOwnJobs
    <3> QED
      BY <1>2, <3>1, <3>2 DEF IInv, NoDoubleClose
  <2>8. DoneClosedIffFinished'
    BY <2>1, <2>2 DEF IInv, TypeOK, DoneClosedIffFinished, Finished
  <2>9. ShellHolds' /\ SignalledSoFar'
    BY <2>1 DEF ShellHolds, SignalledSoFar
  <2> QED
    BY <1>7, <1>8, <1>9, <2>4, <2>5, <2>6, <2>7, <2>7a, <2>8, <2>9
    DEF IInv
<1>11. CASE pending # "TSTP"
  <2>1. UNCHANGED <<tableVars, shellVars>>
    BY <1>11 DEF ForegroundSignal
  <2>2. TypeOK'
    BY <1>2, <1>3, <1>4, <2>1 DEF IInv, TypeOK, tableVars, shellVars
  <2>3. /\ JobsNumbered' /\ WaitersOwnJobs' /\ ClosedByWaiter' /\ NoDoubleClose'
        /\ DoneClosedIffFinished' /\ ShellHolds'
    BY <1>2, <2>1
    DEF IInv, JobsNumbered, WaitersOwnJobs, ClosedByWaiter, NoDoubleClose,
        DoneClosedIffFinished, ShellHolds, tableVars, shellVars
  <2>4. SignalledSoFar'
    BY <1>2, <2>1 DEF SignalledSoFar, shellVars
  <2> QED
    BY <1>7, <1>8, <1>9, <2>2, <2>3, <2>4 DEF IInv
<1> QED BY <1>10, <1>11

\* The invariant is preserved by one turn of signalJobGroups.
LEMMA SignalGroupStep ==
  ASSUME IInv, SignalGroup
  PROVE  IInv'
<1> USE JobControlAssumption
    DEF JobControlAssumption, Launches, Procs, Jobs, Live, Finished
<1> USE JobControlAssumption DEF JobControlAssumption, Launches, Procs, Jobs
<1> DEFINE k == jobLaunch[job]
<1>1. /\ pc = "signal" /\ group \in Procs /\ proc[k][group] # "none"
      /\ k \in Launches /\ k < nextLaunch /\ job < nextID
      /\ UNCHANGED <<nextLaunch, failed, waiter, waiterJob, tableVars, signalVars>>
  BY DEF SignalGroup, IInv, TypeOK, ShellHolds, JobsNumbered
<1>2. CASE GroupGone(k, group)
  <2>1. /\ pc' = "idle" /\ command' = "fg" /\ job' = 1 /\ group' = 1 /\ foreground' = 1
        /\ UNCHANGED proc
    BY <1>2 DEF SignalGroup, BackToPrompt
  <2>2. TypeOK'
    <3>1. pc' \in {"idle"} /\ command' \in {"fg"} /\ job' \in Jobs
          /\ group' \in 1..(NProc + 1) /\ foreground' \in Launches
      BY <2>1
    <3> QED
      BY <1>1, <2>1, <3>1 DEF IInv, TypeOK, tableVars, signalVars
  <2>3. /\ FreshLaunches' /\ NoGaps' /\ JobsNumbered' /\ WaitersOwnJobs'
        /\ CollectedMeansReaped' /\ ClosedByWaiter' /\ DoneClosedIffFinished'
        /\ NoDoubleClose'
    BY <1>1, <2>1
    DEF IInv, FreshLaunches, NoGaps, JobsNumbered, WaitersOwnJobs, CollectedMeansReaped,
        ClosedByWaiter, DoneClosedIffFinished, NoDoubleClose, AllReaped, tableVars
  <2>4. ShellHolds' /\ SignalledSoFar'
    BY <2>1 DEF ShellHolds, SignalledSoFar
  <2> QED
    BY <2>2, <2>3, <2>4 DEF IInv
<1>3. CASE ~GroupGone(k, group)
  <2>1. /\ proc' = [proc EXCEPT ![k][group] = Signalled(proc[k][group])]
        /\ group' = group + 1
        /\ UNCHANGED <<pc, command, job, foreground>>
    BY <1>3 DEF SignalGroup
  <2>2. proc[k][group] \in {"running", "stopped", "zombie"}
    BY <1>1, <1>3 DEF GroupGone, IInv, TypeOK
  <2>3. /\ Signalled(proc[k][group]) \in {"running", "stopped", "zombie"}
        /\ Signalled(proc[k][group]) # Unwanted
    BY <2>2 DEF Signalled, Unwanted, IInv, TypeOK
  <2>4. TypeOK'
    <3>1. proc' \in [Launches -> [Procs ->
                      {"none", "running", "stopped", "zombie", "reaped"}]]
      BY <1>1, <2>1, <2>3 DEF IInv, TypeOK
    <3>2. group' \in 1..(NProc + 1)
      BY <1>1, <2>1
    <3> QED
      BY <1>1, <2>1, <3>1, <3>2 DEF IInv, TypeOK, tableVars, signalVars
  <2>5. \A l \in Launches, p \in Procs :
          /\ l # k \/ p # group => proc'[l][p] = proc[l][p]
          /\ l = k /\ p = group => proc'[l][p] = Signalled(proc[k][group])
    BY <1>1, <2>1 DEF IInv, TypeOK
  <2>6. NoGaps'
    BY <1>1, <2>3, <2>5 DEF IInv, NoGaps
  <2>7. CollectedMeansReaped'
    <3>1. waiter[k] \notin {"collected", "returned"}
      BY <1>1, <2>2 DEF IInv, CollectedMeansReaped, AllReaped
    <3> QED
      BY <1>1, <2>5, <3>1 DEF IInv, CollectedMeansReaped, AllReaped
  <2>8. SignalledSoFar'
    <3>1. Unwanted' = Unwanted /\ jobLaunch'[job'] = k /\ pc' = "signal"
      BY <1>1, <2>1 DEF Unwanted, tableVars
    <3>2. \A p \in Procs : p < group => proc[k][p] # Unwanted
      BY <1>1 DEF IInv, SignalledSoFar
    <3>3. \A p \in Procs : p < group' => proc'[k][p] # Unwanted
      BY <1>1, <2>1, <2>3, <2>5, <3>2
    <3> QED
      BY <3>1, <3>3 DEF SignalledSoFar
  <2>9. /\ FreshLaunches' /\ JobsNumbered' /\ WaitersOwnJobs' /\ ClosedByWaiter'
        /\ DoneClosedIffFinished' /\ NoDoubleClose' /\ ShellHolds'
    BY <1>1, <2>1
    DEF IInv, FreshLaunches, JobsNumbered, WaitersOwnJobs, ClosedByWaiter,
        DoneClosedIffFinished, NoDoubleClose, ShellHolds, tableVars
  <2> QED
    BY <2>4, <2>6, <2>7, <2>8, <2>9 DEF IInv
<1> QED BY <1>2, <1>3

\* The invariant is preserved by the end of signalJobGroups.
LEMMA AllSignalledStep ==
  ASSUME IInv, AllSignalled
  PROVE  IInv'
<1> USE JobControlAssumption
    DEF JobControlAssumption, Launches, Procs, Jobs, Live, Finished
<1>1. TypeOK'
  BY DEF IInv, TypeOK, ShellHolds, AllSignalled, launchVars, tableVars,
         signalVars
<1>2. ShellHolds'
  BY DEF IInv, TypeOK, ShellHolds, JobsNumbered, AllSignalled, launchVars,
         tableVars, signalVars
<1>3. SignalledSoFar'
  BY DEF IInv, TypeOK, SignalledSoFar, ShellHolds, JobsNumbered, NoGaps,
         Unwanted, AllSignalled, launchVars, tableVars, signalVars
<1>4. FreshLaunches' /\ NoGaps' /\ JobsNumbered' /\ WaitersOwnJobs' /\
      CollectedMeansReaped' /\ ClosedByWaiter' /\ DoneClosedIffFinished' /\
      NoDoubleClose'
  BY DEF IInv, FreshLaunches, NoGaps, JobsNumbered, WaitersOwnJobs,
         CollectedMeansReaped, ClosedByWaiter, DoneClosedIffFinished,
         NoDoubleClose, AllReaped, AllSignalled, launchVars, tableVars,
         signalVars
<1> QED BY <1>1, <1>2, <1>3, <1>4 DEF IInv

\* The invariant is preserved by MarkStopped or MarkRunning.
LEMMA MarkJobStep ==
  ASSUME IInv, MarkJob
  PROVE  IInv'
<1> USE JobControlAssumption
    DEF JobControlAssumption, Launches, Procs, Jobs, Live, Finished
<1>1. TypeOK'
  <2>1. status' \in [Jobs -> {"none"} \cup Live \cup Finished]
    BY DEF IInv, TypeOK, MarkJob, Mark
  <2>2. /\ pc' \in {"idle", "wait"} /\ command' \in {"fg", "bg", "stop"}
        /\ job' \in Jobs /\ group' \in 1..(NProc + 1) /\ foreground' \in Launches
    BY DEF IInv, TypeOK, MarkJob, BackToPrompt
  <2> QED
    BY <2>1, <2>2 DEF IInv, TypeOK, MarkJob, Mark, launchVars, signalVars
<1>2. JobsNumbered'
  BY DEF IInv, TypeOK, JobsNumbered, ShellHolds, WaitersOwnJobs,
         DoneClosedIffFinished, MarkJob, Mark, MarkGuard, BackToPrompt,
         launchVars, signalVars
<1>3. DoneClosedIffFinished'
  BY SMTT(30) DEF IInv, TypeOK, DoneClosedIffFinished, JobsNumbered, ShellHolds,
         MarkJob, Mark, MarkGuard, BackToPrompt, launchVars, signalVars
<1>4. ShellHolds'
  <2>1. job < nextID /\ UNCHANGED <<nextID, nextLaunch>>
    BY DEF MarkJob, Mark, launchVars, IInv, ShellHolds
  <2>2. (pc' = "wait" /\ job' = job) \/ pc' = "idle"
    BY DEF MarkJob, BackToPrompt
  <2>3. group' = 1
    BY DEF MarkJob, BackToPrompt
  <2> QED
    BY <2>1, <2>2, <2>3 DEF ShellHolds
<1>5. SignalledSoFar'
  BY DEF IInv, TypeOK, SignalledSoFar, ShellHolds, JobsNumbered, NoGaps,
         Unwanted, MarkJob, Mark, MarkGuard, BackToPrompt, launchVars,
         signalVars
<1>6. FreshLaunches' /\ NoGaps' /\ WaitersOwnJobs' /\ CollectedMeansReaped' /\
      ClosedByWaiter' /\ NoDoubleClose'
  BY DEF IInv, FreshLaunches, NoGaps, WaitersOwnJobs, CollectedMeansReaped,
         ClosedByWaiter, NoDoubleClose, AllReaped, MarkJob, Mark, MarkGuard,
         BackToPrompt, launchVars, signalVars
<1> QED BY <1>1, <1>2, <1>3, <1>4, <1>5, <1>6 DEF IInv

\* The invariant is preserved by the return of Wait.
LEMMA WaitReturnsStep ==
  ASSUME IInv, WaitReturns
  PROVE  IInv'
<1> USE JobControlAssumption
    DEF JobControlAssumption, Launches, Procs, Jobs, Live, Finished
<1>1. TypeOK'
  BY SMTT(30) DEF IInv, TypeOK, ShellHolds, WaitReturns, BackToPrompt, launchVars,
         tableVars, signalVars
<1>2. ShellHolds'
  BY DEF IInv, TypeOK, ShellHolds, JobsNumbered, WaitReturns, BackToPrompt,
         launchVars, tableVars, signalVars
<1>3. SignalledSoFar'
  BY DEF IInv, TypeOK, SignalledSoFar, ShellHolds, JobsNumbered, NoGaps,
         Unwanted, WaitReturns, BackToPrompt, launchVars, tableVars, signalVars
<1>4. FreshLaunches' /\ NoGaps' /\ JobsNumbered' /\ WaitersOwnJobs' /\
      CollectedMeansReaped' /\ ClosedByWaiter' /\ DoneClosedIffFinished' /\
      NoDoubleClose'
  BY DEF IInv, FreshLaunches, NoGaps, JobsNumbered, WaitersOwnJobs,
         CollectedMeansReaped, ClosedByWaiter, DoneClosedIffFinished,
         NoDoubleClose, AllReaped, WaitReturns, BackToPrompt, launchVars,
         tableVars, signalVars
<1> QED BY <1>1, <1>2, <1>3, <1>4 DEF IInv

\* Every action preserves the invariant.
LEMMA NextIInv ==
  ASSUME IInv, [Next]_vars
  PROVE  IInv'
<1>1. CASE UNCHANGED vars
  BY <1>1
  DEF vars, IInv, TypeOK, FreshLaunches, NoGaps, JobsNumbered, WaitersOwnJobs,
      CollectedMeansReaped, ClosedByWaiter, DoneClosedIffFinished, NoDoubleClose,
      ShellHolds, SignalledSoFar, Unwanted, AllReaped
<1>2. CASE Next
  <2>1. CASE \E w \in Procs : StartBackground(w) \/ StartForeground(w)
    BY <2>1, StartBackgroundStep, StartForegroundStep
  <2>2. CASE \E n \in 0..(NProc - 1) : StartFails(n)
    BY <2>2, StartFailsStep
  <2>3. CASE \E l \in Launches, p \in Procs : ProcExit(l, p) \/ Reap(l, p)
    BY <2>3, ProcExitStep, ReapStep
  <2>4. CASE \E l \in Launches : WaitProcesses(l) \/ WaiterReturns(l)
    BY <2>4, WaitProcessesStep, WaiterReturnsStep
  <2>5. CASE \E sig \in Signals : SendSignal(sig)
    BY <2>5, SendSignalStep
  <2>6. CASE \E c \in {"fg", "bg", "stop"}, j \in Jobs : JobCommand(c, j)
    BY <2>6, JobCommandStep
  <2>7. CASE PrintJobs
    BY <2>7, <1>1 DEF PrintJobs
  <2>8. CASE ForegroundDone \/ ForegroundSignal
    BY <2>8, ForegroundDoneStep, ForegroundSignalStep
  <2>9. CASE SignalGroup \/ AllSignalled
    BY <2>9, SignalGroupStep, AllSignalledStep
  <2>10. CASE MarkJob \/ WaitReturns
    BY <2>10, MarkJobStep, WaitReturnsStep
  <2> QED
    BY <1>2, <2>1, <2>2, <2>3, <2>4, <2>5, <2>6, <2>7, <2>8, <2>9, <2>10 DEF Next
<1> QED BY <1>1, <1>2

\* IInv is an invariant of the specification.
THEOREM Invariance == Spec => []IInv
<1>1. Init => IInv
  BY InitIInv
<1>2. IInv /\ [Next]_vars => IInv'
  BY NextIInv
<1> QED BY <1>1, <1>2, PTL DEF Spec

-----------------------------------------------------------------------------
(* The invariants that the model checker examines on small instances. *)

\* Every variable of the model keeps its type; nextID \in 1..nextLaunch says
\* that no command line becomes two jobs.
THEOREM TypeCorrect == Spec => []TypeOK
<1>1. IInv => TypeOK
  BY DEF IInv
<1> QED BY <1>1, Invariance, PTL

\* fg's channel is closed exactly for the jobs that are done or failed.
THEOREM DoneChannel == Spec => []DoneClosedIffFinished
<1>1. IInv => DoneClosedIffFinished
  BY DEF IInv
<1> QED BY <1>1, Invariance, PTL

\* Complete never closes a closed channel, so it cannot panic.
THEOREM ChannelClosedOnce == Spec => []NoDoubleClose
<1>1. IInv => NoDoubleClose
  BY DEF IInv
<1> QED BY <1>1, Invariance, PTL

\* A job reported done or failed has no process left.
THEOREM NothingLeftBehind == Spec => []FinishedJobsHaveNoProcess
<1>1. IInv => FinishedJobsHaveNoProcess
  <2> SUFFICES ASSUME IInv, NEW j \in Jobs, status[j] \in Finished
               PROVE  AllReaped(jobLaunch[j])
    BY DEF FinishedJobsHaveNoProcess
  <2>1. closed[j] /\ jobLaunch[j] \in Launches
    BY DEF IInv, TypeOK, DoneClosedIffFinished, JobsNumbered, Jobs, Finished
  <2>2. waiter[jobLaunch[j]] = "returned"
    BY <2>1 DEF IInv, ClosedByWaiter
  <2> QED
    BY <2>1, <2>2 DEF IInv, CollectedMeansReaped
<1> QED BY <1>1, Invariance, PTL

-----------------------------------------------------------------------------
(* The action properties and the refinement rest on a list of the ways in  *)
(* which a step can change the status of a job.                            *)

\* A new job, under the next number.
Submitted ==
    /\ nextID \in Jobs /\ status[nextID] = "none"
    /\ \E s \in Live : status' = [status EXCEPT ![nextID] = s]

\* A job that stop, bg or fg has marked.
Marked ==
    /\ pc = "mark" /\ MarkGuard(job)
    /\ status' = [status EXCEPT ![job] = IF command = "stop" THEN "stopped"
                                                             ELSE "running"]

\* A job whose waiter has returned.
Completed ==
    \E j \in Jobs :
        /\ status[j] \in Live
        /\ \E s \in Finished : status' = [status EXCEPT ![j] = s]

\* A step leaves every status alone, or submits, marks or completes one job.
LEMMA StatusChanges ==
  ASSUME IInv, [Next]_vars
  PROVE  UNCHANGED status \/ Submitted \/ Marked \/ Completed
<1> USE JobControlAssumption DEF JobControlAssumption, Launches, Jobs
<1>1. nextID \in Jobs => status[nextID] = "none"
  BY DEF IInv, TypeOK, JobsNumbered
<1>2. ASSUME NEW w \in Procs, StartBackground(w) PROVE Submitted
  <2>1. nextID \in Jobs
    BY <1>2 DEF StartBackground, IInv, TypeOK
  <2> QED
    BY <1>1, <1>2, <2>1 DEF StartBackground, Add, Submitted, Live
<1>3. ASSUME ForegroundSignal PROVE UNCHANGED status \/ Submitted
  <2>1. nextID \in Jobs
    BY <1>3 DEF ForegroundSignal, IInv, TypeOK, ShellHolds
  <2> QED
    BY <1>1, <1>3, <2>1 DEF ForegroundSignal, Add, Submitted, Live, tableVars
<1>4. ASSUME MarkJob PROVE UNCHANGED status \/ Marked
  BY <1>4 DEF MarkJob, Mark, Marked
<1>5. ASSUME NEW l \in Launches, WaiterReturns(l) PROVE UNCHANGED status \/ Completed
  <2>1. CASE waiterJob[l] = 0
    BY <1>5, <2>1 DEF WaiterReturns, tableVars
  <2>2. CASE waiterJob[l] # 0
    <3>1. waiterJob[l] \in Jobs /\ waiterJob[l] < nextID /\ ~closed[waiterJob[l]]
      BY <1>5, <2>2 DEF WaiterReturns, IInv, TypeOK, WaitersOwnJobs, NoDoubleClose
    <3>2. status[waiterJob[l]] \in Live
      BY <3>1 DEF IInv, TypeOK, JobsNumbered, DoneClosedIffFinished
    <3> QED
      BY <1>5, <2>2, <3>1, <3>2 DEF WaiterReturns, Complete, Completed, Finished
  <2> QED BY <2>1, <2>2
<1>6. CASE \/ UNCHANGED vars
           \/ \E w \in Procs : StartForeground(w)
           \/ \E n \in 0..(NProc - 1) : StartFails(n)
           \/ \E l \in Launches, p \in Procs : ProcExit(l, p) \/ Reap(l, p)
           \/ \E l \in Launches : WaitProcesses(l)
           \/ \E sig \in Signals : SendSignal(sig)
           \/ \E c \in {"fg", "bg", "stop"}, j \in Jobs : JobCommand(c, j)
           \/ PrintJobs \/ ForegroundDone \/ SignalGroup \/ AllSignalled \/ WaitReturns
  BY <1>6
  DEF vars, StartForeground, StartFails, ProcExit, Reap, WaitProcesses, SendSignal,
      JobCommand, PrintJobs, ForegroundDone, SignalGroup, AllSignalled, WaitReturns,
      tableVars
<1> QED BY <1>2, <1>3, <1>4, <1>5, <1>6 DEF Next

\* A finished job keeps its status, whatever stop, bg and fg do from an old
\* snapshot of it.
THEOREM FinishedStays == Spec => FinishedIsFinal
<1>1. IInv /\ [Next]_vars =>
        [\A j \in Jobs : status[j] \in Finished => status'[j] = status[j]]_vars
  <2> SUFFICES ASSUME IInv, [Next]_vars, NEW j \in Jobs, status[j] \in Finished
               PROVE  status'[j] = status[j]
    OBVIOUS
  <2>1. CASE UNCHANGED status
    BY <2>1
  <2>2. CASE Submitted
    BY <2>2 DEF Submitted, IInv, TypeOK, Finished
  <2>3. CASE Marked
    BY <2>3 DEF Marked, MarkGuard, IInv, TypeOK, Finished
  <2>4. CASE Completed
    BY <2>4 DEF Completed, IInv, TypeOK, Live, Finished
  <2> QED BY <2>1, <2>2, <2>3, <2>4, StatusChanges
<1> QED BY <1>1, Invariance, PTL DEF Spec, FinishedIsFinal

\* When a job is marked, every process group has had its signal.
LEMMA MarkedProcesses ==
  ASSUME IInv, Marked
  PROVE  \A p \in Procs : proc[jobLaunch[job]][p] # Unwanted
BY DEF Marked, IInv, SignalledSoFar

\* A job that goes from running to stopped has no running process.
THEOREM StopIsSound == Spec => StopStopsEveryProcess
<1>1. IInv /\ [Next]_vars =>
        [\A j \in Jobs : status[j] = "running" /\ status'[j] = "stopped"
           => \A p \in Procs : proc[jobLaunch[j]][p] # "running"]_vars
  <2> SUFFICES ASSUME IInv, [Next]_vars, NEW j \in Jobs,
                      status[j] = "running", status'[j] = "stopped"
               PROVE  \A p \in Procs : proc[jobLaunch[j]][p] # "running"
    OBVIOUS
  <2>1. CASE UNCHANGED status
    BY <2>1
  <2>2. CASE Submitted
    BY <2>2 DEF Submitted, IInv, TypeOK
  <2>3. CASE Marked
    <3>1. j = job /\ command = "stop"
      BY <2>3 DEF Marked, MarkGuard, IInv, TypeOK
    <3> QED
      BY <2>3, <3>1, MarkedProcesses DEF Unwanted
  <2>4. CASE Completed
    BY <2>4 DEF Completed, IInv, TypeOK, Finished
  <2> QED BY <2>1, <2>2, <2>3, <2>4, StatusChanges
<1> QED BY <1>1, Invariance, PTL DEF Spec, StopStopsEveryProcess

\* A job that goes from stopped to running has no suspended process.
THEOREM ResumeIsSound == Spec => ResumeResumesEveryProcess
<1>1. IInv /\ [Next]_vars =>
        [\A j \in Jobs : status[j] = "stopped" /\ status'[j] = "running"
           => \A p \in Procs : proc[jobLaunch[j]][p] # "stopped"]_vars
  <2> SUFFICES ASSUME IInv, [Next]_vars, NEW j \in Jobs,
                      status[j] = "stopped", status'[j] = "running"
               PROVE  \A p \in Procs : proc[jobLaunch[j]][p] # "stopped"
    OBVIOUS
  <2>1. CASE UNCHANGED status
    BY <2>1
  <2>2. CASE Submitted
    BY <2>2 DEF Submitted, IInv, TypeOK
  <2>3. CASE Marked
    <3>1. j = job /\ command # "stop"
      BY <2>3 DEF Marked, MarkGuard, IInv, TypeOK
    <3> QED
      BY <2>3, <3>1, MarkedProcesses DEF Unwanted
  <2>4. CASE Completed
    BY <2>4 DEF Completed, IInv, TypeOK, Finished
  <2> QED BY <2>1, <2>2, <2>3, <2>4, StatusChanges
<1> QED BY <1>1, Invariance, PTL DEF Spec, ResumeResumesEveryProcess

\* fg's wait ends with the job finished: no other step leaves the wait.
THEOREM FgIsSound == Spec => FgReportsFinishedJob
<1>1. IInv /\ [Next]_vars =>
        [pc = "wait" /\ pc' = "idle" => status[job] \in Finished]_vars
  <2> SUFFICES ASSUME IInv, [Next]_vars, pc = "wait", pc' = "idle"
               PROVE  status[job] \in Finished
    OBVIOUS
  <2>1. closed[job] => status[job] \in Finished
    BY DEF IInv, TypeOK, DoneClosedIffFinished
  <2>2. WaitReturns
    BY DEF Next, vars, StartBackground, StartForeground, StartFails, ProcExit, Reap,
           WaitProcesses, WaiterReturns, SendSignal, JobCommand, PrintJobs,
           ForegroundDone, ForegroundSignal, SignalGroup, AllSignalled, MarkJob,
           shellVars
  <2> QED
    BY <2>1, <2>2 DEF WaitReturns
<1> QED BY <1>1, Invariance, PTL DEF Spec, FgReportsFinishedJob

\* The job table implements JobLifecycle: a submitted, marked or completed job
\* is a Submit, a Suspend or Resume, or a Finish, and all else is a stutter.
THEOREM Refinement == Spec => ImplementsLifecycle
<1> USE JobControlAssumption DEF JobControlAssumption, Jobs, Lifecycle!Jobs
<1>1. Init => Lifecycle!Init
  BY DEF Init, Lifecycle!Init
<1>2. IInv /\ [Next]_vars => [Lifecycle!Next]_status
  <2> SUFFICES ASSUME IInv, [Next]_vars, ~UNCHANGED status
               PROVE  Lifecycle!Next
    OBVIOUS
  <2>1. CASE Submitted
    <3>1. \A k \in Jobs : k < nextID => status[k] # "none"
      BY DEF IInv, TypeOK, JobsNumbered
    <3>2. Lifecycle!Submit(nextID)
      BY <2>1, <3>1 DEF Submitted, Lifecycle!Submit, Live, Lifecycle!Live
    <3> QED
      BY <2>1, <3>2 DEF Submitted, Lifecycle!Next
  <2>2. CASE Marked
    <3>1. job \in Jobs
      BY DEF IInv, TypeOK
    <3>2. Lifecycle!Suspend(job) \/ Lifecycle!Resume(job)
      BY <2>2, <3>1 DEF Marked, MarkGuard, Lifecycle!Suspend, Lifecycle!Resume
    <3> QED
      BY <3>1, <3>2 DEF Lifecycle!Next
  <2>3. CASE Completed
    BY <2>3
    DEF Completed, Lifecycle!Next, Lifecycle!Finish, Live, Lifecycle!Live, Finished,
        Lifecycle!Finished
  <2> QED BY <2>1, <2>2, <2>3, StatusChanges
<1> QED BY <1>1, <1>2, Invariance, PTL DEF Spec, ImplementsLifecycle, Lifecycle!Spec
=============================================================================
