---------------------------- MODULE JobLifecycle ----------------------------
(***************************************************************************)
(* What gosh's job table promises the user of jobs, fg, bg and stop, with  *)
(* no processes, goroutines or signals: jobs get consecutive numbers, a    *)
(* job is suspended and resumed while it lives, and once it is done or     *)
(* failed it stays what it is.  JobControl is shown to implement this.     *)
(***************************************************************************)
EXTENDS Naturals

CONSTANT MaxJobs    \* jobs in one behaviour (bound)

VARIABLE status

Jobs == 1..MaxJobs
Live == {"running", "stopped"}
Finished == {"done", "failed"}
Status == {"none"} \cup Live \cup Finished

Init == status = [j \in Jobs |-> "none"]

\* A new job takes the lowest number never used.  A background command begins
\* as a running job; a foreground command becomes a job by being suspended.
Submit(j) ==
    /\ status[j] = "none"
    /\ \A k \in Jobs : k < j => status[k] # "none"
    /\ \E s \in Live : status' = [status EXCEPT ![j] = s]

Suspend(j) ==
    /\ status[j] = "running"
    /\ status' = [status EXCEPT ![j] = "stopped"]

Resume(j) ==
    /\ status[j] = "stopped"
    /\ status' = [status EXCEPT ![j] = "running"]

Finish(j) ==
    /\ status[j] \in Live
    /\ \E s \in Finished : status' = [status EXCEPT ![j] = s]

Next == \E j \in Jobs : Submit(j) \/ Suspend(j) \/ Resume(j) \/ Finish(j)

Spec == Init /\ [][Next]_status
=============================================================================
