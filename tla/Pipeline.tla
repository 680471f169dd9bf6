------------------------------ MODULE Pipeline ------------------------------
(***************************************************************************)
(* RunLine and waitProcesses of internal/executor/executor.go: the files   *)
(* of the redirects, the commands of a pipeline and the in-process pipes   *)
(* between them.                                                           *)
(*                                                                         *)
(* Link l joins command l to command l + 1.  What command l writes goes    *)
(* through a kernel pipe to a goroutine of exec.Cmd (outCopy), from there  *)
(* through an io.Pipe, which holds nothing, to a second goroutine          *)
(* (inCopy), and through a second kernel pipe to command l + 1.  Output is *)
(* counted in chunks: no part of a link reorders them.                     *)
(***************************************************************************)
EXTENDS Naturals

CONSTANTS
    Shapes,    \* the kinds of line: which redirects it has, whether it ends in "&"
    N,         \* commands of the line
    MaxChunks, \* chunks that a command writes at most (bound)
    PipeSize   \* chunks that a kernel pipe holds

ASSUME PipelineAssumption ==
    /\ Shapes \subseteq [input : BOOLEAN, output : BOOLEAN, background : BOOLEAN]
    /\ N \in Nat \ {0}
    /\ MaxChunks \in Nat
    /\ PipeSize \in Nat \ {0}

VARIABLES
    shape,   \* the kind of this line
    line,    \* progress of RunLine
    started, \* commands started
    file,    \* the files of the redirects
    proc,    \* proc[i]: the process of command i and the call it is in
    stopped, \* the processes were stopped by a signal and not resumed
    written, \* history: written[l], chunks command l has written to link l
    read,    \* history: read[l], chunks command l + 1 has read from link l
    ended,   \* history: ended[l], command l + 1 has seen the end of its input
    out,     \* out[l]: chunks in the kernel pipe that command l writes
    outCopy, \* outCopy[l]: the goroutine that empties it
    inCopy,  \* inCopy[l]: the goroutine that feeds command l + 1
    inp,     \* inp[l]: chunks in the kernel pipe that command l + 1 reads
    wClosed, \* wClosed[l]: the PipeWriter of link l was closed
    rClosed, \* rClosed[l]: the PipeReader of link l was closed
    wait,    \* wait[i]: the goroutine of waitProcesses for command i
    reaper   \* the goroutine that calls waitProcesses

lineVars == <<shape, line, started, file>>
linkVars == <<written, read, ended, out, outCopy, inCopy, inp>>
waitVars == <<wClosed, rClosed, wait, reaper>>
vars == <<lineVars, proc, stopped, linkVars, waitVars>>

Commands == 1..N
Links    == 1..(N - 1)
Live     == {"running", "writing", "reading"}

TypeOK ==
    /\ shape \in Shapes
    /\ line \in {"input", "output", "start", "waiting", "returned"}
    /\ started \in 0..N
    /\ file \in [{"input", "output"} -> {"none", "open", "closed"}]
    /\ proc \in [Commands -> Live \cup {"none", "exited"}]
    /\ stopped \in BOOLEAN
    /\ written \in [Links -> Nat]
    /\ read \in [Links -> Nat]
    /\ ended \in [Links -> BOOLEAN]
    /\ out \in [Links -> 0..PipeSize]
    /\ outCopy \in [Links -> {"none", "reading", "writing", "done"}]
    /\ inCopy \in [Links -> {"none", "reading", "writing", "done"}]
    /\ inp \in [Links -> 0..PipeSize]
    /\ wClosed \in [Links -> BOOLEAN]
    /\ rClosed \in [Links -> BOOLEAN]
    /\ wait \in [Commands -> {"none", "process", "writer", "reader", "reported"}]
    /\ reaper \in {"none", "waiting", "returned", "completed"}

Init ==
    /\ shape \in Shapes
    /\ line = "input"
    /\ started = 0
    /\ file = [f \in {"input", "output"} |-> "none"]
    /\ proc = [i \in Commands |-> "none"]
    /\ stopped = FALSE
    /\ written = [l \in Links |-> 0]
    /\ read = [l \in Links |-> 0]
    /\ ended = [l \in Links |-> FALSE]
    /\ out = [l \in Links |-> 0]
    /\ outCopy = [l \in Links |-> "none"]
    /\ inCopy = [l \in Links |-> "none"]
    /\ inp = [l \in Links |-> 0]
    /\ wClosed = [l \in Links |-> FALSE]
    /\ rClosed = [l \in Links |-> FALSE]
    /\ wait = [i \in Commands |-> "none"]
    /\ reaper = "none"

-----------------------------------------------------------------------------
(* RunLine *)

CloseFiles == file' = [f \in DOMAIN file |-> IF file[f] = "open" THEN "closed" ELSE file[f]]

\* Opening the file of a redirect, which the line may not have.
Open(f, phase, following) ==
    /\ line = phase
    /\ line' = following
    /\ file' = IF shape[f] THEN [file EXCEPT ![f] = "open"] ELSE file
    /\ UNCHANGED <<shape, started, proc, stopped, linkVars, waitVars>>

\* RunLine returns at once: an input file stays open when the output fails.
OpenFails(f, phase) ==
    /\ line = phase
    /\ shape[f]
    /\ line' = "returned"
    /\ UNCHANGED <<shape, started, file, proc, stopped, linkVars, waitVars>>

OpenInput   == Open("input", "input", "output")
InputFails  == OpenFails("input", "input")
OpenOutput  == Open("output", "output", "start")
OutputFails == OpenFails("output", "output")

\* Start also starts the goroutines that copy the input and output of the command.
StartProcess ==
    /\ line = "start"
    /\ started < N
    /\ started' = started + 1
    /\ proc' = [proc EXCEPT ![started + 1] = "running"]
    /\ outCopy' = [l \in Links |-> IF l = started + 1 THEN "reading" ELSE outCopy[l]]
    /\ inCopy' = [l \in Links |-> IF l = started THEN "reading" ELSE inCopy[l]]
    /\ UNCHANGED <<shape, line, file, stopped, written, read, ended, out, inp, waitVars>>

\* The commands started before are left alone.
StartFails ==
    /\ line = "start"
    /\ started < N
    /\ line' = "returned"
    /\ CloseFiles
    /\ UNCHANGED <<shape, started, proc, stopped, linkVars, waitVars>>

\* waitProcesses starts one goroutine per command.  RunLine returns now when the
\* line ends in "&", and waits in waitForeground otherwise.
AllStarted ==
    /\ line = "start"
    /\ started = N
    /\ line' = IF shape.background THEN "returned" ELSE "waiting"
    /\ wait' = [i \in Commands |-> "process"]
    /\ reaper' = "waiting"
    /\ UNCHANGED <<shape, started, file, proc, stopped, linkVars, wClosed, rClosed>>

\* The files stay open.
ForegroundEndsFault ==
    /\ line = "waiting"
    /\ reaper = "returned"
    /\ line' = "returned"
    /\ UNCHANGED <<shape, started, file, proc, stopped, linkVars, waitVars>>

\* waitForeground receives the result; the deferred closeFiles runs.
ForegroundEnds ==
    /\ line = "waiting"
    /\ reaper = "returned"
    /\ line' = "returned"
    /\ CloseFiles
    /\ UNCHANGED <<shape, started, proc, stopped, linkVars, waitVars>>

\* The goroutine of a background line closes the files and completes the job.
BackgroundEnds ==
    /\ shape.background
    /\ reaper = "returned"
    /\ reaper' = "completed"
    /\ CloseFiles
    /\ UNCHANGED <<shape, line, started, proc, stopped, linkVars, wClosed, rClosed, wait>>

\* SIGTSTP is forwarded: waitForeground gives the line up and makes it a job.
StopForeground ==
    /\ line = "waiting"
    /\ line' = "returned"
    /\ CloseFiles
    /\ stopped' = TRUE
    /\ UNCHANGED <<shape, started, proc, linkVars, waitVars>>

\* The built-in stop, and fg or bg, on the job of the line: one that ends in "&", or
\* one that was suspended in the foreground.
StopJob ==
    /\ line = "returned"
    /\ reaper = "waiting"
    /\ stopped' = TRUE
    /\ UNCHANGED <<lineVars, proc, linkVars, waitVars>>

ResumeJob ==
    /\ stopped
    /\ stopped' = FALSE
    /\ UNCHANGED <<lineVars, proc, linkVars, waitVars>>

-----------------------------------------------------------------------------
(* The commands.  Command 1 reads and command N writes no link. *)

Runs(i, call) == proc[i] = call /\ ~stopped

Become(i, call) == proc' = [proc EXCEPT ![i] = call]

\* A command decides to write or to read more, as often as it likes.
Call(i) ==
    /\ Runs(i, "running")
    /\ \/ i < N /\ written[i] < MaxChunks /\ Become(i, "writing")
       \/ i > 1 /\ ~ended[i - 1] /\ Become(i, "reading")
    /\ UNCHANGED <<lineVars, stopped, linkVars, waitVars>>

\* write(2) waits for room, or raises SIGPIPE when nobody will read.
Write(i) ==
    /\ i < N
    /\ Runs(i, "writing")
    /\ IF outCopy[i] = "done" THEN Become(i, "exited") /\ UNCHANGED <<out, written>>
       ELSE /\ out[i] < PipeSize
            /\ out' = [out EXCEPT ![i] = @ + 1]
            /\ written' = [written EXCEPT ![i] = @ + 1]
            /\ Become(i, "running")
    /\ UNCHANGED <<lineVars, stopped, read, ended, outCopy, inCopy, inp, waitVars>>

\* read(2) waits for data, or returns the end when nobody will write.
Read(i) ==
    /\ i > 1
    /\ Runs(i, "reading")
    /\ LET l == i - 1 IN
       IF inp[l] > 0 THEN /\ inp' = [inp EXCEPT ![l] = @ - 1]
                          /\ read' = [read EXCEPT ![l] = @ + 1]
                          /\ UNCHANGED ended
       ELSE /\ inCopy[l] = "done"
            /\ ended' = [ended EXCEPT ![l] = TRUE]
            /\ UNCHANGED <<inp, read>>
    /\ Become(i, "running")
    /\ UNCHANGED <<lineVars, stopped, written, out, outCopy, inCopy, waitVars>>

Exit(i) ==
    /\ Runs(i, "running")
    /\ Become(i, "exited")
    /\ UNCHANGED <<lineVars, stopped, linkVars, waitVars>>

\* A signal ends the command, in a blocked call or stopped.
Killed(i) ==
    /\ proc[i] \in Live
    /\ Become(i, "exited")
    /\ UNCHANGED <<lineVars, stopped, linkVars, waitVars>>

-----------------------------------------------------------------------------
(* The goroutines of exec.Cmd. *)

TakeOutput(l) ==
    /\ outCopy[l] = "reading"
    /\ \/ /\ out[l] > 0
          /\ out' = [out EXCEPT ![l] = @ - 1]
          /\ outCopy' = [outCopy EXCEPT ![l] = "writing"]
       \/ /\ out[l] = 0
          /\ proc[l] = "exited"
          /\ outCopy' = [outCopy EXCEPT ![l] = "done"]
          /\ UNCHANGED out
    /\ UNCHANGED <<lineVars, proc, stopped, written, read, ended, inCopy, inp, waitVars>>

\* A Write to an io.Pipe ends with a Read of its other end, or with an error when
\* an end is closed.
HandOver(l) ==
    /\ outCopy[l] = "writing"
    /\ \/ /\ rClosed[l] \/ wClosed[l]
          /\ outCopy' = [outCopy EXCEPT ![l] = "done"]
          /\ UNCHANGED inCopy
       \/ /\ inCopy[l] = "reading"
          /\ outCopy' = [outCopy EXCEPT ![l] = "reading"]
          /\ inCopy' = [inCopy EXCEPT ![l] = "writing"]
    /\ UNCHANGED <<lineVars, proc, stopped, written, read, ended, out, inp, waitVars>>

InputEnds(l) ==
    /\ inCopy[l] = "reading"
    /\ rClosed[l] \/ wClosed[l]
    /\ inCopy' = [inCopy EXCEPT ![l] = "done"]
    /\ UNCHANGED <<lineVars, proc, stopped, written, read, ended, out, outCopy, inp, waitVars>>

\* The error of writing to a command that has exited is ignored.
FeedInput(l) ==
    /\ inCopy[l] = "writing"
    /\ IF proc[l + 1] = "exited"
         THEN inCopy' = [inCopy EXCEPT ![l] = "done"] /\ UNCHANGED inp
         ELSE /\ inp[l] < PipeSize
              /\ inp' = [inp EXCEPT ![l] = @ + 1]
              /\ inCopy' = [inCopy EXCEPT ![l] = "reading"]
    /\ UNCHANGED <<lineVars, proc, stopped, written, read, ended, out, outCopy, waitVars>>

-----------------------------------------------------------------------------
(* waitProcesses *)

\* Only the process is waited for, as Process.Wait does.
CommandWaitedFault(i) ==
    /\ wait[i] = "process"
    /\ proc[i] = "exited"
    /\ wait' = [wait EXCEPT ![i] = "writer"]
    /\ UNCHANGED <<lineVars, proc, stopped, linkVars, wClosed, rClosed, reaper>>

\* Cmd.Wait returns once the process and the copying goroutines have ended.
CommandWaited(i) ==
    /\ wait[i] = "process"
    /\ proc[i] = "exited"
    /\ i \in Links => outCopy[i] = "done"
    /\ i - 1 \in Links => inCopy[i - 1] = "done"
    /\ wait' = [wait EXCEPT ![i] = "writer"]
    /\ UNCHANGED <<lineVars, proc, stopped, linkVars, wClosed, rClosed, reaper>>

CloseWriter(i) ==
    /\ wait[i] = "writer"
    /\ wait' = [wait EXCEPT ![i] = "reader"]
    /\ wClosed' = [l \in Links |-> wClosed[l] \/ l = i]
    /\ UNCHANGED <<lineVars, proc, stopped, linkVars, rClosed, reaper>>

\* Only the writers are closed.
CloseReaderFault(i) ==
    /\ wait[i] = "reader"
    /\ wait' = [wait EXCEPT ![i] = "reported"]
    /\ UNCHANGED <<lineVars, proc, stopped, linkVars, wClosed, rClosed, reaper>>

CloseReader(i) ==
    /\ wait[i] = "reader"
    /\ wait' = [wait EXCEPT ![i] = "reported"]
    /\ rClosed' = [l \in Links |-> rClosed[l] \/ l = i - 1]
    /\ UNCHANGED <<lineVars, proc, stopped, linkVars, wClosed, reaper>>

AllReported ==
    /\ reaper = "waiting"
    /\ \A i \in Commands : wait[i] = "reported"
    /\ reaper' = "returned"
    /\ UNCHANGED <<lineVars, proc, stopped, linkVars, wClosed, rClosed, wait>>

-----------------------------------------------------------------------------
RunLine ==
    \/ OpenInput \/ InputFails \/ OpenOutput \/ OutputFails
    \/ StartProcess \/ StartFails \/ AllStarted \/ ForegroundEnds \/ BackgroundEnds

Copy(l) == TakeOutput(l) \/ HandOver(l) \/ InputEnds(l) \/ FeedInput(l)

Wait(i) == CommandWaited(i) \/ CloseWriter(i) \/ CloseReader(i)

Next ==
    \/ RunLine \/ AllReported
    \/ StopForeground \/ StopJob \/ ResumeJob
    \/ \E i \in Commands : Call(i) \/ Write(i) \/ Read(i) \/ Exit(i) \/ Killed(i) \/ Wait(i)
    \/ \E l \in Links : Copy(l)

Spec == Init /\ [][Next]_vars

\* Goroutines that can run do run.  A command that is not blocked goes on, and as it
\* writes no more than MaxChunks it exits in the end; nobody need kill or resume it.
Fairness ==
    /\ WF_vars(RunLine)
    /\ WF_vars(AllReported)
    /\ \A i \in Commands : WF_vars(Call(i) \/ Write(i) \/ Read(i) \/ Exit(i))
    /\ \A i \in Commands : WF_vars(Wait(i))
    /\ \A l \in Links : WF_vars(TakeOutput(l) \/ HandOver(l)) /\ WF_vars(InputEnds(l) \/ FeedInput(l))

FairSpec == Spec /\ Fairness

-----------------------------------------------------------------------------
(* Properties. *)

\* Every chunk is in one place: while the command that reads a link lives, what was
\* written to the link was read from it or is on its way.  Nothing stops carrying it
\* before the end: no pipe is closed and no goroutine gives up early.
InHand(copy) == IF copy = "writing" THEN 1 ELSE 0

KeepsAll(l) ==
    proc[l + 1] # "exited" =>
        /\ written[l] = read[l] + inp[l] + InHand(inCopy[l]) + InHand(outCopy[l]) + out[l]
        /\ outCopy[l] = "done" => proc[l] = "exited" /\ out[l] = 0
        /\ inCopy[l] = "done" => wClosed[l]

NothingIsLost == \A l \in Links : KeepsAll(l)

\* A command sees the end of its input only after all that the previous command
\* wrote: waitProcesses closes no pipe before what is in it was passed on.
EndMeansAll ==
    \A l \in Links : ended[l] => read[l] = written[l] /\ proc[l] = "exited"

\* When waitProcesses has returned no command and no copying goroutine is left.  When
\* RunLine, and the goroutine of a background line, have ended no file is left open,
\* but for the input of a line whose output could not be opened.
NothingIsLeft ==
    /\ reaper \in {"returned", "completed"} =>
         /\ \A i \in Commands : proc[i] = "exited"
         /\ \A l \in Links : outCopy[l] = "done" /\ inCopy[l] = "done"
    /\ line = "returned" /\ (shape.background => reaper \in {"none", "completed"}) =>
         /\ file["output"] # "open"
         /\ file["input"] = "open" => shape.output /\ file["output"] = "none"

\* What is waited for ends, unless it is stopped.
PipelineEnds == reaper = "waiting" ~> reaper # "waiting" \/ stopped
=============================================================================
