--------------------------- MODULE PipelineProofs ---------------------------
(***************************************************************************)
(* Machine-checked proofs about Pipeline, for every number of commands,    *)
(* every amount of output and every size of the kernel's pipes.            *)
(***************************************************************************)
EXTENDS Pipeline, TLAPS

(***************************************************************************)
(* The inductive invariant.  That a command which sees the end of its      *)
(* input has read everything (EndMeansAll) rests on no chunk being lost,   *)
(* which rests on the order in which waitProcesses closes the pipes.       *)
(***************************************************************************)

\* The commands, and with them the copying goroutines, exist once they are started.
StartedInOrder ==
    /\ \A i \in Commands : proc[i] = "none" <=> i > started
    /\ \A l \in Links : outCopy[l] = "none" <=> l > started
    /\ \A l \in Links : inCopy[l] = "none" <=> l + 1 > started

\* Nobody waits before every command was started.
WaitsLast ==
    /\ line \in {"input", "output", "start"} => reaper = "none"
    /\ reaper = "none" => \A i \in Commands : wait[i] = "none"

\* A goroutine of waitProcesses that is past Wait has seen the command and its
\* copying goroutines end, and closes the pipes only then.
WaitedFor ==
    \A i \in Commands : wait[i] \in {"writer", "reader", "reported"} =>
        /\ proc[i] = "exited"
        /\ i \in Links => outCopy[i] = "done"
        /\ i - 1 \in Links => inCopy[i - 1] = "done"

ClosedAfterWait ==
    \A l \in Links :
        /\ wClosed[l] => wait[l] \in {"reader", "reported"}
        /\ rClosed[l] => wait[l + 1] = "reported"

\* A command does not read on after the end of its input.
NoReadAfterEnd == \A l \in Links : proc[l + 1] = "reading" => ~ended[l]

\* waitProcesses returns after all its goroutines have reported.
ReturnedLast ==
    reaper \in {"returned", "completed"} => \A i \in Commands : wait[i] = "reported"

\* The second part of NothingIsLeft, and what it needs of the order of opening.
FilesClosed ==
    /\ line = "input" => file["input"] = "none"
    /\ line \in {"input", "output"} => file["output"] = "none"
    /\ line = "returned" /\ (shape.background => reaper \in {"none", "completed"}) =>
         /\ file["output"] # "open"
         /\ file["input"] = "open" => shape.output /\ file["output"] = "none"

IInv ==
    /\ TypeOK
    /\ StartedInOrder
    /\ WaitsLast
    /\ WaitedFor
    /\ ClosedAfterWait
    /\ NoReadAfterEnd
    /\ ReturnedLast
    /\ FilesClosed
    /\ NothingIsLost
    /\ EndMeansAll

-----------------------------------------------------------------------------
(* The invariant holds at the start, and every action preserves it. *)

\* Where the commands at the two ends of a link are.
LEMMA Indices ==
  /\ \A l \in Links : l \in Commands /\ l + 1 \in Commands /\ (l + 1) - 1 = l /\ l # l + 1
  /\ \A i \in Commands : (i < N <=> i \in Links) /\ (i > 1 <=> i - 1 \in Links)
  /\ \A i \in Commands : i \in Nat /\ (i - 1) + 1 = i /\ i - 1 # i
  BY PipelineAssumption DEF PipelineAssumption, Commands, Links

\* A line of which nothing was opened or started.
LEMMA InitIInv == Init => IInv
<1> SUFFICES ASSUME Init PROVE IInv
  OBVIOUS
<1>1. TypeOK
  <2>1. /\ shape \in Shapes /\ started \in 0..N
        /\ file \in [{"input", "output"} -> {"none", "open", "closed"}]
        /\ proc \in [Commands -> Live \cup {"none", "exited"}]
    BY PipelineAssumption DEF PipelineAssumption, Init
  <2>2. /\ out \in [Links -> 0..PipeSize] /\ inp \in [Links -> 0..PipeSize]
        /\ written \in [Links -> Nat] /\ read \in [Links -> Nat]
    BY PipelineAssumption DEF PipelineAssumption, Init
  <2> QED
    BY <2>1, <2>2 DEF Init, TypeOK
<1>2. StartedInOrder
  BY PipelineAssumption DEF PipelineAssumption, Init, StartedInOrder, Commands, Links
<1>3. WaitsLast /\ WaitedFor /\ ClosedAfterWait /\ NoReadAfterEnd /\ ReturnedLast
  BY Indices
  DEF Init, WaitsLast, WaitedFor, ClosedAfterWait, NoReadAfterEnd, ReturnedLast
<1>4. FilesClosed
  BY DEF Init, FilesClosed
<1>5. NothingIsLost /\ EndMeansAll
  BY Indices DEF Init, NothingIsLost, KeepsAll, InHand, EndMeansAll
<1> QED
  BY <1>1, <1>2, <1>3, <1>4, <1>5 DEF IInv

\* The invariant is preserved when the input file is opened, or there is none.
LEMMA OpenInputStep ==
  ASSUME IInv, OpenInput
  PROVE  IInv'
<1>1. UNCHANGED <<shape, started, proc, stopped, linkVars, waitVars>>
  BY DEF OpenInput, Open, lineVars, linkVars, waitVars
<1>2. TypeOK'
  BY PipelineAssumption
  DEF PipelineAssumption, IInv, TypeOK, OpenInput, Open, Commands, Links, Live,
      linkVars, waitVars
<1>3. WaitsLast'
  BY <1>1
  DEF IInv, WaitsLast, OpenInput, Open, linkVars, waitVars
<1>4. FilesClosed'
  BY <1>1
  DEF IInv, FilesClosed, OpenInput, Open, linkVars, waitVars
<1>5. /\ StartedInOrder'
      /\ WaitedFor'
      /\ ClosedAfterWait'
      /\ NoReadAfterEnd'
      /\ ReturnedLast'
      /\ NothingIsLost'
      /\ EndMeansAll'
  BY <1>1
  DEF IInv, StartedInOrder, WaitedFor, ClosedAfterWait, NoReadAfterEnd,
      ReturnedLast, NothingIsLost, EndMeansAll, KeepsAll, InHand, linkVars, waitVars
<1> QED
  BY <1>2, <1>3, <1>4, <1>5 DEF IInv

\* The invariant is preserved when the input file cannot be opened.
LEMMA InputFailsStep ==
  ASSUME IInv, InputFails
  PROVE  IInv'
<1>1. UNCHANGED <<shape, started, file, proc, stopped, linkVars, waitVars>>
  BY DEF InputFails, OpenFails, lineVars, linkVars, waitVars
<1>2. TypeOK'
  BY PipelineAssumption
  DEF PipelineAssumption, IInv, TypeOK, InputFails, OpenFails, Commands, Links,
      Live, linkVars, waitVars
<1>3. WaitsLast'
  BY <1>1
  DEF IInv, WaitsLast, InputFails, OpenFails, linkVars, waitVars
<1>4. FilesClosed'
  BY <1>1
  DEF IInv, FilesClosed, InputFails, OpenFails, linkVars, waitVars
<1>5. /\ StartedInOrder'
      /\ WaitedFor'
      /\ ClosedAfterWait'
      /\ NoReadAfterEnd'
      /\ ReturnedLast'
      /\ NothingIsLost'
      /\ EndMeansAll'
  BY <1>1
  DEF IInv, StartedInOrder, WaitedFor, ClosedAfterWait, NoReadAfterEnd,
      ReturnedLast, NothingIsLost, EndMeansAll, KeepsAll, InHand, linkVars, waitVars
<1> QED
  BY <1>2, <1>3, <1>4, <1>5 DEF IInv

\* The invariant is preserved when the output file is opened, or there is none.
LEMMA OpenOutputStep ==
  ASSUME IInv, OpenOutput
  PROVE  IInv'
<1>1. UNCHANGED <<shape, started, proc, stopped, linkVars, waitVars>>
  BY DEF OpenOutput, Open, lineVars, linkVars, waitVars
<1>2. TypeOK'
  BY PipelineAssumption
  DEF PipelineAssumption, IInv, TypeOK, OpenOutput, Open, Commands, Links, Live,
      linkVars, waitVars
<1>3. WaitsLast'
  BY <1>1
  DEF IInv, WaitsLast, OpenOutput, Open, linkVars, waitVars
<1>4. FilesClosed'
  BY <1>1
  DEF IInv, FilesClosed, OpenOutput, Open, linkVars, waitVars
<1>5. /\ StartedInOrder'
      /\ WaitedFor'
      /\ ClosedAfterWait'
      /\ NoReadAfterEnd'
      /\ ReturnedLast'
      /\ NothingIsLost'
      /\ EndMeansAll'
  BY <1>1
  DEF IInv, StartedInOrder, WaitedFor, ClosedAfterWait, NoReadAfterEnd,
      ReturnedLast, NothingIsLost, EndMeansAll, KeepsAll, InHand, linkVars, waitVars
<1> QED
  BY <1>2, <1>3, <1>4, <1>5 DEF IInv

\* The invariant is preserved when the output file cannot be opened.
LEMMA OutputFailsStep ==
  ASSUME IInv, OutputFails
  PROVE  IInv'
<1>1. UNCHANGED <<shape, started, file, proc, stopped, linkVars, waitVars>>
  BY DEF OutputFails, OpenFails, lineVars, linkVars, waitVars
<1>2. TypeOK'
  BY PipelineAssumption
  DEF PipelineAssumption, IInv, TypeOK, OutputFails, OpenFails, Commands, Links,
      Live, linkVars, waitVars
<1>3. WaitsLast'
  BY <1>1
  DEF IInv, WaitsLast, OutputFails, OpenFails, linkVars, waitVars
<1>4. FilesClosed'
  BY <1>1
  DEF IInv, FilesClosed, OutputFails, OpenFails, linkVars, waitVars
<1>5. /\ StartedInOrder'
      /\ WaitedFor'
      /\ ClosedAfterWait'
      /\ NoReadAfterEnd'
      /\ ReturnedLast'
      /\ NothingIsLost'
      /\ EndMeansAll'
  BY <1>1
  DEF IInv, StartedInOrder, WaitedFor, ClosedAfterWait, NoReadAfterEnd,
      ReturnedLast, NothingIsLost, EndMeansAll, KeepsAll, InHand, linkVars, waitVars
<1> QED
  BY <1>2, <1>3, <1>4, <1>5 DEF IInv

\* The invariant is preserved when a command is started.
LEMMA StartProcessStep ==
  ASSUME IInv, StartProcess
  PROVE  IInv'
<1>1. /\ line = "start" /\ started < N /\ started' = started + 1 /\ started + 1 \in Commands
      /\ proc'[started + 1] = "running"
      /\ \A i \in Commands : i # started + 1 => proc'[i] = proc[i]
      /\ \A l \in Links : outCopy'[l] = IF l = started + 1 THEN "reading" ELSE outCopy[l]
      /\ \A l \in Links : inCopy'[l] = IF l = started THEN "reading" ELSE inCopy[l]
  BY PipelineAssumption, Indices
  DEF PipelineAssumption, IInv, TypeOK, StartProcess, Commands, Links
<1>2. UNCHANGED <<shape, line, file, stopped, written, read, ended, out, inp, waitVars>>
  BY DEF StartProcess, lineVars, linkVars, waitVars
<1>3. TypeOK'
  <2>1. started' \in 0..N
    BY PipelineAssumption, <1>1, <1>2
    DEF PipelineAssumption, IInv, TypeOK
  <2>2. proc' \in [Commands -> Live \cup {"none", "exited"}]
    BY <1>1, <1>2
    DEF IInv, TypeOK, StartProcess, Live
  <2>3. outCopy' \in [Links -> {"none", "reading", "writing", "done"}]
    BY <1>1, <1>2
    DEF IInv, TypeOK, StartProcess
  <2>4. inCopy' \in [Links -> {"none", "reading", "writing", "done"}]
    BY <1>1, <1>2
    DEF IInv, TypeOK, StartProcess
  <2> QED
    BY <2>1, <2>2, <2>3, <2>4, <1>1, <1>2 DEF IInv, TypeOK, waitVars
<1>4. StartedInOrder'
  <2>1. started \in Nat /\ \A i \in Commands : i \in Nat /\ i + 1 \in Nat
    BY Indices DEF IInv, TypeOK
  <2>2. \A i \in Commands : proc'[i] = "none" <=> i > started'
    BY <2>1, <1>1, <1>2 DEF IInv, StartedInOrder
  <2>3. \A l \in Links : outCopy'[l] = "none" <=> l > started'
    BY <2>1, <1>1, <1>2, Indices DEF IInv, StartedInOrder
  <2>4. \A l \in Links : inCopy'[l] = "none" <=> l + 1 > started'
    BY <2>1, <1>1, <1>2, Indices DEF IInv, StartedInOrder
  <2> QED
    BY <2>2, <2>3, <2>4 DEF StartedInOrder
<1>5. WaitedFor'
  <2>1. \A i \in Commands : wait'[i] = "none"
    BY <1>1, <1>2 DEF IInv, WaitsLast, waitVars
  <2> QED
    BY <2>1 DEF WaitedFor
<1>6. NoReadAfterEnd'
  BY <1>1, <1>2, Indices
  DEF IInv, NoReadAfterEnd, waitVars
<1>7. NothingIsLost'
  <2> SUFFICES ASSUME NEW k \in Links PROVE KeepsAll(k)'
    BY DEF NothingIsLost
  <2>1. KeepsAll(k) /\ k \in Commands /\ k + 1 \in Commands
    BY Indices DEF IInv, NothingIsLost
  <2>2. written[k] \in Nat /\ read[k] \in Nat /\ inp[k] \in Nat /\ out[k] \in Nat
    BY PipelineAssumption DEF PipelineAssumption, IInv, TypeOK
  <2>3. /\ started \in Nat /\ k \in Nat
        /\ k = started => inCopy[k] = "none" /\ proc[k + 1] = "none"
        /\ k = started + 1 => outCopy[k] = "none" /\ proc[k] = "none" /\ inCopy[k] = "none"
    BY <2>1, <1>1, <1>2, Indices
    DEF IInv, TypeOK, StartedInOrder
  <2>5. CASE k = started + 1
    BY <2>1, <2>2, <2>3, <1>1, <1>2, Indices
    DEF KeepsAll, InHand, waitVars
  <2>6. CASE k = started
    BY <2>1, <2>2, <2>3, <1>1, <1>2, Indices
    DEF KeepsAll, InHand, waitVars
  <2>7. CASE k # started /\ k # started + 1
    BY <2>1, <2>2, <2>3, <1>1, <1>2, Indices
    DEF KeepsAll, InHand, waitVars
  <2> QED
    BY <2>5, <2>6, <2>7
<1>8. EndMeansAll'
  <2>1. proc[started + 1] = "none"
    BY <1>1 DEF IInv, TypeOK, StartedInOrder
  <2> QED
    BY <2>1, <1>1, <1>2, Indices DEF IInv, EndMeansAll
<1>9. /\ WaitsLast'
      /\ ClosedAfterWait'
      /\ ReturnedLast'
      /\ FilesClosed'
  BY <1>2
  DEF IInv, WaitsLast, ClosedAfterWait, ReturnedLast, FilesClosed, waitVars
<1> QED
  BY <1>3, <1>4, <1>5, <1>6, <1>7, <1>8, <1>9 DEF IInv

\* The invariant is preserved when a command cannot be started.
LEMMA StartFailsStep ==
  ASSUME IInv, StartFails
  PROVE  IInv'
<1>1. /\ file'["input"] # "open" /\ file'["output"] # "open"
      /\ line' = "returned"
  BY PipelineAssumption, Indices
  DEF PipelineAssumption, IInv, TypeOK, StartFails, CloseFiles
<1>2. UNCHANGED <<shape, started, proc, stopped, linkVars, waitVars>>
  BY DEF StartFails, CloseFiles, lineVars, linkVars, waitVars
<1>3. TypeOK'
  BY PipelineAssumption
  DEF PipelineAssumption, IInv, TypeOK, StartFails, CloseFiles, Commands, Links,
      Live, linkVars, waitVars
<1>4. WaitsLast'
  BY <1>1, <1>2
  DEF IInv, WaitsLast, linkVars, waitVars
<1>5. FilesClosed'
  BY <1>1, <1>2
  DEF IInv, FilesClosed, linkVars, waitVars
<1>6. /\ StartedInOrder'
      /\ WaitedFor'
      /\ ClosedAfterWait'
      /\ NoReadAfterEnd'
      /\ ReturnedLast'
      /\ NothingIsLost'
      /\ EndMeansAll'
  BY <1>2
  DEF IInv, StartedInOrder, WaitedFor, ClosedAfterWait, NoReadAfterEnd,
      ReturnedLast, NothingIsLost, EndMeansAll, KeepsAll, InHand, linkVars, waitVars
<1> QED
  BY <1>3, <1>4, <1>5, <1>6 DEF IInv

\* The invariant is preserved when waitProcesses starts its goroutines.
LEMMA AllStartedStep ==
  ASSUME IInv, AllStarted
  PROVE  IInv'
<1>1. /\ line = "start" /\ reaper' = "waiting" /\ line' \in {"waiting", "returned"}
      /\ line' = "returned" => shape.background
      /\ \A i \in Commands : wait'[i] = "process"
  BY PipelineAssumption, Indices
  DEF PipelineAssumption, IInv, TypeOK, AllStarted
<1>2. UNCHANGED <<shape, started, file, proc, stopped, linkVars, wClosed, rClosed>>
  BY DEF AllStarted, lineVars, linkVars, waitVars
<1>3. TypeOK'
  BY PipelineAssumption
  DEF PipelineAssumption, IInv, TypeOK, AllStarted, Commands, Links, Live, linkVars
<1>4. WaitsLast'
  BY <1>1, <1>2
  DEF IInv, WaitsLast, linkVars
<1>5. WaitedFor'
  BY <1>1, <1>2, Indices
  DEF IInv, WaitedFor, linkVars
<1>6. ClosedAfterWait'
  <2>1. \A i \in Commands : wait[i] = "none"
    BY <1>1, <1>2 DEF IInv, WaitsLast
  <2> QED
    BY <2>1, <1>1, <1>2, Indices DEF IInv, ClosedAfterWait
<1>7. ReturnedLast'
  BY <1>1, <1>2, Indices
  DEF IInv, ReturnedLast, linkVars
<1>8. FilesClosed'
  BY <1>1, <1>2
  DEF IInv, FilesClosed, linkVars
<1>9. /\ StartedInOrder'
      /\ NoReadAfterEnd'
      /\ NothingIsLost'
      /\ EndMeansAll'
  BY <1>2
  DEF IInv, StartedInOrder, NoReadAfterEnd, NothingIsLost, EndMeansAll, KeepsAll,
      InHand, linkVars
<1> QED
  BY <1>3, <1>4, <1>5, <1>6, <1>7, <1>8, <1>9 DEF IInv

\* The invariant is preserved when a foreground line ends.
LEMMA ForegroundEndsStep ==
  ASSUME IInv, ForegroundEnds
  PROVE  IInv'
<1>1. /\ file'["input"] # "open" /\ file'["output"] # "open"
      /\ line' = "returned" /\ line = "waiting"
  BY PipelineAssumption, Indices
  DEF PipelineAssumption, IInv, TypeOK, ForegroundEnds, CloseFiles
<1>2. UNCHANGED <<shape, started, proc, stopped, linkVars, waitVars>>
  BY DEF ForegroundEnds, CloseFiles, lineVars, linkVars, waitVars
<1>3. TypeOK'
  BY PipelineAssumption
  DEF PipelineAssumption, IInv, TypeOK, ForegroundEnds, CloseFiles, Commands, Links,
      Live, linkVars, waitVars
<1>4. WaitsLast'
  BY <1>1, <1>2
  DEF IInv, WaitsLast, linkVars, waitVars
<1>5. FilesClosed'
  BY <1>1, <1>2
  DEF IInv, FilesClosed, linkVars, waitVars
<1>6. /\ StartedInOrder'
      /\ WaitedFor'
      /\ ClosedAfterWait'
      /\ NoReadAfterEnd'
      /\ ReturnedLast'
      /\ NothingIsLost'
      /\ EndMeansAll'
  BY <1>2
  DEF IInv, StartedInOrder, WaitedFor, ClosedAfterWait, NoReadAfterEnd,
      ReturnedLast, NothingIsLost, EndMeansAll, KeepsAll, InHand, linkVars, waitVars
<1> QED
  BY <1>3, <1>4, <1>5, <1>6 DEF IInv

\* The invariant is preserved when a background line ends.
LEMMA BackgroundEndsStep ==
  ASSUME IInv, BackgroundEnds
  PROVE  IInv'
<1>1. /\ file'["input"] # "open" /\ file'["output"] # "open"
      /\ reaper = "returned" /\ reaper' = "completed"
  BY PipelineAssumption, Indices
  DEF PipelineAssumption, IInv, TypeOK, BackgroundEnds, CloseFiles
<1>2. UNCHANGED <<shape, line, started, proc, stopped, linkVars, wClosed, rClosed, wait>>
  BY DEF BackgroundEnds, CloseFiles, lineVars, linkVars, waitVars
<1>3. TypeOK'
  BY PipelineAssumption
  DEF PipelineAssumption, IInv, TypeOK, BackgroundEnds, CloseFiles, Commands, Links,
      Live, linkVars
<1>4. WaitsLast'
  BY <1>1, <1>2
  DEF IInv, WaitsLast, linkVars
<1>5. ReturnedLast'
  BY <1>1, <1>2, Indices
  DEF IInv, ReturnedLast, linkVars
<1>6. FilesClosed'
  <2>1. line \notin {"input", "output", "start"}
    BY <1>1, <1>2 DEF IInv, WaitsLast
  <2> QED
    BY <2>1, <1>1, <1>2 DEF IInv, FilesClosed
<1>7. /\ StartedInOrder'
      /\ WaitedFor'
      /\ ClosedAfterWait'
      /\ NoReadAfterEnd'
      /\ NothingIsLost'
      /\ EndMeansAll'
  BY <1>2
  DEF IInv, StartedInOrder, WaitedFor, ClosedAfterWait, NoReadAfterEnd,
      NothingIsLost, EndMeansAll, KeepsAll, InHand, linkVars
<1> QED
  BY <1>3, <1>4, <1>5, <1>6, <1>7 DEF IInv

\* The invariant is preserved when waitProcesses returns.
LEMMA AllReportedStep ==
  ASSUME IInv, AllReported
  PROVE  IInv'
<1>1. UNCHANGED <<lineVars, proc, stopped, linkVars, wClosed, rClosed, wait>>
  BY DEF AllReported, lineVars, linkVars, waitVars
<1>2. TypeOK'
  BY PipelineAssumption
  DEF PipelineAssumption, IInv, TypeOK, AllReported, Commands, Links, Live,
      lineVars, linkVars
<1>3. WaitsLast'
  BY <1>1
  DEF IInv, WaitsLast, AllReported, lineVars, linkVars
<1>4. ReturnedLast'
  BY <1>1, Indices
  DEF IInv, ReturnedLast, AllReported, lineVars, linkVars
<1>5. FilesClosed'
  BY <1>1
  DEF IInv, FilesClosed, AllReported, lineVars, linkVars
<1>6. /\ StartedInOrder'
      /\ WaitedFor'
      /\ ClosedAfterWait'
      /\ NoReadAfterEnd'
      /\ NothingIsLost'
      /\ EndMeansAll'
  BY <1>1
  DEF IInv, StartedInOrder, WaitedFor, ClosedAfterWait, NoReadAfterEnd,
      NothingIsLost, EndMeansAll, KeepsAll, InHand, lineVars, linkVars
<1> QED
  BY <1>2, <1>3, <1>4, <1>5, <1>6 DEF IInv

\* The invariant is preserved when a foreground line is stopped.
LEMMA StopForegroundStep ==
  ASSUME IInv, StopForeground
  PROVE  IInv'
<1>1. /\ file'["input"] # "open" /\ file'["output"] # "open"
      /\ line' = "returned" /\ line = "waiting"
  BY PipelineAssumption, Indices
  DEF PipelineAssumption, IInv, TypeOK, StopForeground, CloseFiles
<1>2. UNCHANGED <<shape, started, proc, linkVars, waitVars>>
  BY DEF StopForeground, CloseFiles, lineVars, linkVars, waitVars
<1>3. TypeOK'
  BY PipelineAssumption
  DEF PipelineAssumption, IInv, TypeOK, StopForeground, CloseFiles, Commands, Links,
      Live, linkVars, waitVars
<1>4. WaitsLast'
  BY <1>1, <1>2
  DEF IInv, WaitsLast, linkVars, waitVars
<1>5. FilesClosed'
  BY <1>1, <1>2
  DEF IInv, FilesClosed, linkVars, waitVars
<1>6. /\ StartedInOrder'
      /\ WaitedFor'
      /\ ClosedAfterWait'
      /\ NoReadAfterEnd'
      /\ ReturnedLast'
      /\ NothingIsLost'
      /\ EndMeansAll'
  BY <1>2
  DEF IInv, StartedInOrder, WaitedFor, ClosedAfterWait, NoReadAfterEnd,
      ReturnedLast, NothingIsLost, EndMeansAll, KeepsAll, InHand, linkVars, waitVars
<1> QED
  BY <1>3, <1>4, <1>5, <1>6 DEF IInv

\* The invariant is preserved when the job of a line is stopped.
LEMMA StopJobStep ==
  ASSUME IInv, StopJob
  PROVE  IInv'
<1>1. UNCHANGED <<lineVars, proc, linkVars, waitVars>>
  BY DEF StopJob, lineVars, linkVars, waitVars
<1>2. TypeOK'
  BY PipelineAssumption
  DEF PipelineAssumption, IInv, TypeOK, StopJob, Commands, Links, Live, lineVars,
      linkVars, waitVars
<1>3. /\ StartedInOrder'
      /\ WaitsLast'
      /\ WaitedFor'
      /\ ClosedAfterWait'
      /\ NoReadAfterEnd'
      /\ ReturnedLast'
      /\ FilesClosed'
      /\ NothingIsLost'
      /\ EndMeansAll'
  BY <1>1
  DEF IInv, StartedInOrder, WaitsLast, WaitedFor, ClosedAfterWait, NoReadAfterEnd,
      ReturnedLast, FilesClosed, NothingIsLost, EndMeansAll, KeepsAll, InHand,
      lineVars, linkVars, waitVars
<1> QED
  BY <1>2, <1>3 DEF IInv

\* The invariant is preserved when a job is resumed.
LEMMA ResumeJobStep ==
  ASSUME IInv, ResumeJob
  PROVE  IInv'
<1>1. UNCHANGED <<lineVars, proc, linkVars, waitVars>>
  BY DEF ResumeJob, lineVars, linkVars, waitVars
<1>2. TypeOK'
  BY PipelineAssumption
  DEF PipelineAssumption, IInv, TypeOK, ResumeJob, Commands, Links, Live, lineVars,
      linkVars, waitVars
<1>3. /\ StartedInOrder'
      /\ WaitsLast'
      /\ WaitedFor'
      /\ ClosedAfterWait'
      /\ NoReadAfterEnd'
      /\ ReturnedLast'
      /\ FilesClosed'
      /\ NothingIsLost'
      /\ EndMeansAll'
  BY <1>1
  DEF IInv, StartedInOrder, WaitsLast, WaitedFor, ClosedAfterWait, NoReadAfterEnd,
      ReturnedLast, FilesClosed, NothingIsLost, EndMeansAll, KeepsAll, InHand,
      lineVars, linkVars, waitVars
<1> QED
  BY <1>2, <1>3 DEF IInv

\* The invariant is preserved when a command makes a call.
LEMMA CallStep ==
  ASSUME IInv, NEW i \in Commands, Call(i)
  PROVE  IInv'
<1>1. /\ proc[i] = "running" /\ proc'[i] \in {"writing", "reading"}
      /\ proc'[i] = "reading" => i > 1 /\ ~ended[i - 1]
      /\ \A j \in Commands : j # i => proc'[j] = proc[j]
  BY PipelineAssumption, Indices
  DEF PipelineAssumption, IInv, TypeOK, Call, Become, Runs
<1>2. UNCHANGED <<lineVars, stopped, linkVars, waitVars>>
  BY DEF Call, Become, Runs, lineVars, linkVars, waitVars
<1>3. TypeOK'
  BY PipelineAssumption, Indices
  DEF PipelineAssumption, IInv, TypeOK, Call, Become, Runs, Commands, Links, Live,
      lineVars, linkVars, waitVars
<1>4. StartedInOrder'
  BY <1>1, <1>2, Indices
  DEF IInv, StartedInOrder, lineVars, linkVars, waitVars
<1>5. WaitedFor'
  BY <1>1, <1>2, Indices
  DEF IInv, WaitedFor, lineVars, linkVars, waitVars
<1>6. NoReadAfterEnd'
  BY <1>1, <1>2, Indices
  DEF IInv, NoReadAfterEnd, lineVars, linkVars, waitVars
<1>7. NothingIsLost'
  BY <1>1, <1>2, Indices
  DEF IInv, NothingIsLost, KeepsAll, InHand, lineVars, linkVars, waitVars
<1>8. EndMeansAll'
  BY <1>1, <1>2, Indices
  DEF IInv, EndMeansAll, lineVars, linkVars, waitVars
<1>9. /\ WaitsLast'
      /\ ClosedAfterWait'
      /\ ReturnedLast'
      /\ FilesClosed'
  BY <1>2
  DEF IInv, WaitsLast, ClosedAfterWait, ReturnedLast, FilesClosed, lineVars,
      linkVars, waitVars
<1> QED
  BY <1>3, <1>4, <1>5, <1>6, <1>7, <1>8, <1>9 DEF IInv

\* The invariant is preserved when a command writes, or is told that nobody reads.
LEMMA WriteStep ==
  ASSUME IInv, NEW i \in Commands, Write(i)
  PROVE  IInv'
<1>1. /\ i \in Links /\ proc[i] = "writing" /\ proc'[i] \in {"running", "exited"}
      /\ \A j \in Commands : j # i => proc'[j] = proc[j]
      /\ \A l \in Links : l # i => out'[l] = out[l] /\ written'[l] = written[l]
      /\ proc'[i] = "exited" => outCopy[i] = "done" /\ out' = out /\ written' = written
      /\ proc'[i] = "running" =>
         outCopy[i] # "done" /\ out'[i] = out[i] + 1 /\ written'[i] = written[i] + 1
  BY PipelineAssumption, Indices
  DEF PipelineAssumption, IInv, TypeOK, Write, Become, Runs
<1>2. UNCHANGED <<lineVars, stopped, read, ended, outCopy, inCopy, inp, waitVars>>
  BY DEF Write, Become, Runs, lineVars, linkVars, waitVars
<1>3. TypeOK'
  <2>1. proc' \in [Commands -> Live \cup {"none", "exited"}]
    BY <1>1, <1>2
    DEF IInv, TypeOK, Write, Runs, Become, Live
  <2>2. out' \in [Links -> 0..PipeSize]
    BY PipelineAssumption
    DEF PipelineAssumption, IInv, TypeOK, Write
  <2>3. written' \in [Links -> Nat]
    BY PipelineAssumption
    DEF PipelineAssumption, IInv, TypeOK, Write
  <2> QED
    BY <2>1, <2>2, <2>3, <1>1, <1>2 DEF IInv, TypeOK, lineVars, waitVars
<1>4. StartedInOrder'
  BY <1>1, <1>2, Indices
  DEF IInv, StartedInOrder, lineVars, waitVars
<1>5. WaitedFor'
  BY <1>1, <1>2, Indices
  DEF IInv, WaitedFor, lineVars, waitVars
<1>6. NoReadAfterEnd'
  BY <1>1, <1>2, Indices
  DEF IInv, NoReadAfterEnd, lineVars, waitVars
<1>7. NothingIsLost'
  <2> SUFFICES ASSUME NEW k \in Links PROVE KeepsAll(k)'
    BY DEF NothingIsLost
  <2>1. KeepsAll(k) /\ k \in Commands /\ k + 1 \in Commands
    BY Indices DEF IInv, NothingIsLost
  <2>2. written[k] \in Nat /\ read[k] \in Nat /\ inp[k] \in Nat /\ out[k] \in Nat
    BY PipelineAssumption DEF PipelineAssumption, IInv, TypeOK
  <2>5. CASE k = i
    BY <2>1, <2>2, <1>1, <1>2, Indices
    DEF KeepsAll, InHand, waitVars
  <2>6. CASE k # i /\ k + 1 # i
    BY <2>1, <2>2, <1>1, <1>2, Indices
    DEF KeepsAll, InHand, waitVars
  <2>7. CASE k + 1 = i
    BY <2>1, <2>2, <1>1, <1>2, Indices
    DEF KeepsAll, InHand, waitVars
  <2> QED
    BY <2>5, <2>6, <2>7
<1>8. EndMeansAll'
  BY <1>1, <1>2, Indices
  DEF IInv, EndMeansAll, lineVars, waitVars
<1>9. /\ WaitsLast'
      /\ ClosedAfterWait'
      /\ ReturnedLast'
      /\ FilesClosed'
  BY <1>2
  DEF IInv, WaitsLast, ClosedAfterWait, ReturnedLast, FilesClosed, lineVars,
      waitVars
<1> QED
  BY <1>3, <1>4, <1>5, <1>6, <1>7, <1>8, <1>9 DEF IInv

\* The invariant is preserved when a command reads, or sees the end of its input.
LEMMA ReadStep ==
  ASSUME IInv, NEW i \in Commands, Read(i)
  PROVE  IInv'
<1>1. /\ i > 1 /\ i - 1 \in Links /\ proc[i] = "reading" /\ proc'[i] = "running"
      /\ \A j \in Commands : j # i => proc'[j] = proc[j]
      /\ \A l \in Links : l # i - 1 =>
         inp'[l] = inp[l] /\ read'[l] = read[l] /\ ended'[l] = ended[l]
      /\ \/ /\ inp[i - 1] > 0 /\ ended' = ended
            /\ inp'[i - 1] = inp[i - 1] - 1 /\ read'[i - 1] = read[i - 1] + 1
         \/ inp[i - 1] = 0 /\ inCopy[i - 1] = "done" /\ inp' = inp /\ read' = read
  BY PipelineAssumption, Indices
  DEF PipelineAssumption, IInv, TypeOK, Read, Become, Runs
<1>2. UNCHANGED <<lineVars, stopped, written, out, outCopy, inCopy, waitVars>>
  BY DEF Read, Become, Runs, lineVars, linkVars, waitVars
<1>3. TypeOK'
  <2>1. proc' \in [Commands -> Live \cup {"none", "exited"}]
    BY <1>1, <1>2
    DEF IInv, TypeOK, Read, Runs, Become, Live
  <2>2. inp' \in [Links -> 0..PipeSize]
    BY PipelineAssumption
    DEF PipelineAssumption, IInv, TypeOK, Read
  <2>3. read' \in [Links -> Nat]
    BY PipelineAssumption
    DEF PipelineAssumption, IInv, TypeOK, Read
  <2>4. ended' \in [Links -> BOOLEAN]
    BY PipelineAssumption
    DEF PipelineAssumption, IInv, TypeOK, Read
  <2> QED
    BY <2>1, <2>2, <2>3, <2>4, <1>1, <1>2 DEF IInv, TypeOK, lineVars, waitVars
<1>4. StartedInOrder'
  BY <1>1, <1>2, Indices
  DEF IInv, StartedInOrder, lineVars, waitVars
<1>5. WaitedFor'
  BY <1>1, <1>2, Indices
  DEF IInv, WaitedFor, lineVars, waitVars
<1>6. NoReadAfterEnd'
  BY <1>1, <1>2, Indices
  DEF IInv, NoReadAfterEnd, lineVars, waitVars
<1>7. NothingIsLost'
  <2> SUFFICES ASSUME NEW k \in Links PROVE KeepsAll(k)'
    BY DEF NothingIsLost
  <2>1. KeepsAll(k) /\ k \in Commands /\ k + 1 \in Commands
    BY Indices DEF IInv, NothingIsLost
  <2>2. written[k] \in Nat /\ read[k] \in Nat /\ inp[k] \in Nat /\ out[k] \in Nat
    BY PipelineAssumption DEF PipelineAssumption, IInv, TypeOK
  <2>5. CASE k = i - 1
    BY <2>1, <2>2, <1>1, <1>2, Indices
    DEF KeepsAll, InHand, waitVars
  <2>6. CASE k # i - 1 /\ k # i
    BY <2>1, <2>2, <1>1, <1>2, Indices
    DEF KeepsAll, InHand, waitVars
  <2>7. CASE k = i
    BY <2>1, <2>2, <1>1, <1>2, Indices
    DEF KeepsAll, InHand, waitVars
  <2> QED
    BY <2>5, <2>6, <2>7
<1>8. EndMeansAll'
  <2> SUFFICES ASSUME NEW k \in Links, ended'[k]
               PROVE  read'[k] = written'[k] /\ proc'[k] = "exited"
    BY DEF EndMeansAll
  <2>1. CASE k # i - 1
    <3>1. read'[k] = read[k] /\ ended'[k] = ended[k] /\ written' = written
      BY <2>1, <1>1, <1>2
    <3>2. read[k] = written[k] /\ proc[k] = "exited"
      BY <3>1 DEF IInv, EndMeansAll
    <3>3. k \in Commands /\ k # i
      BY <3>2, <1>1, Indices
    <3>4. proc'[k] = proc[k]
      BY <3>3, <1>1
    <3> QED
      BY <3>1, <3>2, <3>4
  <2>2. CASE k = i - 1
    <3>1. k \in Commands /\ k + 1 = i /\ proc[k + 1] = "reading"
      BY <2>2, <1>1, <1>2, Indices
    <3>2. ~ended[k]
      BY <3>1 DEF IInv, NoReadAfterEnd
    <3>3. inp[k] = 0 /\ inCopy[k] = "done" /\ read' = read
      BY <2>2, <3>2, <1>1, <1>2
    <3>4. KeepsAll(k)
      BY DEF IInv, NothingIsLost
    <3>5. outCopy[k] = "done"
      BY <3>1, <3>3, <3>4 DEF KeepsAll, IInv, ClosedAfterWait, WaitedFor
    <3>6. proc[k] = "exited" /\ out[k] = 0 /\ written[k] = read[k]
      BY <3>1, <3>3, <3>4, <3>5 DEF KeepsAll, InHand, IInv, TypeOK
    <3> QED
      BY <3>1, <3>3, <3>6, <1>1, <1>2, Indices
  <2> QED
    BY <2>1, <2>2
<1>9. /\ WaitsLast'
      /\ ClosedAfterWait'
      /\ ReturnedLast'
      /\ FilesClosed'
  BY <1>2
  DEF IInv, WaitsLast, ClosedAfterWait, ReturnedLast, FilesClosed, lineVars,
      waitVars
<1> QED
  BY <1>3, <1>4, <1>5, <1>6, <1>7, <1>8, <1>9 DEF IInv

\* The invariant is preserved when a command exits.
LEMMA ExitStep ==
  ASSUME IInv, NEW i \in Commands, Exit(i)
  PROVE  IInv'
<1>1. /\ proc[i] = "running" /\ proc'[i] = "exited"
      /\ \A j \in Commands : j # i => proc'[j] = proc[j]
  BY PipelineAssumption, Indices
  DEF PipelineAssumption, IInv, TypeOK, Exit, Become, Runs
<1>2. UNCHANGED <<lineVars, stopped, linkVars, waitVars>>
  BY DEF Exit, Become, Runs, lineVars, linkVars, waitVars
<1>3. TypeOK'
  BY PipelineAssumption, Indices
  DEF PipelineAssumption, IInv, TypeOK, Exit, Become, Runs, Commands, Links, Live,
      lineVars, linkVars, waitVars
<1>4. StartedInOrder'
  BY <1>1, <1>2, Indices
  DEF IInv, StartedInOrder, lineVars, linkVars, waitVars
<1>5. WaitedFor'
  BY <1>1, <1>2, Indices
  DEF IInv, WaitedFor, lineVars, linkVars, waitVars
<1>6. NoReadAfterEnd'
  BY <1>1, <1>2, Indices
  DEF IInv, NoReadAfterEnd, lineVars, linkVars, waitVars
<1>7. NothingIsLost'
  BY <1>1, <1>2, Indices
  DEF IInv, NothingIsLost, KeepsAll, InHand, lineVars, linkVars, waitVars
<1>8. EndMeansAll'
  BY <1>1, <1>2, Indices
  DEF IInv, EndMeansAll, lineVars, linkVars, waitVars
<1>9. /\ WaitsLast'
      /\ ClosedAfterWait'
      /\ ReturnedLast'
      /\ FilesClosed'
  BY <1>2
  DEF IInv, WaitsLast, ClosedAfterWait, ReturnedLast, FilesClosed, lineVars,
      linkVars, waitVars
<1> QED
  BY <1>3, <1>4, <1>5, <1>6, <1>7, <1>8, <1>9 DEF IInv

\* The invariant is preserved when a command is killed.
LEMMA KilledStep ==
  ASSUME IInv, NEW i \in Commands, Killed(i)
  PROVE  IInv'
<1>1. /\ proc[i] \in Live /\ proc'[i] = "exited"
      /\ \A j \in Commands : j # i => proc'[j] = proc[j]
  BY PipelineAssumption, Indices
  DEF PipelineAssumption, IInv, TypeOK, Killed, Become
<1>2. UNCHANGED <<lineVars, stopped, linkVars, waitVars>>
  BY DEF Killed, Become, lineVars, linkVars, waitVars
<1>3. TypeOK'
  BY PipelineAssumption, Indices
  DEF PipelineAssumption, IInv, TypeOK, Killed, Become, Commands, Links, Live,
      lineVars, linkVars, waitVars
<1>4. StartedInOrder'
  BY <1>1, <1>2, Indices
  DEF IInv, StartedInOrder, lineVars, linkVars, waitVars, Live
<1>5. WaitedFor'
  BY <1>1, <1>2, Indices
  DEF IInv, WaitedFor, lineVars, linkVars, waitVars
<1>6. NoReadAfterEnd'
  BY <1>1, <1>2, Indices
  DEF IInv, NoReadAfterEnd, lineVars, linkVars, waitVars
<1>7. NothingIsLost'
  BY <1>1, <1>2, Indices
  DEF IInv, NothingIsLost, KeepsAll, InHand, lineVars, linkVars, waitVars
<1>8. EndMeansAll'
  BY <1>1, <1>2, Indices
  DEF IInv, EndMeansAll, lineVars, linkVars, waitVars
<1>9. /\ WaitsLast'
      /\ ClosedAfterWait'
      /\ ReturnedLast'
      /\ FilesClosed'
  BY <1>2
  DEF IInv, WaitsLast, ClosedAfterWait, ReturnedLast, FilesClosed, lineVars,
      linkVars, waitVars
<1> QED
  BY <1>3, <1>4, <1>5, <1>6, <1>7, <1>8, <1>9 DEF IInv

\* The invariant is preserved when Wait returns for a command.
LEMMA CommandWaitedStep ==
  ASSUME IInv, NEW i \in Commands, CommandWaited(i)
  PROVE  IInv'
<1>1. /\ wait[i] = "process" /\ wait'[i] = "writer" /\ proc[i] = "exited"
      /\ i \in Links => outCopy[i] = "done"
      /\ i - 1 \in Links => inCopy[i - 1] = "done"
      /\ \A j \in Commands : j # i => wait'[j] = wait[j]
  BY PipelineAssumption, Indices
  DEF PipelineAssumption, IInv, TypeOK, CommandWaited
<1>2. UNCHANGED <<lineVars, proc, stopped, linkVars, wClosed, rClosed, reaper>>
  BY DEF CommandWaited, lineVars, linkVars, waitVars
<1>3. TypeOK'
  BY PipelineAssumption, Indices
  DEF PipelineAssumption, IInv, TypeOK, CommandWaited, Commands, Links, Live,
      lineVars, linkVars
<1>4. WaitsLast'
  BY <1>1, <1>2
  DEF IInv, WaitsLast, lineVars, linkVars
<1>5. WaitedFor'
  BY <1>1, <1>2, Indices
  DEF IInv, WaitedFor, lineVars, linkVars
<1>6. ClosedAfterWait'
  BY <1>1, <1>2, Indices
  DEF IInv, ClosedAfterWait, lineVars, linkVars
<1>7. ReturnedLast'
  BY <1>1, <1>2, Indices
  DEF IInv, ReturnedLast, lineVars, linkVars
<1>8. /\ StartedInOrder'
      /\ NoReadAfterEnd'
      /\ FilesClosed'
      /\ NothingIsLost'
      /\ EndMeansAll'
  BY <1>2
  DEF IInv, StartedInOrder, NoReadAfterEnd, FilesClosed, NothingIsLost, EndMeansAll,
      KeepsAll, InHand, lineVars, linkVars
<1> QED
  BY <1>3, <1>4, <1>5, <1>6, <1>7, <1>8 DEF IInv

\* The invariant is preserved when the writer of a link is closed.
LEMMA CloseWriterStep ==
  ASSUME IInv, NEW i \in Commands, CloseWriter(i)
  PROVE  IInv'
<1>1. /\ wait[i] = "writer" /\ wait'[i] = "reader"
      /\ \A j \in Commands : j # i => wait'[j] = wait[j]
      /\ \A l \in Links : wClosed'[l] = (wClosed[l] \/ l = i)
  BY PipelineAssumption, Indices
  DEF PipelineAssumption, IInv, TypeOK, CloseWriter
<1>2. UNCHANGED <<lineVars, proc, stopped, linkVars, rClosed, reaper>>
  BY DEF CloseWriter, lineVars, linkVars, waitVars
<1>3. TypeOK'
  BY PipelineAssumption, Indices
  DEF PipelineAssumption, IInv, TypeOK, CloseWriter, Commands, Links, Live,
      lineVars, linkVars
<1>4. WaitsLast'
  BY <1>1, <1>2
  DEF IInv, WaitsLast, lineVars, linkVars
<1>5. WaitedFor'
  BY <1>1, <1>2, Indices
  DEF IInv, WaitedFor, lineVars, linkVars
<1>6. ClosedAfterWait'
  BY <1>1, <1>2, Indices
  DEF IInv, ClosedAfterWait, lineVars, linkVars
<1>7. ReturnedLast'
  BY <1>1, <1>2, Indices
  DEF IInv, ReturnedLast, lineVars, linkVars
<1>8. NothingIsLost'
  BY <1>1, <1>2, Indices
  DEF IInv, NothingIsLost, KeepsAll, InHand, lineVars, linkVars
<1>9. /\ StartedInOrder'
      /\ NoReadAfterEnd'
      /\ FilesClosed'
      /\ EndMeansAll'
  BY <1>2
  DEF IInv, StartedInOrder, NoReadAfterEnd, FilesClosed, EndMeansAll, lineVars,
      linkVars
<1> QED
  BY <1>3, <1>4, <1>5, <1>6, <1>7, <1>8, <1>9 DEF IInv

\* The invariant is preserved when the reader of a link is closed.
LEMMA CloseReaderStep ==
  ASSUME IInv, NEW i \in Commands, CloseReader(i)
  PROVE  IInv'
<1>1. /\ wait[i] = "reader" /\ wait'[i] = "reported"
      /\ \A j \in Commands : j # i => wait'[j] = wait[j]
      /\ \A l \in Links : rClosed'[l] = (rClosed[l] \/ l = i - 1)
  BY PipelineAssumption, Indices
  DEF PipelineAssumption, IInv, TypeOK, CloseReader
<1>2. UNCHANGED <<lineVars, proc, stopped, linkVars, wClosed, reaper>>
  BY DEF CloseReader, lineVars, linkVars, waitVars
<1>3. TypeOK'
  BY PipelineAssumption, Indices
  DEF PipelineAssumption, IInv, TypeOK, CloseReader, Commands, Links, Live,
      lineVars, linkVars
<1>4. WaitsLast'
  BY <1>1, <1>2
  DEF IInv, WaitsLast, lineVars, linkVars
<1>5. WaitedFor'
  BY <1>1, <1>2, Indices
  DEF IInv, WaitedFor, lineVars, linkVars
<1>6. ClosedAfterWait'
  <2> SUFFICES ASSUME NEW l \in Links
               PROVE  /\ wClosed'[l] => wait'[l] \in {"reader", "reported"}
                      /\ rClosed'[l] => wait'[l + 1] = "reported"
    BY DEF ClosedAfterWait
  <2>1. l \in Commands /\ l + 1 \in Commands /\ (l = i - 1 => l + 1 = i)
    BY Indices
  <2> QED
    BY <2>1, <1>1, <1>2, ZenonT(40) DEF IInv, ClosedAfterWait
<1>7. ReturnedLast'
  BY <1>1, <1>2, Indices
  DEF IInv, ReturnedLast, lineVars, linkVars
<1>8. /\ StartedInOrder'
      /\ NoReadAfterEnd'
      /\ FilesClosed'
      /\ NothingIsLost'
      /\ EndMeansAll'
  BY <1>2
  DEF IInv, StartedInOrder, NoReadAfterEnd, FilesClosed, NothingIsLost, EndMeansAll,
      KeepsAll, InHand, lineVars, linkVars
<1> QED
  BY <1>3, <1>4, <1>5, <1>6, <1>7, <1>8 DEF IInv

\* The invariant is preserved when the output of a command is taken.
LEMMA TakeOutputStep ==
  ASSUME IInv, NEW l \in Links, TakeOutput(l)
  PROVE  IInv'
<1>1. /\ outCopy[l] = "reading" /\ outCopy'[l] \in {"writing", "done"}
      /\ \A k \in Links : k # l => outCopy'[k] = outCopy[k] /\ out'[k] = out[k]
      /\ outCopy'[l] = "writing" => out[l] > 0 /\ out'[l] = out[l] - 1
      /\ outCopy'[l] = "done" => out[l] = 0 /\ out' = out /\ proc[l] = "exited"
  BY PipelineAssumption, Indices
  DEF PipelineAssumption, IInv, TypeOK, TakeOutput
<1>2. UNCHANGED <<lineVars, proc, stopped, written, read, ended, inCopy, inp, waitVars>>
  BY DEF TakeOutput, lineVars, linkVars, waitVars
<1>3. TypeOK'
  <2>1. outCopy' \in [Links -> {"none", "reading", "writing", "done"}]
    BY <1>1, <1>2
    DEF IInv, TypeOK, TakeOutput
  <2>2. out' \in [Links -> 0..PipeSize]
    BY PipelineAssumption
    DEF PipelineAssumption, IInv, TypeOK, TakeOutput
  <2> QED
    BY <2>1, <2>2, <1>1, <1>2 DEF IInv, TypeOK, lineVars, waitVars
<1>4. StartedInOrder'
  BY <1>1, <1>2, Indices
  DEF IInv, StartedInOrder, lineVars, waitVars
<1>5. WaitedFor'
  BY <1>1, <1>2, Indices
  DEF IInv, WaitedFor, lineVars, waitVars
<1>6. NothingIsLost'
  <2> SUFFICES ASSUME NEW k \in Links PROVE KeepsAll(k)'
    BY DEF NothingIsLost
  <2>1. KeepsAll(k) /\ k \in Commands /\ k + 1 \in Commands
    BY Indices DEF IInv, NothingIsLost
  <2>2. written[k] \in Nat /\ read[k] \in Nat /\ inp[k] \in Nat /\ out[k] \in Nat
    BY PipelineAssumption DEF PipelineAssumption, IInv, TypeOK
  <2>5. CASE k = l
    BY <2>1, <2>2, <1>1, <1>2, Indices
    DEF KeepsAll, InHand, waitVars
  <2>6. CASE k # l
    BY <2>1, <2>2, <1>1, <1>2, Indices
    DEF KeepsAll, InHand, waitVars
  <2> QED
    BY <2>5, <2>6
<1>7. /\ WaitsLast'
      /\ ClosedAfterWait'
      /\ NoReadAfterEnd'
      /\ ReturnedLast'
      /\ FilesClosed'
      /\ EndMeansAll'
  BY <1>2
  DEF IInv, WaitsLast, ClosedAfterWait, NoReadAfterEnd, ReturnedLast, FilesClosed,
      EndMeansAll, lineVars, waitVars
<1> QED
  BY <1>3, <1>4, <1>5, <1>6, <1>7 DEF IInv

\* The invariant is preserved when a chunk is handed over.
LEMMA HandOverStep ==
  ASSUME IInv, NEW l \in Links, HandOver(l)
  PROVE  IInv'
<1>1. /\ outCopy[l] = "writing" /\ outCopy'[l] \in {"reading", "done"}
      /\ \A k \in Links : k # l => outCopy'[k] = outCopy[k] /\ inCopy'[k] = inCopy[k]
      /\ outCopy'[l] = "done" => inCopy' = inCopy /\ (rClosed[l] \/ wClosed[l])
      /\ outCopy'[l] = "reading" => inCopy[l] = "reading" /\ inCopy'[l] = "writing"
  BY PipelineAssumption, Indices
  DEF PipelineAssumption, IInv, TypeOK, HandOver
<1>2. UNCHANGED <<lineVars, proc, stopped, written, read, ended, out, inp, waitVars>>
  BY DEF HandOver, lineVars, linkVars, waitVars
<1>3. TypeOK'
  BY PipelineAssumption, Indices, ZenonT(40)
  DEF PipelineAssumption, IInv, TypeOK, HandOver, Commands, Links, Live, lineVars,
      waitVars
<1>4. StartedInOrder'
  BY <1>1, <1>2, Indices
  DEF IInv, StartedInOrder, lineVars, waitVars
<1>5. WaitedFor'
  BY <1>1, <1>2, Indices
  DEF IInv, WaitedFor, lineVars, waitVars
<1>6. NothingIsLost'
  <2> SUFFICES ASSUME NEW k \in Links PROVE KeepsAll(k)'
    BY DEF NothingIsLost
  <2>1. KeepsAll(k) /\ k \in Commands /\ k + 1 \in Commands
    BY Indices DEF IInv, NothingIsLost
  <2>2. written[k] \in Nat /\ read[k] \in Nat /\ inp[k] \in Nat /\ out[k] \in Nat
    BY PipelineAssumption DEF PipelineAssumption, IInv, TypeOK
  <2>3. outCopy'[l] = "done" => proc[l + 1] = "exited"
    BY <1>1, Indices DEF IInv, ClosedAfterWait, WaitedFor
  <2>5. CASE k = l /\ outCopy'[l] = "reading"
    BY <2>1, <2>2, <2>3, <1>1, <1>2, Indices
    DEF KeepsAll, InHand, waitVars
  <2>6. CASE k = l /\ outCopy'[l] = "done"
    BY <2>1, <2>2, <2>3, <1>1, <1>2, Indices
    DEF KeepsAll, InHand, waitVars
  <2>7. CASE k # l
    BY <2>1, <2>2, <2>3, <1>1, <1>2, Indices
    DEF KeepsAll, InHand, waitVars
  <2> QED
    BY <1>1, <2>5, <2>6, <2>7
<1>7. /\ WaitsLast'
      /\ ClosedAfterWait'
      /\ NoReadAfterEnd'
      /\ ReturnedLast'
      /\ FilesClosed'
      /\ EndMeansAll'
  BY <1>2
  DEF IInv, WaitsLast, ClosedAfterWait, NoReadAfterEnd, ReturnedLast, FilesClosed,
      EndMeansAll, lineVars, waitVars
<1> QED
  BY <1>3, <1>4, <1>5, <1>6, <1>7 DEF IInv

\* The invariant is preserved when the copy to a command ends.
LEMMA InputEndsStep ==
  ASSUME IInv, NEW l \in Links, InputEnds(l)
  PROVE  IInv'
<1>1. /\ inCopy[l] = "reading" /\ inCopy'[l] = "done" /\ (rClosed[l] \/ wClosed[l])
      /\ \A k \in Links : k # l => inCopy'[k] = inCopy[k]
  BY PipelineAssumption, Indices
  DEF PipelineAssumption, IInv, TypeOK, InputEnds
<1>2. UNCHANGED <<lineVars, proc, stopped, written, read, ended, out, outCopy, inp,
                  waitVars>>
  BY DEF InputEnds, lineVars, linkVars, waitVars
<1>3. TypeOK'
  BY PipelineAssumption, Indices
  DEF PipelineAssumption, IInv, TypeOK, InputEnds, Commands, Links, Live, lineVars,
      waitVars
<1>4. StartedInOrder'
  BY <1>1, <1>2, Indices
  DEF IInv, StartedInOrder, lineVars, waitVars
<1>5. WaitedFor'
  BY <1>1, <1>2, Indices
  DEF IInv, WaitedFor, lineVars, waitVars
<1>6. NothingIsLost'
  <2> SUFFICES ASSUME NEW k \in Links PROVE KeepsAll(k)'
    BY DEF NothingIsLost
  <2>1. KeepsAll(k) /\ k \in Commands /\ k + 1 \in Commands
    BY Indices DEF IInv, NothingIsLost
  <2>2. written[k] \in Nat /\ read[k] \in Nat /\ inp[k] \in Nat /\ out[k] \in Nat
    BY PipelineAssumption DEF PipelineAssumption, IInv, TypeOK
  <2>3. proc[l + 1] # "exited" => wClosed[l]
    BY <1>1, Indices DEF IInv, ClosedAfterWait, WaitedFor
  <2>5. CASE k = l
    BY <2>1, <2>2, <2>3, <1>1, <1>2, Indices
    DEF KeepsAll, InHand, waitVars
  <2>6. CASE k # l
    BY <2>1, <2>2, <2>3, <1>1, <1>2, Indices
    DEF KeepsAll, InHand, waitVars
  <2> QED
    BY <2>5, <2>6
<1>7. /\ WaitsLast'
      /\ ClosedAfterWait'
      /\ NoReadAfterEnd'
      /\ ReturnedLast'
      /\ FilesClosed'
      /\ EndMeansAll'
  BY <1>2
  DEF IInv, WaitsLast, ClosedAfterWait, NoReadAfterEnd, ReturnedLast, FilesClosed,
      EndMeansAll, lineVars, waitVars
<1> QED
  BY <1>3, <1>4, <1>5, <1>6, <1>7 DEF IInv

\* The invariant is preserved when a command is fed.
LEMMA FeedInputStep ==
  ASSUME IInv, NEW l \in Links, FeedInput(l)
  PROVE  IInv'
<1>1. /\ inCopy[l] = "writing" /\ inCopy'[l] \in {"reading", "done"}
      /\ \A k \in Links : k # l => inCopy'[k] = inCopy[k] /\ inp'[k] = inp[k]
      /\ inCopy'[l] = "done" => inp' = inp /\ proc[l + 1] = "exited"
      /\ inCopy'[l] = "reading" => inp'[l] = inp[l] + 1
  BY PipelineAssumption, Indices
  DEF PipelineAssumption, IInv, TypeOK, FeedInput
<1>2. UNCHANGED <<lineVars, proc, stopped, written, read, ended, out, outCopy, waitVars>>
  BY DEF FeedInput, lineVars, linkVars, waitVars
<1>3. TypeOK'
  <2>1. inCopy' \in [Links -> {"none", "reading", "writing", "done"}]
    BY <1>1, <1>2
    DEF IInv, TypeOK, FeedInput
  <2>2. inp' \in [Links -> 0..PipeSize]
    BY PipelineAssumption
    DEF PipelineAssumption, IInv, TypeOK, FeedInput
  <2> QED
    BY <2>1, <2>2, <1>1, <1>2 DEF IInv, TypeOK, lineVars, waitVars
<1>4. StartedInOrder'
  BY <1>1, <1>2, Indices
  DEF IInv, StartedInOrder, lineVars, waitVars
<1>5. WaitedFor'
  BY <1>1, <1>2, Indices
  DEF IInv, WaitedFor, lineVars, waitVars
<1>6. NothingIsLost'
  <2> SUFFICES ASSUME NEW k \in Links PROVE KeepsAll(k)'
    BY DEF NothingIsLost
  <2>1. KeepsAll(k) /\ k \in Commands /\ k + 1 \in Commands
    BY Indices DEF IInv, NothingIsLost
  <2>2. written[k] \in Nat /\ read[k] \in Nat /\ inp[k] \in Nat /\ out[k] \in Nat
    BY PipelineAssumption DEF PipelineAssumption, IInv, TypeOK
  <2>5. CASE k = l /\ inCopy'[l] = "reading"
    BY <2>1, <2>2, <1>1, <1>2, Indices
    DEF KeepsAll, InHand, waitVars
  <2>6. CASE k = l /\ inCopy'[l] = "done"
    BY <2>1, <2>2, <1>1, <1>2, Indices
    DEF KeepsAll, InHand, waitVars
  <2>7. CASE k # l
    BY <2>1, <2>2, <1>1, <1>2, Indices
    DEF KeepsAll, InHand, waitVars
  <2> QED
    BY <1>1, <2>5, <2>6, <2>7
<1>7. /\ WaitsLast'
      /\ ClosedAfterWait'
      /\ NoReadAfterEnd'
      /\ ReturnedLast'
      /\ FilesClosed'
      /\ EndMeansAll'
  BY <1>2
  DEF IInv, WaitsLast, ClosedAfterWait, NoReadAfterEnd, ReturnedLast, FilesClosed,
      EndMeansAll, lineVars, waitVars
<1> QED
  BY <1>3, <1>4, <1>5, <1>6, <1>7 DEF IInv

-----------------------------------------------------------------------------
(* The theorems. *)

\* Every step preserves the invariant.
LEMMA NextStep == IInv /\ [Next]_vars => IInv'
<1> SUFFICES ASSUME IInv, [Next]_vars PROVE IInv'
  OBVIOUS
<1>1. CASE UNCHANGED vars
  BY <1>1
  DEF IInv, TypeOK, StartedInOrder, WaitsLast, WaitedFor, ClosedAfterWait,
      NoReadAfterEnd, ReturnedLast, FilesClosed, NothingIsLost, KeepsAll, InHand,
      EndMeansAll, vars, lineVars, linkVars, waitVars
<1>2. CASE RunLine
  BY <1>2, OpenInputStep, InputFailsStep, OpenOutputStep, OutputFailsStep,
     StartProcessStep, StartFailsStep, AllStartedStep, ForegroundEndsStep,
     BackgroundEndsStep
  DEF RunLine
<1>3. CASE AllReported \/ StopForeground \/ StopJob \/ ResumeJob
  BY <1>3, AllReportedStep, StopForegroundStep, StopJobStep, ResumeJobStep
<1>4. ASSUME NEW i \in Commands,
             Call(i) \/ Write(i) \/ Read(i) \/ Exit(i) \/ Killed(i) \/ Wait(i)
      PROVE  IInv'
  BY <1>4, CallStep, WriteStep, ReadStep, ExitStep, KilledStep, CommandWaitedStep,
     CloseWriterStep, CloseReaderStep
  DEF Wait
<1>5. ASSUME NEW l \in Links, Copy(l) PROVE IInv'
  BY <1>5, TakeOutputStep, HandOverStep, InputEndsStep, FeedInputStep DEF Copy
<1> QED
  BY <1>1, <1>2, <1>3, <1>4, <1>5 DEF Next

\* The invariant holds in every state of RunLine and its goroutines.
THEOREM Invariance == Spec => []IInv
  BY InitIInv, NextStep, PTL DEF Spec

\* The variables keep the types that the records and goroutines of executor.go give
\* them.
THEOREM TypeCorrect == Spec => []TypeOK
<1>1. IInv => TypeOK
  BY DEF IInv
<1> QED
  BY <1>1, Invariance, PTL

\* As long as the reader of a link lives, waitProcesses and the goroutines of exec.Cmd
\* lose no chunk that the command before it has written.
THEOREM NoChunkLost == Spec => []NothingIsLost
<1>1. IInv => NothingIsLost
  BY DEF IInv
<1> QED
  BY <1>1, Invariance, PTL

\* A command that sees the end of its input has read all of it: waitProcesses closes
\* the writer of a link only after the command before it and its copy have ended.
THEOREM EndIsTheEnd == Spec => []EndMeansAll
<1>1. IInv => EndMeansAll
  BY DEF IInv
<1> QED
  BY <1>1, Invariance, PTL

\* When waitProcesses has returned no command and no goroutine is left, and a line that
\* is over leaves no file open that RunLine would close.
THEOREM LineLeavesNothing == Spec => []NothingIsLeft
<1>1. IInv => NothingIsLeft
  <2> SUFFICES ASSUME IInv PROVE NothingIsLeft
    OBVIOUS
  <2>1. ASSUME reaper \in {"returned", "completed"}, NEW i \in Commands
        PROVE  proc[i] = "exited"
    BY <2>1 DEF IInv, ReturnedLast, WaitedFor
  <2>2. ASSUME reaper \in {"returned", "completed"}, NEW l \in Links
        PROVE  outCopy[l] = "done" /\ inCopy[l] = "done"
    <3>1. wait[l] = "reported" /\ wait[l + 1] = "reported"
      BY <2>2, Indices DEF IInv, ReturnedLast
    <3> QED
      BY <3>1, Indices DEF IInv, WaitedFor
  <2> QED
    BY <2>1, <2>2 DEF IInv, FilesClosed, NothingIsLeft
<1> QED
  BY <1>1, Invariance, PTL
=============================================================================
