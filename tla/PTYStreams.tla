----------------------------- MODULE PTYStreams -----------------------------
(***************************************************************************)
(* The interactive streams of gosh-ui: PTYManager and PTYStream of         *)
(* internal/ui/pty.go with the starts of pty_linux.go and pty_windows.go.  *)
(*                                                                         *)
(* The actors are the HTTP handlers (start, stop and the event stream that *)
(* a browser reads), the program, and per stream one or two goroutines     *)
(* that copy its output, one that waits for it and one that removes it     *)
(* from the manager's map.  PTYManager.mu is held inside a step and free   *)
(* between steps; the channel messages is bounded.                         *)
(***************************************************************************)
EXTENDS Naturals, Sequences

CONSTANTS
    Sessions,    \* session ids
    MaxStreams,  \* start requests in one behaviour (bound)
    Clients,     \* browsers that may read an event stream
    Capacity,    \* capacity of the channel messages, 128 in the code
    MaxOutput,   \* chunks a program writes on one output at most (bound)
    Backends     \* what startPlatformStream can give on this machine: a pseudo
                 \* terminal of Linux, one of Windows, or the pipes of startPipeStream

ASSUME PTYAssumption ==
    /\ Sessions # {}
    /\ MaxStreams \in Nat \ {0}
    /\ Capacity \in Nat \ {0}
    /\ MaxOutput \in Nat
    /\ Backends \subseteq {"linux", "conpty", "pipes"} /\ Backends # {}

VARIABLES
    backend,    \* the one the machine has
    nextStream, \* the next start request
    streams,    \* PTYManager.streams: the stream registered for a session
    start,      \* start[s]: progress of the start request that makes stream s
    owner,      \* owner[s]: the session stream s was started for
    cancelled,  \* cancelled[s]: PTYStream.Close was called
    outClosed,  \* outClosed[s]: the file the readers read was closed
    program,    \* program[s]: the command run by the stream; "left" when it has
                \* exited but processes it has left behind hold its output open
    written,    \* written[s][r]: chunks written on output r
    taken,      \* taken[s][r]: chunks read from output r
    reader,     \* reader[s][r]: the goroutine copyStream of output r
    waiter,     \* waiter[s]: the goroutine that waits for the program
    messages,   \* messages[s]: the content of the channel
    msgClosed,  \* msgClosed[s]: the channel messages was closed
    done,       \* done[s]: the channel done was closed
    conn,       \* conn[c]: the stream client c reads, 0 for none
    received,   \* history: received[s], what the event streams took from messages
    stopping,   \* the stream a stop request has looked up, 0 for none
    overlapped  \* history: overlapped[i], two starts for session i overlapped

requestVars == <<backend, nextStream, streams, start, owner, stopping, overlapped>>
programVars == <<program, written>>
readerVars  == <<taken, reader>>
clientVars  == <<conn, received>>
vars == <<backend, nextStream, streams, start, owner, cancelled, outClosed, program,
          written, taken, reader, waiter, messages, msgClosed, done, conn, received,
          stopping, overlapped>>

Streams == 1..MaxStreams
Outputs == {1, 2}
Readers == IF backend = "pipes" THEN Outputs ELSE {1}    \* stdout and stderr, or a terminal
Chunks  == Outputs \X (1..MaxOutput)
Exit    == <<0, 0>>                       \* the message "[process exited]"

TypeOK ==
    /\ backend \in Backends
    /\ nextStream \in 1..(MaxStreams + 1)
    /\ streams \in [Sessions -> 0..MaxStreams]
    /\ start \in [Streams ->
                   {"none", "launching", "launched", "failed", "registered", "reaped"}]
    /\ owner \in [Streams -> Sessions]
    /\ cancelled \in [Streams -> BOOLEAN]
    /\ outClosed \in [Streams -> BOOLEAN]
    /\ program \in [Streams -> {"none", "running", "left", "exited"}]
    /\ written \in [Streams -> [Outputs -> 0..MaxOutput]]
    /\ taken \in [Streams -> [Outputs -> 0..MaxOutput]]
    /\ reader \in [Streams -> [Outputs ->
                    {"none", "ready", "reading", "sending", "done"}]]
    /\ waiter \in [Streams ->
                    {"none", "program", "readers", "exit", "closing", "closed",
                     "returned"}]
    /\ messages \in [Streams -> Seq(Chunks \cup {Exit})]
    /\ \A s \in Streams : Len(messages[s]) <= Capacity
    /\ msgClosed \in [Streams -> BOOLEAN]
    /\ done \in [Streams -> BOOLEAN]
    /\ conn \in [Clients -> 0..MaxStreams]
    /\ received \in [Streams -> Seq(Chunks \cup {Exit})]
    /\ stopping \in 0..MaxStreams
    /\ overlapped \in [Sessions -> BOOLEAN]

Init ==
    /\ backend \in Backends
    /\ nextStream = 1
    /\ streams = [i \in Sessions |-> 0]
    /\ start = [s \in Streams |-> "none"]
    /\ owner = [s \in Streams |-> CHOOSE i \in Sessions : TRUE]
    /\ cancelled = [s \in Streams |-> FALSE]
    /\ outClosed = [s \in Streams |-> FALSE]
    /\ program = [s \in Streams |-> "none"]
    /\ written = [s \in Streams |-> [r \in Outputs |-> 0]]
    /\ taken = [s \in Streams |-> [r \in Outputs |-> 0]]
    /\ reader = [s \in Streams |-> [r \in Outputs |-> "none"]]
    /\ waiter = [s \in Streams |-> "none"]
    /\ messages = [s \in Streams |-> <<>>]
    /\ msgClosed = [s \in Streams |-> FALSE]
    /\ done = [s \in Streams |-> FALSE]
    /\ conn = [c \in Clients |-> 0]
    /\ received = [s \in Streams |-> <<>>]
    /\ stopping = 0
    /\ overlapped = [i \in Sessions |-> FALSE]

-----------------------------------------------------------------------------
(* PTYManager.Start, in the three steps that its two critical sections make. *)

\* PTYStream.Close: the context is cancelled and the input closed, which for a
\* terminal of Linux is the file the output comes from.
Close(s) ==
    /\ cancelled' = [cancelled EXCEPT ![s] = TRUE]
    /\ outClosed' = [outClosed EXCEPT ![s] = @ \/ backend = "linux"]

\* (Names ending in Fault are plausible mistakes in the operator that follows.
\* They are not part of the specification: they show that a property can fail.)

\* The previous stream is left running.
BeginStartNoCloseFault(s, i) ==
    /\ s = nextStream
    /\ nextStream' = s + 1
    /\ start' = [start EXCEPT ![s] = "launching"]
    /\ owner' = [owner EXCEPT ![s] = i]
    /\ overlapped' = [overlapped EXCEPT ![i] =
          @ \/ \E t \in Streams : start[t] \in {"launching", "launched"} /\ owner[t] = i]
    /\ UNCHANGED <<backend, streams, cancelled, outClosed, programVars, readerVars,
                   waiter, messages, msgClosed, done, clientVars, stopping>>

\* The previous stream of the session is closed but stays in the map.
BeginStart(s, i) ==
    /\ s = nextStream
    /\ nextStream' = s + 1
    /\ start' = [start EXCEPT ![s] = "launching"]
    /\ owner' = [owner EXCEPT ![s] = i]
    /\ IF streams[i] = 0 THEN UNCHANGED <<cancelled, outClosed>>
                         ELSE Close(streams[i])
    /\ overlapped' = [overlapped EXCEPT ![i] =
          @ \/ \E t \in Streams : start[t] \in {"launching", "launched"} /\ owner[t] = i]
    /\ UNCHANGED <<backend, streams, programVars, readerVars, waiter, messages,
                   msgClosed, done, clientVars, stopping>>

\* startPlatformStream: the program and the goroutines of the stream run before
\* the stream is in the map.
Launch(s) ==
    /\ start[s] = "launching"
    /\ start' = [start EXCEPT ![s] = "launched"]
    /\ program' = [program EXCEPT ![s] = "running"]
    /\ reader' = [reader EXCEPT ![s] = [r \in Outputs |-> IF r \in Readers THEN "ready"
                                                                     ELSE "none"]]
    /\ waiter' = [waiter EXCEPT ![s] = "program"]
    /\ UNCHANGED <<backend, nextStream, streams, owner, cancelled, outClosed, written,
                   taken, messages, msgClosed, done, clientVars, stopping, overlapped>>

\* The terminal, a pipe or the program cannot be had: what was open is closed.
LaunchFails(s) ==
    /\ start[s] = "launching"
    /\ start' = [start EXCEPT ![s] = "failed"]
    /\ UNCHANGED <<backend, nextStream, streams, owner, cancelled, outClosed,
                   programVars, readerVars, waiter, messages, msgClosed, done,
                   clientVars, stopping, overlapped>>

Register(s) ==
    /\ start[s] = "launched"
    /\ start' = [start EXCEPT ![s] = "registered"]
    /\ streams' = [streams EXCEPT ![owner[s]] = s]
    /\ UNCHANGED <<backend, nextStream, owner, cancelled, outClosed, programVars,
                   readerVars, waiter, messages, msgClosed, done, clientVars, stopping,
                   overlapped>>

\* Whatever stream the session has is deleted.
ReapAnyFault(s) ==
    /\ start[s] = "registered"
    /\ done[s]
    /\ start' = [start EXCEPT ![s] = "reaped"]
    /\ streams' = [streams EXCEPT ![owner[s]] = 0]
    /\ UNCHANGED <<backend, nextStream, owner, cancelled, outClosed, programVars,
                   readerVars, waiter, messages, msgClosed, done, clientVars, stopping,
                   overlapped>>

\* The comparison with the registered stream is the wrong way round.
ReapOtherFault(s) ==
    /\ start[s] = "registered"
    /\ done[s]
    /\ start' = [start EXCEPT ![s] = "reaped"]
    /\ streams' = IF streams[owner[s]] # s THEN [streams EXCEPT ![owner[s]] = 0]
                                           ELSE streams
    /\ UNCHANGED <<backend, nextStream, owner, cancelled, outClosed, programVars,
                   readerVars, waiter, messages, msgClosed, done, clientVars, stopping,
                   overlapped>>

\* The goroutine Start leaves behind: it removes the stream when it is done, but
\* not a newer one of the same session.
Reap(s) ==
    /\ start[s] = "registered"
    /\ done[s]
    /\ start' = [start EXCEPT ![s] = "reaped"]
    /\ streams' = IF streams[owner[s]] = s THEN [streams EXCEPT ![owner[s]] = 0]
                                           ELSE streams
    /\ UNCHANGED <<backend, nextStream, owner, cancelled, outClosed, programVars,
                   readerVars, waiter, messages, msgClosed, done, clientVars, stopping,
                   overlapped>>

\* PTYManager.Stop: Get under the mutex, then Close without it.
StopLooksUp(i) ==
    /\ stopping = 0
    /\ streams[i] # 0
    /\ stopping' = streams[i]
    /\ UNCHANGED <<backend, nextStream, streams, start, owner, cancelled, outClosed,
                   programVars, readerVars, waiter, messages, msgClosed, done,
                   clientVars, overlapped>>

StopCloses ==
    /\ stopping # 0
    /\ Close(stopping)
    /\ stopping' = 0
    /\ UNCHANGED <<backend, nextStream, streams, start, owner, programVars, readerVars,
                   waiter, messages, msgClosed, done, clientVars, overlapped>>

-----------------------------------------------------------------------------
(* The program. *)

ProgramWrites(s, r) ==
    /\ program[s] \in {"running", "left"}
    /\ written[s][r] < MaxOutput
    /\ written' = [written EXCEPT ![s][r] = @ + 1]
    /\ UNCHANGED <<requestVars, cancelled, outClosed, program, readerVars, waiter,
                   messages, msgClosed, done, clientVars>>

\* The program may leave processes behind, which inherit its output: nothing in
\* the code ends them.
ProgramExits(s) ==
    /\ program[s] = "running"
    /\ \E p \in {"left", "exited"} : program' = [program EXCEPT ![s] = p]
    /\ UNCHANGED <<requestVars, cancelled, outClosed, written, readerVars, waiter,
                   messages, msgClosed, done, clientVars>>

\* The last of the processes that the program has left behind closes its output.
LeftoversEnd(s) ==
    /\ program[s] = "left"
    /\ program' = [program EXCEPT ![s] = "exited"]
    /\ UNCHANGED <<requestVars, cancelled, outClosed, written, readerVars, waiter,
                   messages, msgClosed, done, clientVars>>

\* The command is made by exec.Command, which no context ends.
KillFault(s) == FALSE

\* exec.CommandContext kills the program of a cancelled context, TerminateProcess
\* that of a Windows terminal; neither ends what the program has started.
Kill(s) == cancelled[s] /\ ProgramExits(s)

-----------------------------------------------------------------------------
(* copyStream, one goroutine per output. *)

\* A Read of a closed file fails at once.
EnterRead(s, r) ==
    /\ reader[s][r] = "ready"
    /\ reader' = [reader EXCEPT ![s][r] = IF outClosed[s] THEN "done" ELSE "reading"]
    /\ UNCHANGED <<requestVars, cancelled, outClosed, programVars, taken, waiter,
                   messages, msgClosed, done, clientVars>>

ReadData(s, r) ==
    /\ reader[s][r] = "reading"
    /\ taken[s][r] < written[s][r]
    /\ taken' = [taken EXCEPT ![s][r] = @ + 1]
    /\ reader' = [reader EXCEPT ![s][r] = "sending"]
    /\ UNCHANGED <<requestVars, cancelled, outClosed, programVars, waiter, messages,
                   msgClosed, done, clientVars>>

\* Closing a pipe wakes a blocked Read.  Closing the master of a terminal of Linux
\* does not: its Read ends when the last process that has the terminal open is gone.
\* The terminal of Windows keeps its pipe open until it is closed.
ReadEnds(s, r) ==
    /\ reader[s][r] = "reading"
    /\ \/ backend # "conpty" /\ program[s] = "exited" /\ taken[s][r] = written[s][r]
       \/ backend # "linux" /\ outClosed[s]
    /\ reader' = [reader EXCEPT ![s][r] = "done"]
    /\ UNCHANGED <<requestVars, cancelled, outClosed, programVars, taken, waiter,
                   messages, msgClosed, done, clientVars>>

\* The queue of messages grows without limit.
PutUnboundedFault(s, m) == messages' = [messages EXCEPT ![s] = Append(@, m)]

\* A full channel loses the message.
PutDropsFault(s, m) ==
    messages' = IF Len(messages[s]) < Capacity
                  THEN [messages EXCEPT ![s] = Append(@, m)]
                  ELSE messages

\* A send on the channel blocks while it is full.
Put(s, m) ==
    /\ Len(messages[s]) < Capacity
    /\ messages' = [messages EXCEPT ![s] = Append(@, m)]

Send(s, r) ==
    /\ reader[s][r] = "sending"
    /\ Put(s, <<r, taken[s][r]>>)
    /\ reader' = [reader EXCEPT ![s][r] = "ready"]
    /\ UNCHANGED <<requestVars, cancelled, outClosed, programVars, taken, waiter,
                   msgClosed, done, clientVars>>

-----------------------------------------------------------------------------
(* The goroutine that waits for the program. *)

\* The wait for the program returns and the file the readers read is closed: by
\* the goroutine for a terminal, by cmd.Wait itself for pipes.
ProgramWaited(s) ==
    /\ waiter[s] = "program"
    /\ program[s] \in {"left", "exited"}
    /\ waiter' = [waiter EXCEPT ![s] = "readers"]
    /\ outClosed' = [outClosed EXCEPT ![s] = TRUE]
    /\ UNCHANGED <<requestVars, cancelled, programVars, readerVars, messages, msgClosed,
                   done, clientVars>>

\* The Windows terminal says nothing of a program that was told to end.
AfterReaders(s) == IF backend = "conpty" /\ cancelled[s] THEN "closing" ELSE "exit"

\* The first reader to end ends the wait.
ReadersWaitedFault(s) ==
    /\ waiter[s] = "readers"
    /\ \E r \in Readers : reader[s][r] = "done"
    /\ waiter' = [waiter EXCEPT ![s] = AfterReaders(s)]
    /\ UNCHANGED <<requestVars, cancelled, outClosed, programVars, readerVars, messages,
                   msgClosed, done, clientVars>>

\* The context is tested before the send, which may block.
ReadersWaited(s) ==
    /\ waiter[s] = "readers"
    /\ \A r \in Readers : reader[s][r] = "done"
    /\ waiter' = [waiter EXCEPT ![s] = AfterReaders(s)]
    /\ UNCHANGED <<requestVars, cancelled, outClosed, programVars, readerVars, messages,
                   msgClosed, done, clientVars>>

SendExit(s) ==
    /\ waiter[s] = "exit"
    /\ Put(s, Exit)
    /\ waiter' = [waiter EXCEPT ![s] = "closing"]
    /\ UNCHANGED <<requestVars, cancelled, outClosed, programVars, readerVars, msgClosed,
                   done, clientVars>>

\* Only the channel done is closed.
CloseMessagesFault(s) ==
    /\ waiter[s] = "closing"
    /\ waiter' = [waiter EXCEPT ![s] = "closed"]
    /\ UNCHANGED <<requestVars, cancelled, outClosed, programVars, readerVars, messages,
                   msgClosed, done, clientVars>>

CloseMessages(s) ==
    /\ waiter[s] = "closing"
    /\ waiter' = [waiter EXCEPT ![s] = "closed"]
    /\ msgClosed' = [msgClosed EXCEPT ![s] = TRUE]
    /\ UNCHANGED <<requestVars, cancelled, outClosed, programVars, readerVars, messages,
                   done, clientVars>>

CloseDone(s) ==
    /\ waiter[s] = "closed"
    /\ waiter' = [waiter EXCEPT ![s] = "returned"]
    /\ done' = [done EXCEPT ![s] = TRUE]
    /\ UNCHANGED <<requestVars, cancelled, outClosed, programVars, readerVars, messages,
                   msgClosed, clientVars>>

-----------------------------------------------------------------------------
(* handlePTYStream and streamServerSentEvents, one goroutine per client. *)

Connect(c, i) ==
    /\ conn[c] = 0
    /\ streams[i] # 0
    /\ conn' = [conn EXCEPT ![c] = streams[i]]
    /\ UNCHANGED <<requestVars, cancelled, outClosed, programVars, readerVars, waiter,
                   messages, msgClosed, done, received>>

Receive(c) ==
    LET s == conn[c] IN
    /\ s # 0
    /\ messages[s] # <<>>
    /\ received' = [received EXCEPT ![s] = Append(@, Head(messages[s]))]
    /\ messages' = [messages EXCEPT ![s] = Tail(@)]
    /\ UNCHANGED <<requestVars, cancelled, outClosed, programVars, readerVars, waiter,
                   msgClosed, done, conn>>

\* A closed and drained channel: the client is sent the event "close".
SendClose(c) ==
    /\ conn[c] # 0
    /\ messages[conn[c]] = <<>>
    /\ msgClosed[conn[c]]
    /\ conn' = [conn EXCEPT ![c] = 0]
    /\ UNCHANGED <<requestVars, cancelled, outClosed, programVars, readerVars, waiter,
                   messages, msgClosed, done, received>>

\* The request's context is done: the browser has closed its EventSource.
Disconnect(c) ==
    /\ conn[c] # 0
    /\ conn' = [conn EXCEPT ![c] = 0]
    /\ UNCHANGED <<requestVars, cancelled, outClosed, programVars, readerVars, waiter,
                   messages, msgClosed, done, received>>

-----------------------------------------------------------------------------
Next ==
    \/ \E s \in Streams, i \in Sessions : BeginStart(s, i)
    \/ \E s \in Streams : Launch(s) \/ LaunchFails(s) \/ Register(s) \/ Reap(s)
    \/ \E i \in Sessions : StopLooksUp(i)
    \/ StopCloses
    \/ \E s \in Streams, r \in Readers : ProgramWrites(s, r)
    \/ \E s \in Streams : ProgramExits(s) \/ LeftoversEnd(s)
    \/ \E s \in Streams, r \in Readers :
         EnterRead(s, r) \/ ReadData(s, r) \/ ReadEnds(s, r) \/ Send(s, r)
    \/ \E s \in Streams : \/ ProgramWaited(s) \/ ReadersWaited(s) \/ SendExit(s)
                          \/ CloseMessages(s) \/ CloseDone(s)
    \/ \E c \in Clients, i \in Sessions : Connect(c, i)
    \/ \E c \in Clients : Receive(c) \/ SendClose(c) \/ Disconnect(c)

Spec == Init /\ [][Next]_vars

\* Goroutines that can run do run, and the kernel delivers the kill of a
\* cancelled command.  Programs, users and browsers are free to do nothing.
Fairness ==
    /\ \A s \in Streams :
         /\ WF_vars(Launch(s) \/ LaunchFails(s))
         /\ WF_vars(Register(s))
         /\ WF_vars(Reap(s))
         /\ WF_vars(Kill(s))
         /\ \A r \in Outputs : WF_vars(EnterRead(s, r) \/ ReadData(s, r)
                                         \/ ReadEnds(s, r) \/ Send(s, r))
         /\ WF_vars(ProgramWaited(s) \/ ReadersWaited(s) \/ SendExit(s)
                      \/ CloseMessages(s) \/ CloseDone(s))
    /\ \A c \in Clients : WF_vars(Receive(c) \/ SendClose(c))

FairSpec == Spec /\ Fairness

-----------------------------------------------------------------------------
(* Properties. *)

\* No goroutine will still send on messages once it is closed: a send on a closed
\* channel panics and takes the whole server down.
NoSendAfterClose ==
    \A s \in Streams : msgClosed[s] =>
        /\ \A r \in Readers : reader[s][r] = "done"
        /\ waiter[s] \in {"closed", "returned"}

\* A session loses its registered stream only to a newer one or because the
\* stream is done: the reaper of an old stream leaves its successor alone.
RegisteredUntilDone ==
    [][\A i \in Sessions : \A s \in Streams :
         streams[i] = s /\ streams'[i] # s
            => done[s] \/ (streams'[i] # 0 /\ start[streams'[i]] = "launched")]_vars

\* A started stream that nobody closed and whose program may run on is the one
\* that stop and input reach, unless two starts of its session overlapped.
LiveStreamIsReachable ==
    \A s \in Streams :
        start[s] = "registered" /\ ~cancelled[s] /\ ~done[s] /\ ~overlapped[owner[s]]
            => streams[owner[s]] = s

\* Within each output the event streams take the chunks in the order in which
\* they were written, none twice and none left out, and the exit message last.
OutputInOrder ==
    \A s \in Streams :
        LET all == received[s] \o messages[s] IN
        \A m, n \in DOMAIN all : m < n =>
            /\ all[m] # Exit
            /\ all[m][1] = all[n][1] => all[m][2] < all[n][2]
            /\ all[n][1] # 0 /\ all[n][2] > 1 =>
                 \E k \in DOMAIN all : k < n /\ all[k] = <<all[n][1], all[n][2] - 1>>

\* What the program has left behind still has its terminal open: only the program
\* is killed, and closing the master does not end a Read of it.
HeldOpen(s) == backend = "linux" /\ program[s] = "left"

\* A closed stream ends as long as a client stays with it, and as soon as nothing that
\* its program has left behind holds a terminal of Linux open.
ClosedStreamEnds ==
    \A c \in Clients, s \in Streams :
        cancelled[s] /\ ~HeldOpen(s) ~> done[s] \/ HeldOpen(s) \/ conn[c] # s

\* A client that stays connected to a stream that has ended is sent "close".
ClientSeesClose ==
    \A c \in Clients, s \in Streams : done[s] /\ conn[c] = s ~> conn[c] # s

\* A stream that is done does not stay registered.
DoneStreamIsRemoved ==
    \A s \in Streams : done[s] ~> \A i \in Sessions : streams[i] # s
=============================================================================
