-------------------------- MODULE PTYStreamsProofs --------------------------
(***************************************************************************)
(* Machine-checked proofs about PTYStreams, for every backend, any number  *)
(* of sessions, start requests and browsers, any output and any capacity   *)
(* of the channel.                                                         *)
(***************************************************************************)
EXTENDS PTYStreams, SequenceTheorems, TLAPS

(***************************************************************************)
(* The inductive invariant: how far the goroutines of a stream are, what   *)
(* the manager's map says, and what has gone through the channel.          *)
(***************************************************************************)
Starting(s) == start[s] \in {"launching", "launched"}

\* The goroutine that waits closes the channels one after the other, when the
\* readers have ended.
Stages ==
    \A s \in Streams :
        /\ s >= nextStream <=> start[s] = "none"
        /\ start[s] \in {"none", "launching", "failed"} => waiter[s] = "none"
        /\ waiter[s] = "none" => \A r \in Outputs : reader[s][r] = "none"
        /\ waiter[s] \in {"exit", "closing", "closed", "returned"}
             => \A r \in Readers : reader[s][r] = "done"
        /\ msgClosed[s] <=> waiter[s] \in {"closed", "returned"}
        /\ done[s] <=> waiter[s] = "returned"
        /\ \A r \in Outputs : reader[s][r] = "sending" => taken[s][r] > 0

RegisteredAreOwn ==
    \A i \in Sessions :
        streams[i] # 0 => start[streams[i]] = "registered" /\ owner[streams[i]] = i

\* A start that overlaps no other one has closed the stream that was there.
StartsReplace ==
    \A s, t \in Streams :
        Starting(t) /\ s # t /\ owner[s] = owner[t] /\ ~overlapped[owner[t]]
            => ~Starting(s) /\ (start[s] = "registered" => cancelled[s] \/ done[s])

\* What went into the channel of a stream: what was taken out, and what is in it.
Traffic(s) == received[s] \o messages[s]

SentChunks(s, r) ==
    IF reader[s][r] = "sending" THEN taken[s][r] - 1 ELSE taken[s][r]

ExitIsSent(s) == waiter[s] \in {"closing", "closed", "returned"}

\* Exactly the chunks the readers have sent are in the traffic, and the exit
\* message is there only when the wait is over.
IsAccounted(all, s) ==
    /\ \A k \in DOMAIN all :
         \/ all[k] = Exit /\ ExitIsSent(s)
         \/ all[k] \in Chunks /\ all[k][2] <= SentChunks(s, all[k][1])
    /\ \A r \in Outputs : \A c \in 1..SentChunks(s, r) :
         \E k \in DOMAIN all : all[k] = <<r, c>>

\* OutputInOrder, of one stream.
IsInOrder(all) ==
    \A m, n \in DOMAIN all : m < n =>
        /\ all[m] # Exit
        /\ all[m][1] = all[n][1] => all[m][2] < all[n][2]
        /\ all[n][1] # 0 /\ all[n][2] > 1 =>
             \E k \in DOMAIN all : k < n /\ all[k] = <<all[n][1], all[n][2] - 1>>

TrafficFits ==
    \A s \in Streams : IsAccounted(Traffic(s), s) /\ IsInOrder(Traffic(s))

Registration == RegisteredAreOwn /\ StartsReplace /\ LiveStreamIsReachable

IInv == TypeOK /\ Stages /\ Registration /\ TrafficFits

-----------------------------------------------------------------------------
(* What the parts of the invariant depend on. *)

\* The exit message is no chunk.
LEMMA ExitIsNoChunk ==
    /\ Exit \notin Chunks
    /\ Exit[1] = 0 /\ Exit[2] = 0
    /\ \A chunk \in Chunks :
         /\ chunk[1] \in Outputs /\ chunk[1] # 0
         /\ chunk[2] \in 1..MaxOutput /\ chunk[2] \in Nat
         /\ chunk = <<chunk[1], chunk[2]>>
BY PTYAssumption DEF Exit, Chunks, Outputs

\* A message that is put into the channel comes at the end of the traffic.
LEMMA PutExtendsTraffic ==
    ASSUME NEW S, NEW before \in Seq(S), NEW queue \in Seq(S), NEW m \in S
    PROVE  before \o Append(queue, m) = Append(before \o queue, m)
<1>1. Append(queue, m) = queue \o <<m>> /\ <<m>> \in Seq(S)
  BY AppendIsConcat
<1>2. before \o (queue \o <<m>>) = (before \o queue) \o <<m>>
  BY <1>1, ConcatAssociative
<1>3. before \o queue \in Seq(S)
  BY ConcatProperties
<1>4. Append(before \o queue, m) = (before \o queue) \o <<m>>
  BY <1>3, AppendIsConcat
<1> QED  BY <1>1, <1>2, <1>4

\* A message that is received moves within the traffic.
LEMMA ReceiveKeepsTraffic ==
    ASSUME NEW S, NEW before \in Seq(S), NEW queue \in Seq(S), queue # <<>>
    PROVE  Append(before, Head(queue)) \o Tail(queue) = before \o queue
<1>1. Head(queue) \in S /\ Tail(queue) \in Seq(S) /\ <<Head(queue)>> \in Seq(S)
  BY HeadTailProperties
<1>2. Append(before, Head(queue)) = before \o <<Head(queue)>>
  BY <1>1, AppendIsConcat
<1>3. (before \o <<Head(queue)>>) \o Tail(queue)
        = before \o (<<Head(queue)>> \o Tail(queue))
  BY <1>1, ConcatAssociative
<1>4. <<Head(queue)>> \o Tail(queue) = queue
  <2> DEFINE whole == <<Head(queue)>> \o Tail(queue)
  <2>1. /\ Len(queue) \in Nat \ {0} /\ Len(Tail(queue)) = Len(queue) - 1
        /\ \A i \in 1..(Len(queue) - 1) : Tail(queue)[i] = queue[i + 1]
        /\ Head(queue) = queue[1]
    BY HeadTailProperties, EmptySeq
  <2>2. Len(<<Head(queue)>>) = 1 /\ <<Head(queue)>>[1] = queue[1]
    BY <2>1
  <2>3. /\ whole \in Seq(S) /\ Len(whole) = 1 + (Len(queue) - 1)
        /\ \A i \in 1..(1 + (Len(queue) - 1)) :
             whole[i] = IF i <= 1 THEN <<Head(queue)>>[i] ELSE Tail(queue)[i - 1]
    BY <1>1, <2>1, <2>2, ConcatProperties
  <2> HIDE DEF whole
  <2>4. Len(whole) = Len(queue) /\ \A i \in 1..Len(whole) : whole[i] = queue[i]
    BY <2>1, <2>2, <2>3
  <2> QED  BY <2>3, <2>4, SeqEqual DEF whole
<1> QED  BY <1>2, <1>3, <1>4

\* The traffic of a stream fits as long as it stays, no chunk is sent without it,
\* and no sent exit message is forgotten.
LEMMA StreamKept ==
    ASSUME NEW s \in Streams, IsAccounted(Traffic(s), s), IsInOrder(Traffic(s)),
           Traffic(s)' = Traffic(s),
           \A r \in Outputs : SentChunks(s, r)' = SentChunks(s, r),
           ExitIsSent(s) => ExitIsSent(s)'
    PROVE  (IsAccounted(Traffic(s), s) /\ IsInOrder(Traffic(s)))'
<1> DEFINE all == Traffic(s)
<1>1. IsAccounted(all, s) /\ IsInOrder(all) /\ all' = all
  OBVIOUS
<1> HIDE DEF all
<1>2. IsAccounted(all, s)'
  <2>1. ASSUME NEW k \in DOMAIN all
        PROVE  \/ all[k] = Exit /\ ExitIsSent(s)'
               \/ all[k] \in Chunks /\ all[k][2] <= SentChunks(s, all[k][1])'
    <3>1. CASE all[k] = Exit /\ ExitIsSent(s)
      BY <3>1
    <3>2. CASE all[k] \in Chunks /\ all[k][2] <= SentChunks(s, all[k][1])
      BY <1>1, <3>2, ExitIsNoChunk
    <3> QED  BY <1>1, <3>1, <3>2 DEF IsAccounted
  <2>2. \A r \in Outputs : \A c \in 1..(SentChunks(s, r)') :
          \E k \in DOMAIN all : all[k] = <<r, c>>
    BY <1>1 DEF IsAccounted
  <2> QED  BY <1>1, <2>1, <2>2 DEF IsAccounted
<1> QED  BY <1>1, <1>2 DEF all

\* The same of all streams.
LEMMA TrafficKept ==
    ASSUME TrafficFits,
           \A s \in Streams : Traffic(s)' = Traffic(s),
           \A s \in Streams, r \in Outputs : SentChunks(s, r)' = SentChunks(s, r),
           \A s \in Streams : ExitIsSent(s) => ExitIsSent(s)'
    PROVE  TrafficFits'
BY StreamKept DEF TrafficFits

\* The map fits as long as it and the starts stay: streams are only ever closed, and
\* done once and for all.
LEMMA RegistrationKept ==
    ASSUME Registration, UNCHANGED <<streams, start, owner, overlapped>>,
           \A s \in Streams : (cancelled[s] => cancelled'[s]) /\ (done[s] => done'[s])
    PROVE  Registration'
BY DEF Registration, RegisteredAreOwn, StartsReplace, Starting, LiveStreamIsReachable

-----------------------------------------------------------------------------
(* The steps. *)

\* Init starts in the invariant: no stream was asked for.
LEMMA InitIInv == Init => IInv
<1> SUFFICES ASSUME Init PROVE IInv
  OBVIOUS
<1>1. <<>> \in Seq(Chunks \cup {Exit}) /\ Len(<<>>) = 0
  BY EmptySeq
<1>2. TypeOK
  <2>1. (CHOOSE i \in Sessions : TRUE) \in Sessions
    BY PTYAssumption
  <2>2. /\ 0 \in 0..MaxOutput /\ 0 \in 0..MaxStreams /\ 1 \in 1..(MaxStreams + 1)
        /\ 0 <= Capacity
    BY PTYAssumption
  <2>3. /\ messages \in [Streams -> Seq(Chunks \cup {Exit})]
        /\ received \in [Streams -> Seq(Chunks \cup {Exit})]
        /\ \A s \in Streams : Len(messages[s]) <= Capacity
    BY <1>1, <2>2 DEF Init
  <2>4. /\ written \in [Streams -> [Outputs -> 0..MaxOutput]]
        /\ taken \in [Streams -> [Outputs -> 0..MaxOutput]]
        /\ reader \in [Streams -> [Outputs ->
                          {"none", "ready", "reading", "sending", "done"}]]
    BY <2>2 DEF Init
  <2> QED  BY <2>1, <2>2, <2>3, <2>4 DEF Init, TypeOK
<1>3. Stages
  BY PTYAssumption DEF Init, Stages, Streams
<1>4. Registration
  BY DEF Init, Registration, RegisteredAreOwn, StartsReplace, Starting, LiveStreamIsReachable
<1>5. TrafficFits
  <2> SUFFICES ASSUME NEW s \in Streams
               PROVE  IsAccounted(Traffic(s), s) /\ IsInOrder(Traffic(s))
    BY DEF TrafficFits
  <2>1. Traffic(s) = <<>> \o <<>>
    BY DEF Init, Traffic
  <2>2. <<>> \o <<>> = <<>>
    BY <1>1, ConcatEmptySeq
  <2>3. DOMAIN Traffic(s) = {}
    BY <2>1, <2>2
  <2>4. \A r \in Outputs : SentChunks(s, r) = 0
    BY DEF Init, SentChunks
  <2> QED  BY <2>3, <2>4 DEF IsAccounted, IsInOrder
<1> QED  BY <1>2, <1>3, <1>4, <1>5 DEF IInv

\* A step that leaves the readers and the channel, and takes back no exit message.
LEMMA TrafficUnchanged ==
    ASSUME TrafficFits, UNCHANGED <<taken, reader, messages, received>>,
           \A s \in Streams : ExitIsSent(s) => ExitIsSent(s)'
    PROVE  TrafficFits'
<1>1. \A s \in Streams : Traffic(s)' = Traffic(s)
  BY DEF Traffic
<1>2. \A s \in Streams, r \in Outputs : SentChunks(s, r)' = SentChunks(s, r)
  BY DEF SentChunks
<1> QED  BY <1>1, <1>2, TrafficKept

\* A start request closes the stream of its session, which thus is no live one.
LEMMA BeginStartStep ==
    ASSUME IInv, NEW s \in Streams, NEW i \in Sessions, BeginStart(s, i)
    PROVE  IInv'
<1>1. /\ s = nextStream /\ nextStream' = s + 1
      /\ start' = [start EXCEPT ![s] = "launching"]
      /\ owner' = [owner EXCEPT ![s] = i]
      /\ overlapped' = [overlapped EXCEPT ![i] =
             @ \/ \E t \in Streams : start[t] \in {"launching", "launched"} /\ owner[t] = i]
      /\ UNCHANGED <<backend, streams, programVars, readerVars, waiter, messages,
                     msgClosed, done, clientVars, stopping>>
  BY DEF BeginStart
<1>2. /\ cancelled' \in [Streams -> BOOLEAN] /\ outClosed' \in [Streams -> BOOLEAN]
      /\ \A t \in Streams : cancelled[t] => cancelled'[t]
      /\ streams[i] # 0 => cancelled'[streams[i]]
  <2>1. CASE streams[i] = 0
    BY <2>1 DEF BeginStart, IInv, TypeOK
  <2>2. CASE streams[i] # 0
    <3>1. streams[i] \in Streams
      BY <2>2 DEF IInv, TypeOK, Streams
    <3> QED  BY <2>2, <3>1 DEF BeginStart, Close, IInv, TypeOK
  <2> QED  BY <2>1, <2>2
<1>3. start[s] = "none"
  BY <1>1 DEF IInv, Stages, Streams
<1>4. /\ \A t \in Streams : start'[t] = IF t = s THEN "launching" ELSE start[t]
      /\ \A t \in Streams : owner'[t] = IF t = s THEN i ELSE owner[t]
      /\ \A j \in Sessions : overlapped[j] => overlapped'[j]
      /\ ~overlapped'[i] => ~overlapped[i] /\ \A t \in Streams : ~(Starting(t) /\ owner[t] = i)
      /\ \A j \in Sessions : j # i => overlapped'[j] = overlapped[j]
  BY <1>1 DEF IInv, TypeOK, Starting
<1>5. TypeOK'
  <2>1. overlapped' \in [Sessions -> BOOLEAN]
    BY <1>1 DEF IInv, TypeOK
  <2>2. nextStream' \in 1..(MaxStreams + 1)
    BY <1>1, PTYAssumption DEF Streams
  <2> QED  BY <1>1, <1>2, <2>1, <2>2 DEF IInv, TypeOK, programVars, readerVars, clientVars
<1>6. Stages'
  BY <1>1, <1>3, <1>4 DEF IInv, Stages, Streams, Readers, readerVars
<1>7. Registration'
  <2>1. RegisteredAreOwn'
    BY <1>1, <1>3, <1>4 DEF IInv, TypeOK, Registration, RegisteredAreOwn, Streams
  <2>2. LiveStreamIsReachable'
    BY <1>1, <1>2, <1>4 DEF IInv, TypeOK, Registration, LiveStreamIsReachable
  <2>3. StartsReplace'
    <3> SUFFICES ASSUME NEW u \in Streams, NEW t \in Streams, Starting(t)', u # t,
                        owner'[u] = owner'[t], ~overlapped'[owner'[t]]
                 PROVE  /\ ~Starting(u)'
                        /\ start'[u] = "registered" => cancelled'[u] \/ done'[u]
      BY DEF StartsReplace
    <3>1. CASE owner'[t] # i
      <4>1. u # s /\ t # s
        BY <1>4, <3>1
      <4>2. Starting(t) /\ owner[u] = owner[t] /\ ~overlapped[owner[t]]
        BY <1>4, <3>1, <4>1 DEF Starting, IInv, TypeOK
      <4>3. ~Starting(u) /\ (start[u] = "registered" => cancelled[u] \/ done[u])
        BY <4>2 DEF IInv, Registration, StartsReplace
      <4> QED  BY <1>1, <1>2, <1>4, <4>1, <4>3 DEF Starting
    <3>2. CASE owner'[t] = i
      <4>1. ~overlapped[i] /\ \A v \in Streams : ~(Starting(v) /\ owner[v] = i)
        BY <1>4, <3>2
      <4>2. t = s
        BY <1>4, <3>2, <4>1 DEF Starting
      <4>3. u # s /\ owner[u] = i /\ ~Starting(u)
        BY <1>4, <3>2, <4>1, <4>2
      <4>4. start[u] = "registered" /\ ~cancelled[u] /\ ~done[u] => streams[i] = u
        BY <4>1, <4>3 DEF IInv, Registration, LiveStreamIsReachable
      <4>5. u # 0
        BY DEF Streams
      <4> QED  BY <1>1, <1>2, <1>4, <4>3, <4>4, <4>5 DEF Starting
    <3> QED  BY <3>1, <3>2
  <2> QED  BY <2>1, <2>2, <2>3 DEF Registration
<1>8. TrafficFits'
  BY <1>1, TrafficUnchanged DEF IInv, readerVars, clientVars, ExitIsSent
<1> QED  BY <1>5, <1>6, <1>7, <1>8 DEF IInv

\* The goroutines of a stream start where they begin.
LEMMA LaunchStep ==
    ASSUME IInv, NEW s \in Streams, Launch(s)
    PROVE  IInv'
<1>1. /\ start[s] = "launching"
      /\ start' = [start EXCEPT ![s] = "launched"]
      /\ program' = [program EXCEPT ![s] = "running"]
      /\ reader' = [reader EXCEPT ![s] =
                       [r \in Outputs |-> IF r \in Readers THEN "ready" ELSE "none"]]
      /\ waiter' = [waiter EXCEPT ![s] = "program"]
      /\ UNCHANGED <<backend, nextStream, streams, owner, cancelled, outClosed, written,
                     taken, messages, msgClosed, done, clientVars, stopping, overlapped>>
  BY DEF Launch
<1>2. /\ \A t \in Streams : start'[t] = IF t = s THEN "launched" ELSE start[t]
      /\ \A t \in Streams : waiter'[t] = IF t = s THEN "program" ELSE waiter[t]
      /\ \A t \in Streams \ {s} : reader'[t] = reader[t]
      /\ \A r \in Outputs : reader'[s][r] \in {"ready", "none"}
  BY <1>1 DEF IInv, TypeOK
<1>3. waiter[s] = "none" /\ \A r \in Outputs : reader[s][r] = "none"
  BY <1>1 DEF IInv, Stages
<1>4. TypeOK'
  BY <1>1 DEF IInv, TypeOK, clientVars
<1>5. Stages'
  BY <1>1, <1>2, <1>3 DEF IInv, Stages, Readers
<1>6. Registration'
  BY <1>1, <1>2 DEF IInv, TypeOK, Streams, Registration, RegisteredAreOwn, StartsReplace,
       Starting, LiveStreamIsReachable
<1>7. TrafficFits'
  <2>1. \A t \in Streams : Traffic(t)' = Traffic(t)
    BY <1>1 DEF Traffic, clientVars
  <2>2. \A t \in Streams, r \in Outputs : SentChunks(t, r)' = SentChunks(t, r)
    BY <1>1, <1>2, <1>3 DEF SentChunks
  <2>3. \A t \in Streams : ExitIsSent(t) => ExitIsSent(t)'
    BY <1>2, <1>3 DEF ExitIsSent
  <2> QED  BY <2>1, <2>2, <2>3, TrafficKept DEF IInv
<1> QED  BY <1>4, <1>5, <1>6, <1>7 DEF IInv

\* A start that fails leaves a stream that never was.
LEMMA LaunchFailsStep ==
    ASSUME IInv, NEW s \in Streams, LaunchFails(s)
    PROVE  IInv'
<1>1. /\ start[s] = "launching"
      /\ start' = [start EXCEPT ![s] = "failed"]
      /\ UNCHANGED <<backend, nextStream, streams, owner, cancelled, outClosed,
                     programVars, readerVars, waiter, messages, msgClosed, done,
                     clientVars, stopping, overlapped>>
  BY DEF LaunchFails
<1>2. \A t \in Streams : start'[t] = IF t = s THEN "failed" ELSE start[t]
  BY <1>1 DEF IInv, TypeOK
<1>3. TypeOK'
  BY <1>1 DEF IInv, TypeOK, programVars, readerVars, clientVars
<1>4. Stages'
  BY <1>1, <1>2 DEF IInv, Stages, Readers, readerVars
<1>5. Registration'
  BY <1>1, <1>2 DEF IInv, TypeOK, Streams, Registration, RegisteredAreOwn, StartsReplace,
       Starting, LiveStreamIsReachable
<1>6. TrafficFits'
  BY <1>1, TrafficUnchanged DEF IInv, readerVars, clientVars, ExitIsSent
<1> QED  BY <1>3, <1>4, <1>5, <1>6 DEF IInv

\* The stream that is registered replaces only streams that are closed or done,
\* unless another start of the session overlapped.
LEMMA RegisterStep ==
    ASSUME IInv, NEW s \in Streams, Register(s)
    PROVE  IInv'
<1>1. /\ start[s] = "launched"
      /\ start' = [start EXCEPT ![s] = "registered"]
      /\ streams' = [streams EXCEPT ![owner[s]] = s]
      /\ UNCHANGED <<backend, nextStream, owner, cancelled, outClosed, programVars,
                     readerVars, waiter, messages, msgClosed, done, clientVars, stopping,
                     overlapped>>
  BY DEF Register
<1>2. /\ \A t \in Streams : start'[t] = IF t = s THEN "registered" ELSE start[t]
      /\ owner[s] \in Sessions /\ s # 0
      /\ \A i \in Sessions : streams'[i] = IF i = owner[s] THEN s ELSE streams[i]
  <2>1. /\ start \in [Streams -> {"none", "launching", "launched", "failed", "registered",
                                  "reaped"}]
        /\ streams \in [Sessions -> 0..MaxStreams] /\ owner \in [Streams -> Sessions]
    BY DEF IInv, TypeOK
  <2>2. s # 0
    BY DEF Streams
  <2> QED  BY <1>1, <2>1, <2>2
<1>3. TypeOK'
  <2>1. streams' \in [Sessions -> 0..MaxStreams]
    BY <1>1, <1>2, PTYAssumption DEF IInv, TypeOK, Streams
  <2> QED  BY <1>1, <2>1 DEF IInv, TypeOK, programVars, readerVars, clientVars
<1>4. Stages'
  BY <1>1, <1>2 DEF IInv, Stages, Readers, readerVars
<1>5. Registration'
  <2>1. RegisteredAreOwn'
    BY <1>1, <1>2 DEF IInv, TypeOK, Streams, Registration, RegisteredAreOwn
  <2>2. StartsReplace'
    BY <1>1, <1>2 DEF IInv, TypeOK, Registration, StartsReplace, Starting
  <2>3. LiveStreamIsReachable'
    BY <1>1, <1>2 DEF IInv, TypeOK, Registration, StartsReplace, Starting,
         LiveStreamIsReachable
  <2> QED  BY <2>1, <2>2, <2>3 DEF Registration
<1>6. TrafficFits'
  BY <1>1, TrafficUnchanged DEF IInv, readerVars, clientVars, ExitIsSent
<1> QED  BY <1>3, <1>4, <1>5, <1>6 DEF IInv

\* The goroutine that removes a stream finds itself or a newer one.
LEMMA ReapStep ==
    ASSUME IInv, NEW s \in Streams, Reap(s)
    PROVE  IInv'
<1>1. /\ start[s] = "registered" /\ done[s]
      /\ start' = [start EXCEPT ![s] = "reaped"]
      /\ streams' = IF streams[owner[s]] = s THEN [streams EXCEPT ![owner[s]] = 0]
                                             ELSE streams
      /\ UNCHANGED <<backend, nextStream, owner, cancelled, outClosed, programVars,
                     readerVars, waiter, messages, msgClosed, done, clientVars, stopping,
                     overlapped>>
  BY DEF Reap
<1>2. /\ \A t \in Streams : start'[t] = IF t = s THEN "reaped" ELSE start[t]
      /\ \A i \in Sessions :
           streams'[i] = IF i = owner[s] /\ streams[i] = s THEN 0 ELSE streams[i]
  BY <1>1 DEF IInv, TypeOK
<1>3. TypeOK'
  <2>1. streams' \in [Sessions -> 0..MaxStreams]
    BY <1>1, PTYAssumption DEF IInv, TypeOK
  <2> QED  BY <1>1, <2>1 DEF IInv, TypeOK, programVars, readerVars, clientVars
<1>4. Stages'
  BY <1>1, <1>2 DEF IInv, Stages, Readers, readerVars
<1>5. Registration'
  <2>1. RegisteredAreOwn'
    BY <1>1, <1>2 DEF IInv, TypeOK, Streams, Registration, RegisteredAreOwn
  <2>2. StartsReplace'
    BY <1>1, <1>2 DEF IInv, TypeOK, Registration, StartsReplace, Starting
  <2>3. LiveStreamIsReachable'
    BY <1>1, <1>2 DEF IInv, TypeOK, Registration, LiveStreamIsReachable
  <2> QED  BY <2>1, <2>2, <2>3 DEF Registration
<1>6. TrafficFits'
  BY <1>1, TrafficUnchanged DEF IInv, readerVars, clientVars, ExitIsSent
<1> QED  BY <1>3, <1>4, <1>5, <1>6 DEF IInv

\* A step of the program, a stop or a browser that takes no message.
LEMMA AsideKeepsIInv ==
    ASSUME IInv, TypeOK',
           UNCHANGED <<backend, nextStream, streams, start, owner, overlapped, taken,
                       reader, waiter, messages, msgClosed, done, received>>,
           \A s \in Streams : cancelled[s] => cancelled'[s]
    PROVE  IInv'
<1>1. Stages'
  BY DEF IInv, Stages, Readers
<1>2. Registration'
  BY RegistrationKept DEF IInv
<1>3. TrafficFits'
  BY TrafficUnchanged DEF IInv, ExitIsSent
<1> QED  BY <1>1, <1>2, <1>3 DEF IInv

\* A stop looks up a stream and then closes it.
LEMMA StopStep ==
    ASSUME IInv, (\E i \in Sessions : StopLooksUp(i)) \/ StopCloses
    PROVE  IInv'
<1>1. CASE \E i \in Sessions : StopLooksUp(i)
  <2>1. TypeOK'
    BY <1>1 DEF StopLooksUp, IInv, TypeOK, programVars, readerVars, clientVars
  <2> QED  BY <1>1, <2>1, AsideKeepsIInv DEF StopLooksUp, readerVars, clientVars
<1>2. CASE StopCloses
  <2>1. stopping \in Streams
    BY <1>2 DEF StopCloses, IInv, TypeOK, Streams
  <2>2. /\ cancelled' = [cancelled EXCEPT ![stopping] = TRUE]
        /\ outClosed' = [outClosed EXCEPT ![stopping] = @ \/ backend = "linux"]
        /\ stopping' = 0
        /\ UNCHANGED <<backend, nextStream, streams, start, owner, programVars,
                       readerVars, waiter, messages, msgClosed, done, clientVars,
                       overlapped>>
    BY <1>2 DEF StopCloses, Close
  <2>3. TypeOK'
    <3>1. /\ cancelled' \in [Streams -> BOOLEAN]
          /\ outClosed' \in [Streams -> BOOLEAN]
      BY <2>1, <2>2 DEF IInv, TypeOK
    <3>2. 0 \in 0..MaxStreams
      BY PTYAssumption
    <3> QED  BY <2>2, <3>1, <3>2 DEF IInv, TypeOK, programVars, readerVars, clientVars
  <2>4. \A s \in Streams : cancelled[s] => cancelled'[s]
    BY <2>2 DEF IInv, TypeOK
  <2> QED  BY <2>2, <2>3, <2>4, AsideKeepsIInv DEF readerVars, clientVars
<1> QED  BY <1>1, <1>2

\* The program writes or exits, or the last process it has left behind ends.
LEMMA ProgramStep ==
    ASSUME IInv, NEW s \in Streams,
           (\E r \in Readers : ProgramWrites(s, r)) \/ ProgramExits(s) \/ LeftoversEnd(s)
    PROVE  IInv'
<1>1. CASE \E r \in Readers : ProgramWrites(s, r)
  <2>1. PICK r \in Outputs : ProgramWrites(s, r)
    BY <1>1 DEF Readers, Outputs
  <2>2. written' \in [Streams -> [Outputs -> 0..MaxOutput]]
    <3>1. written[s][r] + 1 \in 0..MaxOutput
      BY <2>1, PTYAssumption DEF ProgramWrites, IInv, TypeOK
    <3> QED  BY <2>1, <3>1 DEF ProgramWrites, IInv, TypeOK
  <2>3. TypeOK'
    BY <2>1, <2>2 DEF ProgramWrites, IInv, TypeOK, requestVars, readerVars, clientVars
  <2> QED  BY <2>1, <2>3, AsideKeepsIInv DEF ProgramWrites, requestVars, readerVars,
             clientVars
<1>2. CASE ProgramExits(s) \/ LeftoversEnd(s)
  <2>1. program' \in [Streams -> {"none", "running", "left", "exited"}]
    <3>1. program \in [Streams -> {"none", "running", "left", "exited"}]
      BY DEF IInv, TypeOK
    <3>2. PICK p \in {"left", "exited"} : program' = [program EXCEPT ![s] = p]
      BY <1>2 DEF ProgramExits, LeftoversEnd
    <3> QED  BY <3>1, <3>2
  <2>2. UNCHANGED <<requestVars, cancelled, outClosed, written, readerVars, waiter,
                    messages, msgClosed, done, clientVars>>
    BY <1>2 DEF ProgramExits, LeftoversEnd
  <2>3. TypeOK'
    BY <2>1, <2>2 DEF IInv, TypeOK, requestVars, readerVars, clientVars
  <2> QED  BY <2>2, <2>3, AsideKeepsIInv DEF requestVars, readerVars, clientVars
<1> QED  BY <1>1, <1>2

\* A browser connects, is told of the end, or goes away.
LEMMA BrowserStep ==
    ASSUME IInv, NEW c \in Clients,
           (\E i \in Sessions : Connect(c, i)) \/ SendClose(c) \/ Disconnect(c)
    PROVE  IInv'
<1>1. 0 \in 0..MaxStreams
  BY PTYAssumption
<1>2. CASE \E i \in Sessions : Connect(c, i)
  <2>1. TypeOK'
    BY <1>2 DEF Connect, IInv, TypeOK, requestVars, programVars, readerVars
  <2> QED  BY <1>2, <2>1, AsideKeepsIInv DEF Connect, requestVars, readerVars
<1>3. CASE SendClose(c) \/ Disconnect(c)
  <2>1. TypeOK'
    BY <1>1, <1>3 DEF SendClose, Disconnect, IInv, TypeOK, requestVars, programVars,
         readerVars
  <2> QED  BY <1>3, <2>1, AsideKeepsIInv DEF SendClose, Disconnect, requestVars, readerVars
<1> QED  BY <1>2, <1>3

\* A browser's goroutine takes a message out of the channel.
LEMMA ReceiveStep ==
    ASSUME IInv, NEW c \in Clients, Receive(c)
    PROVE  IInv'
<1> DEFINE s == conn[c]
           S == Chunks \cup {Exit}
<1>1. /\ s # 0 /\ messages[s] # <<>>
      /\ received' = [received EXCEPT ![s] = Append(received[s], Head(messages[s]))]
      /\ messages' = [messages EXCEPT ![s] = Tail(messages[s])]
      /\ UNCHANGED <<requestVars, cancelled, outClosed, programVars, readerVars, waiter,
                     msgClosed, done, conn>>
  BY DEF Receive
<1>2. s \in Streams
  BY <1>1 DEF IInv, TypeOK, Streams
<1> HIDE DEF S
<1>3. messages[s] \in Seq(S) /\ received[s] \in Seq(S) /\ Len(messages[s]) <= Capacity
  BY <1>2 DEF S, IInv, TypeOK
<1>4. /\ Head(messages[s]) \in S
      /\ Tail(messages[s]) \in Seq(S)
      /\ Len(Tail(messages[s])) = Len(messages[s]) - 1
      /\ Len(messages[s]) \in Nat
  BY <1>1, <1>3, HeadTailProperties
<1>5. Append(received[s], Head(messages[s])) \in Seq(S)
  BY <1>3, <1>4, AppendProperties
<1> HIDE DEF s
<1>6. TypeOK'
  <2>1. messages' \in [Streams -> Seq(S)] /\ received' \in [Streams -> Seq(S)]
    BY <1>1, <1>2, <1>4, <1>5 DEF S, IInv, TypeOK
  <2>2. \A t \in Streams : Len(messages'[t]) <= Capacity
    BY <1>1, <1>2, <1>3, <1>4, PTYAssumption DEF IInv, TypeOK
  <2> QED  BY <1>1, <2>1, <2>2 DEF S, IInv, TypeOK, requestVars, programVars, readerVars
<1>7. Stages'
  BY <1>1 DEF IInv, Stages, Readers, requestVars, readerVars
<1>8. Registration'
  BY <1>1, RegistrationKept DEF IInv, requestVars
<1>9. TrafficFits'
  <2>1. Append(received[s], Head(messages[s])) \o Tail(messages[s])
          = received[s] \o messages[s]
    BY <1>1, <1>3, ReceiveKeepsTraffic
  <2>2. \A t \in Streams : Traffic(t)' = Traffic(t)
    BY <1>1, <1>2, <2>1 DEF Traffic, IInv, TypeOK
  <2>3. \A t \in Streams, r \in Outputs : SentChunks(t, r)' = SentChunks(t, r)
    BY <1>1 DEF SentChunks, readerVars
  <2>4. \A t \in Streams : ExitIsSent(t) => ExitIsSent(t)'
    BY <1>1 DEF ExitIsSent
  <2> QED  BY <2>2, <2>3, <2>4, TrafficKept DEF IInv
<1> QED  BY <1>6, <1>7, <1>8, <1>9 DEF IInv

\* A reader that enters a Read, or whose Read fails, sends nothing.
LEMMA ReaderStep ==
    ASSUME IInv, NEW s \in Streams, NEW r \in Readers, EnterRead(s, r) \/ ReadEnds(s, r)
    PROVE  IInv'
<1>1. PICK at \in {"reading", "done"} :
        /\ reader[s][r] \in {"ready", "reading"}
        /\ reader' = [reader EXCEPT ![s][r] = at]
        /\ UNCHANGED <<requestVars, cancelled, outClosed, programVars, taken, waiter,
                       messages, msgClosed, done, clientVars>>
  BY DEF EnterRead, ReadEnds
<1>2. r \in Outputs
  BY DEF Readers, Outputs
<1>3. \A t \in Streams, q \in Outputs :
        reader'[t][q] = IF t = s /\ q = r THEN at ELSE reader[t][q]
  BY <1>1, <1>2 DEF IInv, TypeOK
<1>4. TypeOK'
  BY <1>1, <1>2 DEF IInv, TypeOK, requestVars, programVars, clientVars
<1>5. waiter[s] \notin {"none", "exit", "closing", "closed", "returned"}
  BY <1>1, <1>2 DEF IInv, Stages
<1>6. Stages'
  BY <1>1, <1>2, <1>3, <1>5 DEF IInv, Stages, Readers, Outputs, requestVars
<1>7. Registration'
  BY <1>1, RegistrationKept DEF IInv, requestVars
<1>8. TrafficFits'
  <2>1. \A t \in Streams : Traffic(t)' = Traffic(t)
    BY <1>1 DEF Traffic, clientVars
  <2>2. \A t \in Streams, q \in Outputs : SentChunks(t, q)' = SentChunks(t, q)
    BY <1>1, <1>2, <1>3 DEF SentChunks
  <2>3. \A t \in Streams : ExitIsSent(t) => ExitIsSent(t)'
    BY <1>1 DEF ExitIsSent
  <2> QED  BY <2>1, <2>2, <2>3, TrafficKept DEF IInv
<1> QED  BY <1>4, <1>6, <1>7, <1>8 DEF IInv

\* A chunk that was read is not sent yet.
LEMMA ReadDataStep ==
    ASSUME IInv, NEW s \in Streams, NEW r \in Readers, ReadData(s, r)
    PROVE  IInv'
<1>1. /\ reader[s][r] = "reading" /\ taken[s][r] < written[s][r]
      /\ taken' = [taken EXCEPT ![s][r] = taken[s][r] + 1]
      /\ reader' = [reader EXCEPT ![s][r] = "sending"]
      /\ UNCHANGED <<requestVars, cancelled, outClosed, programVars, waiter, messages,
                     msgClosed, done, clientVars>>
  BY DEF ReadData
<1>2. r \in Outputs
  BY DEF Readers, Outputs
<1>3. /\ \A t \in Streams, q \in Outputs :
           reader'[t][q] = IF t = s /\ q = r THEN "sending" ELSE reader[t][q]
      /\ \A t \in Streams, q \in Outputs :
           taken'[t][q] = IF t = s /\ q = r THEN taken[s][r] + 1 ELSE taken[t][q]
      /\ \A t \in Streams, q \in Outputs : taken[t][q] \in Nat
      /\ taken[s][r] + 1 \in 0..MaxOutput
  <2>1. \A t \in Streams, q \in Outputs :
          taken[t][q] \in 0..MaxOutput /\ written[t][q] \in 0..MaxOutput
    BY DEF IInv, TypeOK
  <2>2. \A t \in Streams, q \in Outputs :
          reader'[t][q] = IF t = s /\ q = r THEN "sending" ELSE reader[t][q]
    BY <1>1, <1>2 DEF IInv, TypeOK
  <2>3. \A t \in Streams, q \in Outputs :
          taken'[t][q] = IF t = s /\ q = r THEN taken[s][r] + 1 ELSE taken[t][q]
    BY <1>1, <1>2 DEF IInv, TypeOK
  <2> QED  BY <1>1, <1>2, <2>1, <2>2, <2>3, PTYAssumption
<1>4. TypeOK'
  <2>1. taken' \in [Streams -> [Outputs -> 0..MaxOutput]]
    BY <1>1, <1>2, <1>3 DEF IInv, TypeOK
  <2> QED  BY <1>1, <1>2, <2>1 DEF IInv, TypeOK, requestVars, programVars, clientVars
<1>5. waiter[s] \notin {"none", "exit", "closing", "closed", "returned"}
  BY <1>1, <1>2 DEF IInv, Stages
<1>6. Stages'
  BY <1>1, <1>2, <1>3, <1>5 DEF IInv, Stages, Readers, Outputs, requestVars
<1>7. Registration'
  BY <1>1, RegistrationKept DEF IInv, requestVars
<1>8. TrafficFits'
  <2>1. \A t \in Streams : Traffic(t)' = Traffic(t)
    BY <1>1 DEF Traffic, clientVars
  <2>2. \A t \in Streams, q \in Outputs : SentChunks(t, q)' = SentChunks(t, q)
    BY <1>1, <1>2, <1>3 DEF SentChunks
  <2>3. \A t \in Streams : ExitIsSent(t) => ExitIsSent(t)'
    BY <1>1 DEF ExitIsSent
  <2> QED  BY <2>1, <2>2, <2>3, TrafficKept DEF IInv
<1> QED  BY <1>4, <1>6, <1>7, <1>8 DEF IInv

\* The traffic of a stream is a sequence of messages.
LEMMA TrafficIsTyped ==
    ASSUME TypeOK, NEW s \in Streams
    PROVE  /\ Traffic(s) \in Seq(Chunks \cup {Exit})
           /\ Len(Traffic(s)) \in Nat
           /\ DOMAIN Traffic(s) = 1..Len(Traffic(s))
<1>1. received[s] \in Seq(Chunks \cup {Exit}) /\ messages[s] \in Seq(Chunks \cup {Exit})
  BY DEF TypeOK
<1>2. Traffic(s) \in Seq(Chunks \cup {Exit})
  BY <1>1, ConcatProperties DEF Traffic
<1> QED  BY <1>2, LenProperties

\* What a message adds to the traffic of its stream.
LEMMA PutAddsTraffic ==
    ASSUME TypeOK, NEW s \in Streams, NEW m \in Chunks \cup {Exit}, Put(s, m),
           received' = received
    PROVE  /\ messages' \in [Streams -> Seq(Chunks \cup {Exit})]
           /\ \A t \in Streams : Len(messages'[t]) <= Capacity
           /\ Traffic(s)' = Append(Traffic(s), m)
           /\ \A t \in Streams \ {s} : Traffic(t)' = Traffic(t)
<1> DEFINE S == Chunks \cup {Exit}
<1>1. /\ messages' = [messages EXCEPT ![s] = Append(messages[s], m)]
      /\ Len(messages[s]) < Capacity
  BY DEF Put
<1>2. messages[s] \in Seq(S) /\ received[s] \in Seq(S) /\ m \in S
  BY DEF TypeOK
<1> HIDE DEF S
<1>3. /\ Append(messages[s], m) \in Seq(S)
      /\ Len(Append(messages[s], m)) = Len(messages[s]) + 1
      /\ Len(messages[s]) \in Nat
  BY <1>2, AppendProperties
<1>4. received[s] \o Append(messages[s], m) = Append(received[s] \o messages[s], m)
  <2>1. \A before, queue \in Seq(S) : \A message \in S :
          before \o Append(queue, message) = Append(before \o queue, message)
    BY PutExtendsTraffic
  <2> QED  BY <1>2, <2>1
<1>5. messages' \in [Streams -> Seq(S)]
  BY <1>1, <1>3 DEF TypeOK, S
<1>6. \A t \in Streams : Len(messages'[t]) <= Capacity
  BY <1>1, <1>3, PTYAssumption DEF TypeOK
<1> QED  BY <1>1, <1>4, <1>5, <1>6 DEF Traffic, TypeOK, S

\* A message that comes after those before it keeps the order.
LEMMA AppendInOrder ==
    ASSUME NEW all \in Seq(Chunks \cup {Exit}), IsInOrder(all), NEW m,
           \A k \in DOMAIN all : all[k] # Exit,
           \A k \in DOMAIN all : all[k][1] = m[1] => all[k][2] < m[2],
           m[1] # 0 /\ m[2] > 1 => \E k \in DOMAIN all : all[k] = <<m[1], m[2] - 1>>
    PROVE  IsInOrder(Append(all, m))
<1> DEFINE more == Append(all, m)
<1>1. /\ Len(all) \in Nat /\ DOMAIN all = 1..Len(all)
      /\ DOMAIN more = 1..(Len(all) + 1)
      /\ \A k \in DOMAIN all : more[k] = all[k]
      /\ more[Len(all) + 1] = m
  OBVIOUS
<1> HIDE DEF more
<1>2. SUFFICES ASSUME NEW k \in DOMAIN more, NEW n \in DOMAIN more, k < n
               PROVE  /\ more[k] # Exit
                      /\ more[k][1] = more[n][1] => more[k][2] < more[n][2]
                      /\ more[n][1] # 0 /\ more[n][2] > 1 =>
                           \E j \in DOMAIN more :
                               j < n /\ more[j] = <<more[n][1], more[n][2] - 1>>
  BY DEF IsInOrder, more
<1>3. CASE n \in DOMAIN all
  <2>1. k \in DOMAIN all
    BY <1>1, <1>2, <1>3
  <2>2. /\ all[k] # Exit
        /\ all[k][1] = all[n][1] => all[k][2] < all[n][2]
        /\ all[n][1] # 0 /\ all[n][2] > 1 =>
             \E j \in DOMAIN all : j < n /\ all[j] = <<all[n][1], all[n][2] - 1>>
    BY <1>2, <1>3, <2>1 DEF IsInOrder
  <2>3. DOMAIN all \subseteq DOMAIN more /\ more[k] = all[k] /\ more[n] = all[n]
    BY <1>1, <1>3, <2>1
  <2> QED  BY <1>1, <2>2, <2>3
<1>4. CASE n = Len(all) + 1
  <2>1. k \in DOMAIN all
    BY <1>1, <1>2, <1>4
  <2>2. \A j \in DOMAIN all : j \in DOMAIN more /\ j < n /\ more[j] = all[j]
    BY <1>1, <1>4
  <2> QED  BY <1>1, <1>4, <2>1, <2>2
<1> QED  BY <1>1, <1>3, <1>4

\* A chunk is sent after the one before it of its output, and before the wait of the
\* stream is over.
LEMMA SendStep ==
    ASSUME IInv, NEW s \in Streams, NEW r \in Readers, Send(s, r)
    PROVE  IInv'
<1> DEFINE m == <<r, taken[s][r]>>
           all == Traffic(s)
<1>1. /\ reader[s][r] = "sending" /\ Put(s, m)
      /\ reader' = [reader EXCEPT ![s][r] = "ready"]
      /\ UNCHANGED <<requestVars, cancelled, outClosed, programVars, taken, waiter,
                     msgClosed, done, clientVars>>
  BY DEF Send
<1>2. r \in Outputs
  BY DEF Readers, Outputs
<1>3. /\ \A t \in Streams, q \in Outputs :
           reader'[t][q] = IF t = s /\ q = r THEN "ready" ELSE reader[t][q]
      /\ \A t \in Streams, q \in Outputs : taken[t][q] \in 0..MaxOutput
  BY <1>1, <1>2 DEF IInv, TypeOK
<1>4. taken[s][r] > 0 /\ waiter[s] \notin {"none", "exit", "closing", "closed", "returned"}
  BY <1>1, <1>2 DEF IInv, Stages
<1>5. m \in Chunks /\ m[1] = r /\ m[2] = taken[s][r]
  BY <1>2, <1>3, <1>4, PTYAssumption DEF Chunks
<1> HIDE DEF m
<1>6. /\ messages' \in [Streams -> Seq(Chunks \cup {Exit})]
      /\ \A t \in Streams : Len(messages'[t]) <= Capacity
      /\ all' = Append(all, m)
      /\ \A t \in Streams \ {s} : Traffic(t)' = Traffic(t)
  BY <1>1, <1>5, PutAddsTraffic DEF IInv, clientVars
<1>7. TypeOK'
  <2>1. reader' \in [Streams -> [Outputs ->
                        {"none", "ready", "reading", "sending", "done"}]]
    BY <1>1, <1>2 DEF IInv, TypeOK
  <2> QED  BY <1>1, <1>6, <2>1 DEF IInv, TypeOK, requestVars, programVars, clientVars
<1>8. Stages'
  BY <1>1, <1>2, <1>3, <1>4 DEF IInv, Stages, Readers, Outputs, requestVars
<1>9. Registration'
  BY <1>1, RegistrationKept DEF IInv, requestVars
<1>10. /\ \A t \in Streams, q \in Outputs : t # s \/ q # r =>
              SentChunks(t, q)' = SentChunks(t, q)
       /\ SentChunks(s, r) = taken[s][r] - 1 /\ SentChunks(s, r)' = taken[s][r]
       /\ \A q \in Outputs : SentChunks(s, q) \in Int /\ SentChunks(s, q)' \in Int
       /\ \A q \in Outputs : SentChunks(s, q)' >= SentChunks(s, q)
  BY <1>1, <1>2, <1>3, PTYAssumption DEF SentChunks
<1>11. ASSUME NEW t \in Streams \ {s}
       PROVE  (IsAccounted(Traffic(t), t) /\ IsInOrder(Traffic(t)))'
  <2>1. ExitIsSent(t) => ExitIsSent(t)'
    BY <1>1 DEF ExitIsSent
  <2> QED  BY <1>6, <1>10, <2>1, StreamKept DEF IInv, TrafficFits
<1>12. /\ all \in Seq(Chunks \cup {Exit})
       /\ Len(all) \in Nat /\ DOMAIN all = 1..Len(all)
       /\ IsAccounted(all, s) /\ IsInOrder(all)
  BY TrafficIsTyped DEF IInv, TrafficFits
<1> HIDE DEF all
<1>13. \A k \in DOMAIN all :
         all[k] \in Chunks /\ all[k] # Exit /\ all[k][2] <= SentChunks(s, all[k][1])
  BY <1>4, <1>12, ExitIsNoChunk DEF IsAccounted, ExitIsSent
<1>14. IsInOrder(all)'
  <2>1. ASSUME NEW k \in DOMAIN all, all[k][1] = m[1]
        PROVE  all[k][2] < m[2]
    <3>1. all[k][2] \in Nat /\ all[k][2] <= taken[s][r] - 1
      BY <1>5, <1>10, <1>13, <2>1, ExitIsNoChunk
    <3> QED  BY <1>2, <1>3, <1>5, <3>1, PTYAssumption
  <2>2. ASSUME m[2] > 1
        PROVE  \E k \in DOMAIN all : all[k] = <<m[1], m[2] - 1>>
    <3>1. m[2] - 1 \in 1..SentChunks(s, r)
      BY <1>2, <1>3, <1>5, <1>10, <2>2, PTYAssumption
    <3> QED  BY <1>2, <1>5, <1>12, <3>1 DEF IsAccounted
  <2>3. IsInOrder(Append(all, m))
    BY <1>12, <1>13, <2>1, <2>2, AppendInOrder
  <2> QED  BY <1>6, <2>3 DEF IsInOrder, all
<1>15. IsAccounted(all, s)'
  <2> DEFINE more == Append(all, m)
  <2>1. /\ DOMAIN more = 1..(Len(all) + 1)
        /\ \A k \in DOMAIN all : k \in DOMAIN more /\ more[k] = all[k]
        /\ more[Len(all) + 1] = m /\ Len(all) + 1 \in DOMAIN more
        /\ \A k \in DOMAIN more : k \in DOMAIN all \/ k = Len(all) + 1
    BY <1>12
  <2>2. all' = more
    BY <1>6 DEF all
  <2> HIDE DEF more
  <2>3. ASSUME NEW k \in DOMAIN more, NEW q \in Outputs, q = more[k][1]
        PROVE  more[k] \in Chunks /\ more[k][2] <= SentChunks(s, q)'
    <3>1. CASE k = Len(all) + 1
      BY <1>2, <1>3, <1>5, <1>10, <2>1, <2>3, <3>1, PTYAssumption
    <3>2. CASE k \in DOMAIN all
      <4>1. /\ all[k] \in Chunks /\ all[k][2] \in Nat
            /\ all[k][2] <= SentChunks(s, q)
        BY <1>13, <2>1, <2>3, <3>2, ExitIsNoChunk
      <4> QED  BY <1>10, <2>1, <3>2, <4>1
    <3> QED  BY <2>1, <3>1, <3>2
  <2>4. \A k \in DOMAIN more : more[k][1] \in Outputs
    BY <1>2, <1>5, <1>13, <2>1, ExitIsNoChunk
  <2>5. ASSUME NEW q \in Outputs, NEW c \in 1..(SentChunks(s, q)')
        PROVE  \E k \in DOMAIN more : more[k] = <<q, c>>
    <3>1. CASE c \in 1..SentChunks(s, q)
      BY <1>12, <2>1, <3>1 DEF IsAccounted
    <3>2. CASE q = r /\ c = taken[s][r]
      BY <2>1, <3>2 DEF m
    <3>3. c \in 1..SentChunks(s, q) \/ (q = r /\ c = taken[s][r])
      BY <1>2, <1>3, <1>10, <2>5, PTYAssumption
    <3> QED  BY <3>1, <3>2, <3>3
  <2> QED  BY <2>2, <2>3, <2>4, <2>5 DEF IsAccounted
<1>16. TrafficFits'
  BY <1>11, <1>14, <1>15 DEF TrafficFits, all
<1> QED  BY <1>7, <1>8, <1>9, <1>16 DEF IInv

\* The goroutine that waits moves on, sending nothing.
LEMMA WaiterStep ==
    ASSUME IInv, NEW s \in Streams,
           ProgramWaited(s) \/ ReadersWaited(s) \/ CloseMessages(s) \/ CloseDone(s)
    PROVE  IInv'
<1>1. /\ UNCHANGED <<requestVars, cancelled, programVars, readerVars, messages, clientVars>>
      /\ waiter[s] # "none"
  BY DEF ProgramWaited, ReadersWaited, CloseMessages, CloseDone
<1>2. PICK at \in {"readers", "exit", "closing", "closed", "returned"} :
        waiter' = [waiter EXCEPT ![s] = at]
  BY DEF ProgramWaited, ReadersWaited, AfterReaders, CloseMessages, CloseDone
<1>3. \A t \in Streams : waiter'[t] = IF t = s THEN at ELSE waiter[t]
  BY <1>2 DEF IInv, TypeOK
<1>4. TypeOK'
  <2>1. /\ outClosed' \in [Streams -> BOOLEAN] /\ msgClosed' \in [Streams -> BOOLEAN]
        /\ done' \in [Streams -> BOOLEAN]
    BY DEF ProgramWaited, ReadersWaited, CloseMessages, CloseDone, IInv, TypeOK
  <2>2. waiter' \in [Streams -> {"none", "program", "readers", "exit", "closing", "closed",
                                "returned"}]
    BY <1>2 DEF IInv, TypeOK
  <2> QED  BY <1>1, <2>1, <2>2 DEF IInv, TypeOK, requestVars, programVars, readerVars,
             clientVars
<1>5. Stages'
  <2>1. /\ \A t \in Streams \ {s} : msgClosed'[t] = msgClosed[t] /\ done'[t] = done[t]
        /\ msgClosed'[s] <=> waiter'[s] \in {"closed", "returned"}
        /\ done'[s] <=> waiter'[s] = "returned"
        /\ waiter'[s] \in {"exit", "closing", "closed", "returned"}
              => \A r \in Readers : reader[s][r] = "done"
    BY DEF ProgramWaited, ReadersWaited, AfterReaders, CloseMessages, CloseDone, IInv, TypeOK, Stages
  <2> QED  BY <1>1, <1>2, <1>3, <2>1 DEF IInv, Stages, Readers, requestVars, readerVars
<1>6. Registration'
  <2>1. \A t \in Streams : done[t] => done'[t]
    BY DEF ProgramWaited, ReadersWaited, CloseMessages, CloseDone, IInv, TypeOK
  <2> QED  BY <1>1, <2>1, RegistrationKept DEF IInv, requestVars
<1>7. TrafficFits'
  <2>1. \A t \in Streams : ExitIsSent(t) => ExitIsSent(t)'
    <3>1. waiter[s] \in {"closing", "closed"} => at \in {"closed", "returned"}
      BY <1>2, <1>3 DEF ProgramWaited, ReadersWaited, CloseMessages, CloseDone, IInv, TypeOK
    <3>2. waiter[s] # "returned"
      BY DEF ProgramWaited, ReadersWaited, CloseMessages, CloseDone
    <3> QED  BY <1>3, <3>1, <3>2 DEF ExitIsSent
  <2> QED  BY <1>1, <2>1, TrafficUnchanged DEF IInv, readerVars, clientVars
<1> QED  BY <1>4, <1>5, <1>6, <1>7 DEF IInv

\* The exit message comes after all chunks.
LEMMA SendExitStep ==
    ASSUME IInv, NEW s \in Streams, SendExit(s)
    PROVE  IInv'
<1> DEFINE all == Traffic(s)
<1>1. /\ waiter[s] = "exit" /\ waiter' = [waiter EXCEPT ![s] = "closing"]
      /\ Put(s, Exit)
      /\ UNCHANGED <<requestVars, cancelled, outClosed, programVars, readerVars, msgClosed,
                     done, clientVars>>
  BY DEF SendExit
<1>2. \A t \in Streams : waiter'[t] = IF t = s THEN "closing" ELSE waiter[t]
  BY <1>1 DEF IInv, TypeOK
<1>3. /\ messages' \in [Streams -> Seq(Chunks \cup {Exit})]
      /\ \A t \in Streams : Len(messages'[t]) <= Capacity
      /\ all' = Append(all, Exit)
      /\ \A t \in Streams \ {s} : Traffic(t)' = Traffic(t)
  BY <1>1, PutAddsTraffic DEF IInv, clientVars
<1>4. TypeOK'
  <2>1. /\ messages' \in [Streams -> Seq(Chunks \cup {Exit})]
        /\ \A t \in Streams : Len(messages'[t]) <= Capacity
    BY <1>1, <1>3 DEF IInv, TypeOK
  <2>2. waiter' \in [Streams -> {"none", "program", "readers", "exit", "closing", "closed",
                                "returned"}]
    BY <1>1 DEF IInv, TypeOK
  <2> QED  BY <1>1, <2>1, <2>2 DEF IInv, TypeOK, requestVars, programVars, readerVars,
             clientVars
<1>5. Stages'
  BY <1>1, <1>2 DEF IInv, Stages, Readers, requestVars, readerVars
<1>6. Registration'
  BY <1>1, RegistrationKept DEF IInv, requestVars
<1>7. \A t \in Streams : ExitIsSent(t) => ExitIsSent(t)'
  BY <1>2 DEF ExitIsSent
<1>8. \A t \in Streams, q \in Outputs : SentChunks(t, q)' = SentChunks(t, q)
  BY <1>1 DEF SentChunks, readerVars
<1>9. ASSUME NEW t \in Streams \ {s}
      PROVE  (IsAccounted(Traffic(t), t) /\ IsInOrder(Traffic(t)))'
  BY <1>3, <1>7, <1>8, StreamKept DEF IInv, TrafficFits
<1>10. /\ all \in Seq(Chunks \cup {Exit})
      /\ Len(all) \in Nat /\ DOMAIN all = 1..Len(all)
      /\ IsAccounted(all, s) /\ IsInOrder(all)
  BY TrafficIsTyped DEF IInv, TrafficFits
<1>11. all' = Append(all, Exit)
  BY <1>3
<1> HIDE DEF all
<1>12. \A k \in DOMAIN all :
        all[k] \in Chunks /\ all[k] # Exit /\ all[k][2] <= SentChunks(s, all[k][1])
  BY <1>1, <1>10, ExitIsNoChunk DEF IsAccounted, ExitIsSent
<1>13. IsInOrder(Append(all, Exit))
  <2>1. \A k \in DOMAIN all : all[k][1] # Exit[1]
    BY <1>12, ExitIsNoChunk
  <2> QED  BY <1>10, <1>12, <2>1, ExitIsNoChunk, AppendInOrder
<1>14. IsAccounted(all, s)'
  <2> DEFINE more == Append(all, Exit)
  <2>1. /\ \A k \in DOMAIN all : k \in DOMAIN more /\ more[k] = all[k]
        /\ \A k \in DOMAIN more : k \in DOMAIN all \/ more[k] = Exit
    BY <1>10
  <2> HIDE DEF more
  <2>2. ASSUME NEW k \in DOMAIN more
        PROVE  \/ more[k] = Exit
               \/ /\ more[k] \in Chunks
                  /\ more[k][2] <= SentChunks(s, more[k][1])
    BY <1>12, <2>1
  <2>3. \A k \in DOMAIN more : more[k] \in Chunks => more[k][1] \in Outputs
    BY ExitIsNoChunk
  <2>4. \A q \in Outputs : \A c \in 1..SentChunks(s, q) :
          \E k \in DOMAIN more : more[k] = <<q, c>>
    BY <1>10, <2>1 DEF IsAccounted
  <2>5. ExitIsSent(s)'
    BY <1>2 DEF ExitIsSent
  <2>6. all' = more
    BY <1>11 DEF more
  <2> QED  BY <1>8, <2>2, <2>3, <2>4, <2>5, <2>6 DEF IsAccounted
<1>15. TrafficFits'
  BY <1>9, <1>11, <1>13, <1>14 DEF TrafficFits, all, IsInOrder
<1> QED  BY <1>4, <1>5, <1>6, <1>15 DEF IInv

\* Every step keeps the invariant.
LEMMA NextIInv == IInv /\ [Next]_vars => IInv'
<1> SUFFICES ASSUME IInv, [Next]_vars PROVE IInv'
  OBVIOUS
<1>1. ASSUME NEW s \in Streams, NEW i \in Sessions, BeginStart(s, i) PROVE IInv'
  BY <1>1, BeginStartStep
<1>2. ASSUME NEW s \in Streams, Launch(s) \/ LaunchFails(s) \/ Register(s) \/ Reap(s)
      PROVE  IInv'
  BY <1>2, LaunchStep, LaunchFailsStep, RegisterStep, ReapStep
<1>3. CASE (\E i \in Sessions : StopLooksUp(i)) \/ StopCloses
  BY <1>3, StopStep
<1>4. ASSUME NEW s \in Streams, \/ \E r \in Readers : ProgramWrites(s, r)
             \/ ProgramExits(s) \/ LeftoversEnd(s)
      PROVE  IInv'
  BY <1>4, ProgramStep
<1>5. ASSUME NEW s \in Streams, NEW r \in Readers,
             EnterRead(s, r) \/ ReadData(s, r) \/ ReadEnds(s, r) \/ Send(s, r)
      PROVE  IInv'
  BY <1>5, ReaderStep, ReadDataStep, SendStep
<1>6. ASSUME NEW s \in Streams,
             \/ ProgramWaited(s) \/ ReadersWaited(s) \/ SendExit(s)
             \/ CloseMessages(s) \/ CloseDone(s)
      PROVE  IInv'
  BY <1>6, WaiterStep, SendExitStep
<1>7. ASSUME NEW c \in Clients,
             \/ \E i \in Sessions : Connect(c, i)
             \/ Receive(c) \/ SendClose(c) \/ Disconnect(c)
      PROVE  IInv'
  BY <1>7, BrowserStep, ReceiveStep
<1>8. CASE UNCHANGED vars
  <2>1. TypeOK'
    BY <1>8 DEF IInv, TypeOK, vars
  <2> QED  BY <1>8, <2>1, AsideKeepsIInv DEF vars
<1> QED  BY <1>1, <1>2, <1>3, <1>4, <1>5, <1>6, <1>7, <1>8 DEF Next

\* The inductive invariant holds in every state of every behaviour.
THEOREM Invariance == Spec => []IInv
BY InitIInv, NextIInv, PTL DEF Spec

\* The type invariant, which bounds the channel by its capacity.
THEOREM TypeCorrect == Spec => []TypeOK
<1>1. IInv => TypeOK
  BY DEF IInv
<1> QED  BY <1>1, Invariance, PTL

\* The channel is closed by the goroutine that has waited for all readers, so that no
\* send can panic.
THEOREM NoSendIsLate == Spec => []NoSendAfterClose
<1>1. IInv => NoSendAfterClose
  BY DEF IInv, Stages, NoSendAfterClose
<1> QED  BY <1>1, Invariance, PTL

\* A stream that may run on can be reached by stop and input, unless two starts of
\* its session overlapped, each of which then sees the map without the other's.
THEOREM LiveStreamsAreReachable == Spec => []LiveStreamIsReachable
<1>1. IInv => LiveStreamIsReachable
  BY DEF IInv, Registration
<1> QED  BY <1>1, Invariance, PTL

\* The browsers are sent each output in its order and whole, and the exit last.
THEOREM OutputsAreInOrder == Spec => []OutputInOrder
<1>1. IInv => OutputInOrder
  BY DEF IInv, TrafficFits, IsInOrder, Traffic, OutputInOrder
<1> QED  BY <1>1, Invariance, PTL

\* The goroutine that removes an old stream leaves its successor in the map.
THEOREM OnlyDoneOrReplaced == Spec => RegisteredUntilDone
<1>1. ASSUME IInv, [Next]_vars, NEW i \in Sessions, NEW s \in Streams,
             streams[i] = s, streams'[i] # s
      PROVE  done[s] \/ (streams'[i] # 0 /\ start[streams'[i]] = "launched")
  <2>1. ASSUME NEW t \in Streams, Register(t)
        PROVE  streams'[i] = t /\ t # 0 /\ start[t] = "launched"
    BY <1>1, <2>1 DEF Register, IInv, TypeOK, Streams
  <2>2. ASSUME NEW t \in Streams, Reap(t)
        PROVE  done[s]
    BY <1>1, <2>2 DEF Reap, IInv, TypeOK
  <2>3. \E t \in Streams : Register(t) \/ Reap(t)
    BY <1>1 DEF Next, vars, requestVars, BeginStart, Launch, LaunchFails, StopLooksUp,
       StopCloses, ProgramWrites, ProgramExits, LeftoversEnd, EnterRead, ReadData, ReadEnds, Send,
       ProgramWaited, ReadersWaited, SendExit, CloseMessages, CloseDone, Connect, Receive,
       SendClose, Disconnect
  <2> QED  BY <2>1, <2>2, <2>3
<1>2. IInv /\ [Next]_vars =>
        [\A i \in Sessions : \A s \in Streams :
           streams[i] = s /\ streams'[i] # s
              => done[s] \/ (streams'[i] # 0 /\ start[streams'[i]] = "launched")]_vars
  BY <1>1
<1> QED  BY <1>2, Invariance, PTL DEF Spec, RegisteredUntilDone
=============================================================================
