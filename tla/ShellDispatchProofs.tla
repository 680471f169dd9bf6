------------------------- MODULE ShellDispatchProofs -------------------------
(***************************************************************************)
(* Machine-checked proofs about ShellDispatch, for every limit, every set  *)
(* of texts, aliases and scripts, and so for functions that call each      *)
(* other in any way.                                                       *)
(***************************************************************************)
EXTENDS ShellDispatch, SequenceTheorems, TLAPS

(***************************************************************************)
(* The inductive invariant.  It says of the calls in progress what the     *)
(* properties say when the outermost has returned.                         *)
(***************************************************************************)
IsSequence(s) == \E S : s \in Seq(S)

CallsAreWhole ==
    /\ IsSequence(frames)
    /\ functionDepth \in Nat

\* The loop waits for the outermost call, which executes the loop's text.
LoopState ==
    /\ scripts \in Seq(Seq(Texts))
    /\ pc # "new" => started
    /\ frames # <<>> => pc \in {"startup", "line"} /\ line \in Texts /\ frames[1].text = line
    /\ frames # <<>> /\ pc = "startup" => scripts # <<>>

\* Only the innermost call can have told the shell to end, and it is an exit.
IsExit(call) ==
    /\ Len(call.commands) = 1 /\ ~Parsed[call.text].detached
    /\ call.commands[1][1] = "exit" /\ ~IsFunction("exit")
    /\ Parsed[call.text].output # "locked"

ExitIsTheLast ==
    \A i \in 1..Len(frames) :
        ~frames[i].ok => i = Len(frames) /\ frames[i].stage = "return" /\ IsExit(frames[i])

\* What the outermost call knows of its text at each of its stages.
IsStatusOf(status, text) ==
    /\ status = 2 <=> Parsed[text].error
    /\ text = Nothing => status = 0

OutermostStatus(call) ==
    /\ call.stage \in {"parsed", "run", "called", "return"}
    /\ call.stage = "parsed" =>
         /\ \A i \in DOMAIN call.commands : call.commands[i] # <<>>
         /\ call.text = Nothing => call.commands = <<>>
    /\ call.stage \in {"run", "called"} => ~Parsed[call.text].error /\ call.text # Nothing
    /\ call.stage = "return" => IsStatusOf(call.status, call.text)

StatusIsKnown ==
    /\ frames # <<>> => OutermostStatus(frames[1])
    /\ Len(frames) > 1 => frames[1].stage = "called"
    /\ frames = <<>> => line = None \/ (line \in Texts /\ IsStatusOf(lastStatus, line))

IInv ==
    /\ CallsAreWhole
    /\ LoopState
    /\ ExitIsTheLast
    /\ StatusIsKnown
    /\ CallsAreCounted

-----------------------------------------------------------------------------
(* The stack. *)

\* A stack that is not empty has an innermost and an outermost call.
LEMMA StackFacts ==
  ASSUME CallsAreWhole, frames # <<>>
  PROVE  /\ Len(frames) \in Nat \ {0}
         /\ DOMAIN frames = 1..Len(frames)
         /\ Top = frames[Len(frames)]
         /\ Len(frames) \in 1..Len(frames) /\ 1 \in 1..Len(frames)
<1>1. PICK S : frames \in Seq(S)
  BY DEF CallsAreWhole, IsSequence
<1>. QED
  BY <1>1 DEF Top, Last

\* Replacing the innermost call leaves the others and their number.
LEMMA ReplaceInnermost ==
  ASSUME CallsAreWhole, frames # <<>>, NEW call
  PROVE  LET after == [frames EXCEPT ![Len(frames)] = call]
         IN  /\ after # <<>> /\ Len(after) = Len(frames)
             /\ after[Len(frames)] = call
             /\ \A i \in 1..Len(frames) : i # Len(frames) => after[i] = frames[i]
             /\ IsSequence(after)
<1> DEFINE after == [frames EXCEPT ![Len(frames)] = call]
<1>1. PICK S : frames \in Seq(S)
  BY DEF CallsAreWhole, IsSequence
<1>2. /\ Len(frames) \in Nat \ {0} /\ DOMAIN frames = 1..Len(frames)
      /\ Len(frames) \in 1..Len(frames)
  BY StackFacts
<1>3. frames \in Seq(S \cup {call})
  BY <1>1
<1>4. after \in Seq(S \cup {call}) /\ Len(after) = Len(frames)
  BY <1>2, <1>3, ExceptSeq
<1>5. /\ after[Len(frames)] = call
      /\ \A i \in 1..Len(frames) : i # Len(frames) => after[i] = frames[i]
  BY <1>2
<1> HIDE DEF after
<1>6. IsSequence(after) /\ after # <<>>
  BY <1>2, <1>4 DEF IsSequence
<1>. QED
  BY <1>4, <1>5, <1>6 DEF after

\* What Front leaves of a stack of two calls or more.
LEMMA FrontFacts ==
  ASSUME NEW S, NEW s \in Seq(S), Len(s) > 1
  PROVE  /\ Front(s) \in Seq(S) /\ Len(Front(s)) = Len(s) - 1 /\ Front(s) # <<>>
         /\ \A i \in 1..(Len(s) - 1) : Front(s)[i] = s[i]
<1>1. Len(s) - 1 \in Int /\ \A i \in 1..(Len(s) - 1) : s[i] \in S
  OBVIOUS
<1>2. /\ Front(s) \in Seq(S) /\ Len(Front(s)) = Len(s) - 1
      /\ \A i \in 1..(Len(s) - 1) : Front(s)[i] = s[i]
  <2>1. /\ SubSeq(s, 1, Len(s) - 1) \in Seq(S)
        /\ Len(SubSeq(s, 1, Len(s) - 1)) = Len(s) - 1
        /\ \A i \in 1..(Len(s) - 1) : SubSeq(s, 1, Len(s) - 1)[i] = s[i]
    BY <1>1, SubSeqProperties
  <2>. QED
    BY <2>1 DEF Front
<1>. QED
  BY <1>2

\* A call is what it was made of.
LEMMA CallFields ==
  ASSUME NEW text, NEW commands, NEW stage, NEW status, NEW ok
  PROVE  /\ Call(text, commands, stage, status, ok).text = text
         /\ Call(text, commands, stage, status, ok).commands = commands
         /\ Call(text, commands, stage, status, ok).stage = stage
         /\ Call(text, commands, stage, status, ok).status = status
         /\ Call(text, commands, stage, status, ok).ok = ok
  BY DEF Call

-----------------------------------------------------------------------------
(* What the kinds of step do to the invariant. *)

\* A call that decides its results: what IInv asks of them.
LEMMA DecideStep ==
  ASSUME IInv, At("parsed") \/ At("run"), NEW status, NEW ok, Decide(status, ok),
         ~ok => IsExit(Top) /\ functions' = functions,
         Len(frames) = 1 => IsStatusOf(status, Top.text)
  PROVE  IInv'
<1> DEFINE n == Len(frames)
<1>1. frames # <<>> /\ Top.stage \in {"parsed", "run"}
  BY DEF At
<1>2. /\ n \in Nat \ {0} /\ Top = frames[n] /\ n \in 1..n /\ 1 \in 1..n
      /\ DOMAIN frames = 1..n
  BY <1>1, StackFacts DEF IInv
<1> DEFINE call == Decided(Top, status, ok)
<1>3. /\ call.text = Top.text /\ call.commands = Top.commands
      /\ call.stage = "return" /\ call.status = status /\ call.ok = ok
  BY CallFields DEF Decided
<1>4. frames' = [frames EXCEPT ![n] = call]
  BY <1>2 DEF Decide
<1> HIDE DEF call
<1>5. /\ frames' # <<>> /\ Len(frames') = n /\ frames'[n] = call
      /\ \A i \in 1..n : i # n => frames'[i] = frames[i]
      /\ IsSequence(frames')
  BY <1>1, <1>4, ReplaceInnermost DEF IInv
<1>6. UNCHANGED <<pc, started, scripts, line, functionDepth, lastStatus>>
  BY DEF Decide, loopVars
<1>7. CallsAreWhole'
  BY <1>5, <1>6 DEF IInv, CallsAreWhole
<1>8. frames'[1].text = frames[1].text
  BY <1>2, <1>3, <1>5
<1>9. LoopState'
  BY <1>1, <1>5, <1>6, <1>8 DEF IInv, LoopState
<1>10. ExitIsTheLast'
  <2> SUFFICES ASSUME NEW i \in 1..n, ~frames'[i].ok
               PROVE  i = n /\ frames'[i].stage = "return" /\ IsExit(frames[i])'
    BY <1>5 DEF ExitIsTheLast
  <2>1. i = n
    <3> SUFFICES ASSUME i # n PROVE FALSE
      OBVIOUS
    <3>. QED
      BY <1>5 DEF IInv, ExitIsTheLast
  <2>2. ~ok
    BY <2>1, <1>3, <1>5
  <2>. QED
    BY <2>1, <2>2, <1>3, <1>5 DEF IsExit, IsFunction
<1>11. StatusIsKnown'
  <2>1. CASE n = 1
    <3>1. OutermostStatus(frames'[1])
      BY <2>1, <1>3, <1>5 DEF OutermostStatus
    <3>. QED
      BY <2>1, <3>1, <1>5 DEF StatusIsKnown, OutermostStatus, IsStatusOf
  <2>2. CASE n # 1
    BY <2>2, <1>1, <1>2, <1>5 DEF IInv, StatusIsKnown, OutermostStatus, IsStatusOf
  <2>. QED
    BY <2>1, <2>2
<1>12. CallsAreCounted'
  BY <1>1, <1>5, <1>6 DEF IInv, CallsAreCounted, Idle
<1>. QED
  BY <1>7, <1>9, <1>10, <1>11, <1>12 DEF IInv

\* The aliases are expanded: the call is not yet decided.
LEMMA ExpandAliasesStep ==
  ASSUME IInv, ExpandAliases
  PROVE  IInv'
<1> DEFINE n == Len(frames)
           commands == [i \in DOMAIN Top.commands |-> ExpandAlias(Top.commands[i])]
           call == Call(Top.text, commands, "run", 0, TRUE)
<1>1. frames # <<>> /\ Top.stage = "parsed" /\ ~IsError /\ ~IsBlank
  BY DEF ExpandAliases, AliasesExpandTo, At
<1>2. /\ n \in Nat \ {0} /\ Top = frames[n] /\ n \in 1..n /\ 1 \in 1..n
      /\ DOMAIN frames = 1..n
  BY <1>1, StackFacts DEF IInv
<1> HIDE DEF commands
<1>3. call.text = Top.text /\ call.stage = "run" /\ call.ok
  BY DEF Call
<1>4. frames' = [frames EXCEPT ![n] = call]
  BY <1>2 DEF ExpandAliases, AliasesExpandTo, commands
<1> HIDE DEF call
<1>5. /\ frames' # <<>> /\ Len(frames') = n /\ frames'[n] = call
      /\ \A i \in 1..n : i # n => frames'[i] = frames[i]
      /\ IsSequence(frames')
  BY <1>1, <1>4, ReplaceInnermost DEF IInv
<1>6. UNCHANGED <<pc, started, scripts, line, functionDepth, functions, lastStatus>>
  BY DEF ExpandAliases, AliasesExpandTo, loopVars, tableVars
<1>7. CallsAreWhole'
  BY <1>5, <1>6 DEF IInv, CallsAreWhole
<1>8. frames'[1].text = frames[1].text
  BY <1>2, <1>3, <1>5
<1>9. LoopState'
  BY <1>1, <1>5, <1>6, <1>8 DEF IInv, LoopState
<1>10. ExitIsTheLast'
  BY <1>2, <1>3, <1>5, <1>6, ZenonT(40) DEF IInv, ExitIsTheLast, IsExit, IsFunction
<1>11. StatusIsKnown'
  <2>1. CASE n = 1
    <3>1. ~Parsed[Top.text].error
      BY <1>1 DEF IsError
    <3>2. Top.text # Nothing
      <4> SUFFICES ASSUME Top.text = Nothing PROVE FALSE
        OBVIOUS
      <4>1. Top.commands = <<>>
        BY <2>1, <1>1, <1>2 DEF IInv, StatusIsKnown, OutermostStatus
      <4>. QED
        BY <4>1, <1>1, ShellDispatchAssumption DEF ShellDispatchAssumption, IsBlank
    <3>3. OutermostStatus(frames'[1])
      BY <2>1, <3>1, <3>2, <1>3, <1>5 DEF OutermostStatus
    <3>. QED
      BY <2>1, <3>3, <1>5 DEF StatusIsKnown, OutermostStatus, IsStatusOf
  <2>2. CASE n # 1
    BY <2>2, <1>1, <1>2, <1>5 DEF IInv, StatusIsKnown, OutermostStatus, IsStatusOf
  <2>. QED
    BY <2>1, <2>2
<1>12. CallsAreCounted'
  BY <1>1, <1>5, <1>6 DEF IInv, CallsAreCounted, Idle
<1>. QED
  BY <1>7, <1>9, <1>10, <1>11, <1>12 DEF IInv

\* A function is called: one more call, and one more counted.
LEMMA CallFunctionStep ==
  ASSUME IInv, CallFunction
  PROVE  IInv'
<1> DEFINE n == Len(frames)
           called == Call(Top.text, Top.commands, "called", 0, TRUE)
           body == BodyCall(functions[Name], Args)
           stack == [frames EXCEPT ![n] = called]
<1>1. frames # <<>> /\ Top.stage = "run"
  BY DEF CallFunction, IsFunctionCall, ShellRuns, At
<1>2. /\ n \in Nat \ {0} /\ Top = frames[n] /\ n \in 1..n /\ 1 \in 1..n
      /\ DOMAIN frames = 1..n
  BY <1>1, StackFacts DEF IInv
<1>3. called.text = Top.text /\ called.stage = "called" /\ called.ok
  BY DEF Call
<1>4. body.stage = "parsed" /\ body.ok
  BY DEF BodyCall, NewCall, Call
<1>5. frames' = Append(stack, body)
  BY <1>2 DEF CallFunction
<1> HIDE DEF called, body
<1>6. /\ Len(stack) = n /\ stack[n] = called
      /\ \A i \in 1..n : i # n => stack[i] = frames[i]
      /\ IsSequence(stack)
  BY <1>1, ReplaceInnermost DEF IInv
<1> HIDE DEF stack
<1>7. PICK S : stack \in Seq(S) /\ body \in S
  <2>1. PICK S : stack \in Seq(S)
    BY <1>6 DEF IsSequence
  <2>2. stack \in Seq(S \cup {body}) /\ body \in S \cup {body}
    BY <2>1
  <2>. QED
    BY <2>2
<1>8. /\ frames' \in Seq(S) /\ frames' # <<>> /\ Len(frames') = n + 1
      /\ frames'[n + 1] = body
      /\ \A i \in 1..n : frames'[i] = stack[i]
  BY <1>5, <1>6, <1>7, AppendProperties
<1>9. UNCHANGED <<pc, started, scripts, line, functions, lastStatus>>
      /\ functionDepth' = functionDepth + 1 /\ functionDepth < FunctionLimit
  BY ShellDispatchAssumption
  DEF CallFunction, TooDeep, loopVars, tableVars, IInv, CallsAreWhole, ShellDispatchAssumption
<1>10. CallsAreWhole'
  BY <1>8, <1>9 DEF IInv, CallsAreWhole, IsSequence
<1>11. frames'[1].text = frames[1].text
  BY <1>2, <1>3, <1>6, <1>8
<1>12. LoopState'
  BY <1>1, <1>8, <1>9, <1>11 DEF IInv, LoopState
<1>13. ExitIsTheLast'
  <2>1. \A i \in 1..(n + 1) : frames'[i].ok
    <3>1. \A i \in 1..n : frames[i].ok
      BY <1>1, <1>2 DEF IInv, ExitIsTheLast
    <3>2. \A i \in 1..(n + 1) : i = n + 1 \/ i \in 1..n
      BY <1>2
    <3>. QED
      BY <3>1, <3>2, <1>2, <1>3, <1>4, <1>6, <1>8
  <2>. QED
    BY <2>1, <1>8 DEF ExitIsTheLast
<1>14. StatusIsKnown'
  <2>1. OutermostStatus(frames[1])
    BY <1>1 DEF IInv, StatusIsKnown
  <2>2. CASE n = 1
    <3>1. OutermostStatus(frames'[1])
      BY <2>1, <2>2, <1>1, <1>2, <1>3, <1>6, <1>8 DEF OutermostStatus
    <3>. QED
      BY <2>2, <3>1, <1>2, <1>3, <1>6, <1>8 DEF StatusIsKnown, OutermostStatus, IsStatusOf
  <2>3. CASE n # 1
    <3>1. frames'[1] = frames[1]
      BY <2>3, <1>2, <1>6, <1>8
    <3>. QED
      BY <2>1, <2>3, <3>1, <1>2, <1>8 DEF IInv, StatusIsKnown, OutermostStatus, IsStatusOf
  <2>. QED
    BY <2>2, <2>3
<1>15. CallsAreCounted'
  BY <1>1, <1>2, <1>8, <1>9, ShellDispatchAssumption
  DEF IInv, CallsAreWhole, CallsAreCounted, Idle, ShellDispatchAssumption
<1>. QED
  BY <1>10, <1>12, <1>13, <1>14, <1>15 DEF IInv

\* A body returns: its caller has decided, with a status of its own.
LEMMA FunctionReturnsStep ==
  ASSUME IInv, FunctionReturns
  PROVE  IInv'
<1> DEFINE n == Len(frames)
           status == IF Top.ok THEN 0 ELSE 1
           rest == Front(frames)
           caller == Decided(frames[n - 1], status, TRUE)
<1>1. frames # <<>> /\ n > 1
  BY DEF FunctionReturns, BodyReturns, At
<1>2. /\ n \in Nat \ {0} /\ DOMAIN frames = 1..n /\ Top = frames[n]
      /\ n - 1 \in Nat \ {0} /\ n - 1 \in 1..(n - 1) /\ 1 \in 1..(n - 1)
      /\ 1..(n - 1) \subseteq 1..n /\ n \notin 1..(n - 1)
  BY <1>1, StackFacts DEF IInv
<1>3. PICK S : frames \in Seq(S)
  BY DEF IInv, CallsAreWhole, IsSequence
<1>4. /\ rest \in Seq(S) /\ Len(rest) = n - 1 /\ rest # <<>>
      /\ \A i \in 1..(n - 1) : rest[i] = frames[i]
  BY <1>1, <1>2, <1>3, FrontFacts
<1>5. frames' = [rest EXCEPT ![n - 1] = caller]
  BY <1>1, <1>2, <1>4 DEF FunctionReturns, BodyReturns
<1>6. /\ caller.text = frames[n - 1].text /\ caller.stage = "return" /\ caller.ok
      /\ caller.status = status
  BY DEF Decided, Call
<1> HIDE DEF caller, rest
<1>7. /\ frames' \in Seq(S \cup {caller}) /\ frames' # <<>> /\ Len(frames') = n - 1
      /\ frames'[n - 1] = caller
      /\ \A i \in 1..(n - 1) : i # n - 1 => frames'[i] = frames[i]
  <2>1. rest \in Seq(S \cup {caller}) /\ n - 1 \in 1..Len(rest) /\ caller \in S \cup {caller}
    BY <1>2, <1>4
  <2>2. /\ frames' \in Seq(S \cup {caller}) /\ Len(frames') = Len(rest)
        /\ \A i \in 1..Len(rest) : frames'[i] = IF i = n - 1 THEN caller ELSE rest[i]
    BY <2>1, <1>5, ExceptSeq
  <2>3. frames' # <<>>
    BY <2>2, <1>2, <1>4
  <2>. QED
    BY <2>2, <2>3, <1>2, <1>4
<1>8. UNCHANGED <<pc, started, scripts, line, functions>> /\ functionDepth' = functionDepth - 1
  BY DEF FunctionReturns, BodyReturns, loopVars, tableVars
<1>9. functionDepth = n - 1
  BY <1>1 DEF IInv, CallsAreCounted, Idle
<1>10. CallsAreWhole'
  <2>1. IsSequence(frames')
    BY <1>7 DEF IsSequence
  <2>2. functionDepth' \in Nat
    BY <1>1, <1>2, <1>8, <1>9
  <2>. QED
    BY <2>1, <2>2 DEF CallsAreWhole, IsSequence
<1>11. frames'[1].text = frames[1].text
  BY <1>1, <1>2, <1>6, <1>7
<1>12. LoopState'
  BY <1>1, <1>7, <1>8, <1>11 DEF IInv, LoopState
<1>13. ExitIsTheLast'
  <2>1. \A i \in 1..(n - 1) : frames[i].ok
    BY <1>1, <1>2 DEF IInv, ExitIsTheLast
  <2>2. \A i \in 1..(n - 1) : frames'[i].ok
    BY <2>1, <1>6, <1>7
  <2>. QED
    BY <2>2, <1>7 DEF ExitIsTheLast
<1>14. StatusIsKnown'
  <2>1. OutermostStatus(frames[1])
    BY <1>1 DEF IInv, StatusIsKnown
  <2>2. CASE n = 2
    <3>1. ~Parsed[frames[1].text].error /\ frames[1].text # Nothing
      BY <2>1, <1>1 DEF IInv, StatusIsKnown, OutermostStatus
    <3>2. OutermostStatus(frames'[1])
      BY <3>1, <2>2, <1>2, <1>6, <1>7 DEF OutermostStatus, IsStatusOf
    <3>. QED
      BY <2>2, <3>2, <1>7 DEF StatusIsKnown, OutermostStatus, IsStatusOf
  <2>3. CASE n # 2
    <3>1. frames'[1] = frames[1]
      <4>1. 1 # n - 1
        BY <2>3, <1>2
      <4>. QED
        BY <4>1, <1>2, <1>7
    <3>. QED
      BY <2>1, <2>3, <3>1, <1>1, <1>2, <1>7 DEF IInv, StatusIsKnown, OutermostStatus, IsStatusOf
  <2>. QED
    BY <2>2, <2>3
<1>15. CallsAreCounted'
  <2>1. functionDepth' = Len(frames') - 1 /\ functionDepth' <= FunctionLimit
    <3>1. functionDepth <= FunctionLimit /\ FunctionLimit \in Nat
      BY ShellDispatchAssumption DEF IInv, CallsAreCounted, ShellDispatchAssumption
    <3>2. functionDepth = n - 1 /\ functionDepth' = functionDepth - 1 /\ n \in Nat \ {0}
      BY <1>2, <1>8, <1>9
    <3>3. Len(frames') = n - 1
      BY <1>7
    <3>. HIDE DEF n
    <3>4. functionDepth' = (n - 1) - 1 /\ functionDepth' <= FunctionLimit
      BY <3>1, <3>2
    <3>. QED
      BY <3>3, <3>4
  <2>. QED
    BY <2>1, <1>7 DEF CallsAreCounted, Idle
<1>. QED
  BY <1>10, <1>12, <1>13, <1>14, <1>15 DEF IInv

\* The loop gives a text to ExecuteLine.
LEMMA GiveStep ==
  ASSUME IInv, Idle, NEW text \in Texts, Give(text), pc' \in {"startup", "line"},
         started', scripts' \in Seq(Seq(Texts)), pc' = "startup" => scripts' # <<>>
  PROVE  IInv'
<1> DEFINE call == LineCall(text)
<1>1. /\ call.text = text /\ call.stage = "parsed" /\ call.ok
      /\ call.commands = [i \in DOMAIN Parsed[text].commands |-> Expand(Parsed[text].commands[i])]
  BY DEF LineCall, NewCall, Call
<1>2. frames' = <<call>> /\ line' = text /\ functionDepth' = functionDepth
  BY DEF Give
<1>3. \A i \in DOMAIN call.commands : call.commands[i] # <<>>
  <2> SUFFICES ASSUME NEW i \in DOMAIN call.commands PROVE call.commands[i] # <<>>
    OBVIOUS
  <2>1. /\ call.commands[i] = Expand(Parsed[text].commands[i])
        /\ DOMAIN Parsed[text].commands[i] # {}
    BY <1>1, ShellDispatchAssumption DEF ShellDispatchAssumption
  <2>2. DOMAIN Expand(Parsed[text].commands[i]) # {}
    BY <2>1 DEF Expand
  <2>3. DOMAIN <<>> = {}
    OBVIOUS
  <2>. QED
    BY <2>1, <2>2, <2>3
<1>4. text = Nothing => call.commands = <<>>
  <2> SUFFICES ASSUME text = Nothing PROVE call.commands = <<>>
    OBVIOUS
  <2>1. Parsed[text].commands = <<>>
    BY ShellDispatchAssumption DEF ShellDispatchAssumption
  <2>2. [i \in DOMAIN <<>> |-> Expand(<<>>[i])] = <<>>
    OBVIOUS
  <2>. QED
    BY <1>1, <2>1, <2>2
<1> HIDE DEF call
<1>5. /\ frames' \in Seq({call}) /\ Len(frames') = 1 /\ frames' # <<>> /\ frames'[1] = call
  BY <1>2
<1>6. CallsAreWhole'
  <2>1. IsSequence(frames')
    BY <1>5 DEF IsSequence
  <2>. QED
    BY <2>1, <1>2 DEF IInv, CallsAreWhole, IsSequence
<1>7. LoopState'
  BY <1>1, <1>2, <1>5 DEF LoopState
<1>8. ExitIsTheLast'
  BY <1>1, <1>5 DEF ExitIsTheLast
<1>9. StatusIsKnown'
  <2>1. OutermostStatus(frames'[1])
    BY <1>1, <1>3, <1>4, <1>5 DEF OutermostStatus
  <2>. QED
    BY <2>1, <1>5 DEF StatusIsKnown, OutermostStatus, IsStatusOf
<1>10. CallsAreCounted'
  <2>1. functionDepth' = 0 /\ functionDepth' <= FunctionLimit
    BY <1>2, ShellDispatchAssumption DEF IInv, CallsAreCounted, ShellDispatchAssumption
  <2>. QED
    BY <2>1, <1>5 DEF CallsAreCounted, Idle
<1>. QED
  BY <1>6, <1>7, <1>8, <1>9, <1>10 DEF IInv

\* The outermost call returns to the loop.
LEMMA LineReturnsStep ==
  ASSUME IInv, LineReturns
  PROVE  IInv'
<1>1. /\ Len(frames) = 1 /\ frames # <<>> /\ Top = frames[1] /\ Top.stage = "return"
      /\ frames' = <<>> /\ lastStatus' = Top.status
      /\ UNCHANGED <<started, line, functionDepth>>
  BY StackFacts DEF LineReturns, ReturnsWith, At, IInv, tableVars
<1>2. Len(frames') = 0
  BY <1>1
<1>3. CallsAreWhole'
  <2>1. frames' \in Seq({})
    BY <1>1
  <2>2. IsSequence(frames')
    BY <2>1 DEF IsSequence
  <2>. QED
    BY <2>2, <1>1 DEF IInv, CallsAreWhole, IsSequence
<1>4. LoopState'
  <2>1. scripts' = scripts \/ (scripts # <<>> /\ scripts' = Tail(scripts))
    BY <1>1 DEF LineReturns, ReturnsWith, IInv, LoopState
  <2>2. scripts' \in Seq(Seq(Texts))
    <3>1. scripts \in Seq(Seq(Texts))
      BY DEF IInv, LoopState
    <3>. QED
      BY <2>1, <3>1, HeadTailProperties
  <2>3. pc # "new"
    BY <1>1 DEF IInv, LoopState
  <2>. QED
    BY <2>2, <2>3, <1>1 DEF IInv, LoopState
<1>5. ExitIsTheLast'
  BY <1>2 DEF ExitIsTheLast
<1>6. StatusIsKnown'
  BY <1>1, <1>2 DEF IInv, LoopState, StatusIsKnown, OutermostStatus, IsStatusOf
<1>7. CallsAreCounted'
  <2>1. functionDepth = 0 /\ functionDepth <= FunctionLimit
    BY <1>1 DEF IInv, CallsAreCounted, Idle
  <2>. QED
    BY <2>1, <1>1 DEF CallsAreCounted, Idle
<1>. QED
  BY <1>3, <1>4, <1>5, <1>6, <1>7 DEF IInv

-----------------------------------------------------------------------------
(* The invariant holds at the start, and every step preserves it. *)

LEMMA InitIInv == Init => IInv
<1> SUFFICES ASSUME Init PROVE IInv
  OBVIOUS
<1>1. frames = <<>> /\ Len(frames) = 0 /\ functionDepth = 0 /\ pc = "new" /\ line = None
  BY DEF Init
<1>2. CallsAreWhole
  <2>1. frames \in Seq({})
    BY <1>1
  <2>. QED
    BY <2>1, <1>1 DEF CallsAreWhole, IsSequence
<1>3. LoopState
  <2>1. scripts \in Seq(Seq(Texts \ {Nothing}))
    BY ShellDispatchAssumption DEF Init, ShellDispatchAssumption
  <2>2. scripts \in Seq(Seq(Texts))
    BY <2>1
  <2>. QED
    BY <2>2, <1>1 DEF LoopState
<1>4. ExitIsTheLast /\ StatusIsKnown
  BY <1>1 DEF ExitIsTheLast, StatusIsKnown
<1>5. CallsAreCounted
  BY <1>1, ShellDispatchAssumption DEF CallsAreCounted, Idle, ShellDispatchAssumption
<1>. QED
  BY <1>2, <1>3, <1>4, <1>5 DEF IInv

\* The first command of an outermost call that runs: its text is no error and
\* not blank.
LEMMA OutermostRuns ==
  ASSUME IInv, At("run"), Len(frames) = 1, NEW status \in {0, 1}
  PROVE  IsStatusOf(status, Top.text)
<1>1. Top = frames[1] /\ frames # <<>> /\ Top.stage = "run"
  BY StackFacts DEF At, IInv
<1>. QED
  BY <1>1 DEF IInv, StatusIsKnown, OutermostStatus, IsStatusOf

LEMMA ExecuteLineStep ==
  ASSUME IInv, ExecuteLine
  PROVE  IInv'
<1>1. ASSUME NEW status \in {0, 1}, At("run"), Decide(status, TRUE)
      PROVE  IInv'
  BY <1>1, DecideStep, OutermostRuns
<1>2. CASE SyntaxFails
  <2>1. Len(frames) = 1 => IsStatusOf(2, Top.text)
    <3> SUFFICES ASSUME Len(frames) = 1 PROVE IsStatusOf(2, Top.text)
      OBVIOUS
    <3>1. Top = frames[1] /\ frames # <<>> /\ Top.stage = "parsed" /\ IsError
      BY <1>2, StackFacts DEF SyntaxFails, At, IInv
    <3>2. OutermostStatus(Top)
      BY <3>1 DEF IInv, StatusIsKnown
    <3>3. <<>> \notin Range(Top.commands)
      BY <3>1, <3>2 DEF OutermostStatus, Range
    <3>4. Parsed[Top.text].error
      BY <3>1, <3>3 DEF IsError
    <3>5. Top.text # Nothing
      BY <3>4, ShellDispatchAssumption DEF ShellDispatchAssumption
    <3>. QED
      BY <3>4, <3>5 DEF IsStatusOf
  <2>. QED
    BY <1>2, <2>1, DecideStep DEF SyntaxFails
<1>3. CASE NothingToDo
  <2>1. IsStatusOf(0, Top.text)
    BY <1>3 DEF NothingToDo, IsBlank, IsStatusOf
  <2>. QED
    BY <1>3, <2>1, DecideStep DEF NothingToDo
<1>4. CASE AliasFails
  <2>1. Len(frames) = 1 => IsStatusOf(1, Top.text)
    <3> SUFFICES ASSUME Len(frames) = 1 PROVE IsStatusOf(1, Top.text)
      OBVIOUS
    <3>1. Top = frames[1] /\ frames # <<>> /\ Top.stage = "parsed" /\ ~IsError /\ ~IsBlank
      BY <1>4, StackFacts DEF AliasFails, At, IInv
    <3>2. OutermostStatus(Top)
      BY <3>1 DEF IInv, StatusIsKnown
    <3>3. ~Parsed[Top.text].error
      BY <3>1 DEF IsError
    <3>4. Top.text # Nothing
      BY <3>1, <3>2, ShellDispatchAssumption
      DEF OutermostStatus, IsBlank, ShellDispatchAssumption
    <3>. QED
      BY <3>3, <3>4 DEF IsStatusOf
  <2>. QED
    BY <1>4, <2>1, DecideStep DEF AliasFails
<1>5. CASE ExpandAliases
  BY <1>5, ExpandAliasesStep
<1>6. CASE SetVariable
  BY <1>1, <1>6 DEF SetVariable, ShellRuns
<1>7. CASE UnsetVariable
  BY <1>1, <1>7 DEF UnsetVariable, ShellRuns
<1>8. CASE DefineFunction
  BY <1>1, <1>8 DEF DefineFunction, ShellRuns
<1>9. CASE RemoveFunction
  BY <1>1, <1>9 DEF RemoveFunction, ShellRuns
<1>10. CASE PrintState
  BY <1>1, <1>10 DEF PrintState, ShellRuns
<1>11. CASE RecursionLimit
  BY <1>1, <1>11 DEF RecursionLimit, IsFunctionCall, ShellRuns
<1>12. CASE CallFunction
  BY <1>12, CallFunctionStep
<1>13. CASE FunctionReturns
  BY <1>13, FunctionReturnsStep
<1>14. CASE JobCommand
  BY <1>1, <1>14 DEF JobCommand, IsOther, ShellRuns
<1>15. CASE RedirectFails
  BY <1>1, <1>15 DEF RedirectFails, IsOther, ShellRuns
<1>16. CASE Exit
  <2>1. At("run") /\ Decide(0, FALSE) /\ functions' = functions
    BY <1>16 DEF Exit, IsBuiltin, IsOther, ShellRuns, tableVars
  <2>2. IsExit(Top)
    BY <1>16 DEF Exit, IsBuiltin, IsOther, ShellRuns, IsPlain, Name, IsExit
  <2>3. Len(frames) = 1 => IsStatusOf(0, Top.text)
    BY <2>1, OutermostRuns
  <2>. QED
    BY <2>1, <2>2, <2>3, DecideStep
<1>17. CASE Builtin
  BY <1>1, <1>17 DEF Builtin, IsBuiltin, IsOther, ShellRuns
<1>18. CASE RunLine
  BY <1>1, <1>18 DEF RunLine, IsOther, ShellRuns
<1>. QED
  BY <1>2, <1>3, <1>4, <1>5, <1>6, <1>7, <1>8, <1>9, <1>10, <1>11, <1>12, <1>13,
     <1>14, <1>15, <1>16, <1>17, <1>18 DEF ExecuteLine

\* A step that touches no call and no status, between two lines.
LEMMA IdleStep ==
  ASSUME IInv, Idle, UNCHANGED <<frames, functionDepth, lastStatus, line>>,
         scripts' \in Seq(Seq(Texts)), started'
  PROVE  IInv'
  BY DEF IInv, Idle, CallsAreWhole, IsSequence, LoopState, ExitIsTheLast, IsExit,
         IsFunction, StatusIsKnown, OutermostStatus, IsStatusOf, CallsAreCounted

LEMMA StepIInv == IInv /\ [Next]_vars => IInv'
<1> SUFFICES ASSUME IInv, [Next]_vars PROVE IInv'
  OBVIOUS
<1>1. /\ scripts \in Seq(Seq(Texts))
      /\ pc # "new" => started
      /\ pc \notin {"startup", "line"} => Idle
  BY DEF IInv, LoopState, Idle
<1>2. CASE Run
  <2>1. scripts' \in Seq(Seq(Texts))
    BY <1>1, <1>2 DEF Run
  <2>. QED
    BY <1>1, <1>2, <2>1, IdleStep DEF Run
<1>3. CASE StartupLine
  <2>1. /\ Idle /\ scripts # <<>> /\ Head(scripts) # <<>> /\ Give(Head(Head(scripts)))
        /\ scripts' = [scripts EXCEPT ![1] = Tail(Head(scripts))]
        /\ pc' = "startup" /\ started'
    BY <1>1, <1>3 DEF StartupLine
  <2>2. Head(scripts) \in Seq(Texts)
    BY <1>1, <2>1, HeadTailProperties
  <2>3. Head(Head(scripts)) \in Texts /\ Tail(Head(scripts)) \in Seq(Texts)
    BY <2>1, <2>2, HeadTailProperties
  <2>4. 1 \in 1..Len(scripts)
    BY <1>1, <2>1
  <2>5. scripts' \in Seq(Seq(Texts)) /\ Len(scripts') = Len(scripts)
    BY <1>1, <2>1, <2>3, <2>4, ExceptSeq
  <2>6. scripts' # <<>>
    BY <2>4, <2>5
  <2>. QED
    BY <2>1, <2>3, <2>5, <2>6, GiveStep
<1>4. CASE StartupEnds
  <2>1. scripts' \in Seq(Seq(Texts))
    BY <1>1, <1>4, HeadTailProperties DEF StartupEnds
  <2>. QED
    BY <1>1, <1>4, <2>1, IdleStep DEF StartupEnds
<1>5. CASE ExecuteLine
  BY <1>5, ExecuteLineStep
<1>6. CASE LineReturns
  BY <1>6, LineReturnsStep
<1>7. CASE ReadLine
  BY <1>1, <1>7, GiveStep DEF ReadLine
<1>8. CASE ReadLastLine
  BY <1>1, <1>8, GiveStep DEF ReadLastLine
<1>9. CASE InputEnds
  BY <1>1, <1>9, IdleStep DEF InputEnds
<1>10. CASE UNCHANGED vars
  BY <1>10 DEF vars, IInv, Idle, CallsAreWhole, IsSequence, LoopState, ExitIsTheLast,
     IsExit, IsFunction, StatusIsKnown, OutermostStatus, IsStatusOf, CallsAreCounted
<1>. QED
  BY <1>2, <1>3, <1>4, <1>5, <1>6, <1>7, <1>8, <1>9, <1>10 DEF Next, ShellStep

-----------------------------------------------------------------------------
\* What a step that ends the shell was.
LEMMA EndingStep ==
  ASSUME IInv, Next, pc' = "ended", pc # "ended"
  PROVE  \/ pc = "prompt"
         \/ lastLine
         \/ /\ started /\ pc = "line" /\ Len(frames) = 1
            /\ IsPlain /\ Name = "exit" /\ ~IsFunction("exit")
            /\ Parsed[line].output # "locked"
<1>1. CASE InputEnds
  BY <1>1 DEF InputEnds
<1>2. CASE LineReturns
  <2> SUFFICES ASSUME ~lastLine
               PROVE  /\ started /\ pc = "line" /\ Len(frames) = 1
                      /\ IsPlain /\ Name = "exit" /\ ~IsFunction("exit")
                      /\ Parsed[line].output # "locked"
    OBVIOUS
  <2>1. Len(frames) = 1 /\ frames # <<>> /\ pc # "startup" /\ ~Top.ok
    BY <1>2 DEF LineReturns, ReturnsWith, At
  <2>2. pc = "line" /\ started /\ Top = frames[1] /\ frames[1].text = line
    BY <2>1, StackFacts DEF IInv, LoopState
  <2>3. IsExit(Top)
    BY <2>1, <2>2 DEF IInv, ExitIsTheLast
  <2>. QED
    BY <2>1, <2>2, <2>3 DEF IsExit, IsPlain, Name
<1>3. CASE Run \/ StartupLine \/ StartupEnds
  BY <1>3 DEF Run, StartupLine, StartupEnds
<1>4. CASE ReadLine \/ ReadLastLine
  BY <1>4 DEF ReadLine, ReadLastLine
<1>5. CASE ExecuteLine
  <2>1. pc' = pc
    BY <1>5 DEF ExecuteLine, SyntaxFails, NothingToDo, AliasFails, ExpandAliases,
       AliasesExpandTo, SetVariable, UnsetVariable, DefineFunction, RemoveFunction,
       PrintState, RecursionLimit, CallFunction, FunctionReturns, BodyReturns,
       JobCommand, RedirectFails, Exit, Builtin, RunLine, Decide, loopVars
  <2>. QED
    BY <2>1
<1>. QED
  BY <1>1, <1>2, <1>3, <1>4, <1>5 DEF Next, ShellStep

-----------------------------------------------------------------------------
\* Every reachable state satisfies the inductive invariant.
THEOREM Invariance == Spec => []IInv
  BY InitIInv, StepIInv, PTL DEF Spec

\* functionDepth is the number of calls in progress at every moment, and never
\* above the limit (state.go:114-122).
THEOREM DepthIsCounted == Spec => []CallsAreCounted
<1>1. IInv => CallsAreCounted
  BY DEF IInv
<1>. QED
  BY <1>1, Invariance, PTL

\* The prompt's status is that of the line typed last (shell.go:130-133).
THEOREM StatusIsKnownAtThePrompt == Spec => []StatusIsTheLines
<1>1. IInv => StatusIsTheLines
  BY DEF IInv, LoopState, StatusIsKnown, IsStatusOf, StatusIsTheLines
<1>. QED
  BY <1>1, Invariance, PTL

\* Nothing but the end of the input and an exit on the typed line itself ends
\* the shell (shell.go:87-90, 159-173).
THEOREM OnlyAnExitEnds == Spec => EndsOnlyAtTheTop
<1>1. IInv /\ [Next]_vars =>
        [pc' = "ended" /\ pc # "ended" =>
           \/ pc = "prompt"
           \/ lastLine
           \/ /\ started /\ pc = "line" /\ Len(frames) = 1
              /\ IsPlain /\ Name = "exit" /\ ~IsFunction("exit")
              /\ Parsed[line].output # "locked"]_vars
  BY EndingStep DEF vars
<1>. QED
  BY <1>1, Invariance, PTL DEF Spec, EndsOnlyAtTheTop
==============================================================================
