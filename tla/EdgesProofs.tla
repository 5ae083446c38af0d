----------------------------- MODULE EdgesProofs -----------------------------
(***************************************************************************)
(* Theorems about the two ends of the program.  How logs come in:          *)
(* RangeBackfill, for every range, request bounds and integer width, tiles *)
(* its range and passes each log once and in order; LiveSubscriber, for    *)
(* any buffer and any number of logs, loses none, misses no error and      *)
(* stops at a cancellation.  What is made of the data: no fold of an       *)
(* evaluation learns from the future, for any data set and split, and a    *)
(* revealed forecast was made before the event, whoever calls.             *)
(***************************************************************************)
EXTENDS RangeBackfill, LiveSubscriber, WalkForward, ForecastCommitReveal, SequenceTheorems,
        WellFoundedInduction, TLAPS

-----------------------------------------------------------------------------
(* Historical logs.                                                        *)

\* The configuration, as NewBackfiller lets it through.
LEMMA Numbers ==
  /\ FromBlock \in Nat /\ ToBlock \in Nat /\ MinRange \in Nat /\ MaxRange \in Nat /\ MaxUint \in Nat
  /\ FromBlock <= ToBlock /\ ToBlock <= MaxUint
  /\ 0 < MinRange /\ MinRange <= MaxRange /\ MaxRange <= MaxUint
  BY BackfillAssumption

\* inclusiveEnd stays within the range and the requested length, also where
\* from + length does not fit in a uint64.
LEMMA EndBounds ==
  ASSUME NEW from \in FromBlock..ToBlock, NEW length \in MinRange..MaxRange
  PROVE  /\ inclusiveEnd(from, length, ToBlock) \in from..ToBlock
         /\ inclusiveEnd(from, length, ToBlock) \in FromBlock..ToBlock
         /\ inclusiveEnd(from, length, ToBlock) - from < MaxRange
  BY BackfillAssumption, SMT DEF inclusiveEnd, Uint

\* growRange never leaves the configured bounds.
LEMMA GrowBounds ==
  ASSUME NEW length \in MinRange..MaxRange
  PROVE  growRange(length) \in MinRange..MaxRange
  BY BackfillAssumption, SMT DEF growRange, Uint

Ended == pc \in {"done", "failed"}

\* Where the loop stands: the last answered request is the one in hand, or
\* ends right before the next one.
Position ==
  /\ pc \in {"request", "asked"} =>
       /\ pending = {}
       /\ IF requests = <<>> THEN next = FromBlock ELSE requests[Len(requests)][2] + 1 = next
  /\ pc = "asked" => next <= to /\ to - next < MaxRange
  /\ pc = "emit" =>
       /\ requests # <<>> /\ requests[Len(requests)] = <<next, to>>
       /\ next <= to
       /\ \A l \in pending : l.block \in next..to
  /\ pc = "done" => to = ToBlock /\ pending = {}

\* What has been emitted: every log below next, and those of the reply in hand
\* that are no longer pending.
Handled(l) ==
  \/ l.block < next
  \/ pc \in {"emit", "done"} /\ l.block <= to /\ l \notin pending

Progress ==
  pc # "failed" =>
    /\ \A l \in Log : Handled(l) => \E i \in 1..Len(emitted) : emitted[i] = l
    /\ \A i \in 1..Len(emitted) : Handled(emitted[i])
    /\ \A i \in 1..Len(emitted), m \in pending : Before(emitted[i], m)

Inv == TypeOK /\ RequestsTile /\ Position /\ EmittedInOrder /\ Progress

\* The invariant holds before the first request.
LEMMA InitInv == Init => Inv
  <1> SUFFICES ASSUME Init PROVE Inv
    OBVIOUS
  <1>1. TypeOK
    BY BackfillAssumption, EmptySeq DEF Init, TypeOK
  <1>2. RequestsTile /\ Position /\ EmittedInOrder
    BY <1>1 DEF Init, RequestsTile, Position, EmittedInOrder
  <1>3. Progress
    BY BackfillAssumption DEF Init, Progress, Handled
  <1> QED
    BY <1>1, <1>2, <1>3 DEF Inv

\* Asking keeps it: the request lies within the range.
LEMMA RequestInv == ASSUME Inv, Request PROVE Inv'
  <1> USE DEF Inv
  <1>1. /\ to' \in next..ToBlock
        /\ to' \in FromBlock..ToBlock
        /\ to' - next < MaxRange
    BY EndBounds DEF Request, TypeOK
  <1>2. /\ pc = "request" /\ pc' = "asked"
        /\ UNCHANGED <<next, size, pending, emitted, requests>>
    BY DEF Request
  <1>3. TypeOK'
    BY <1>1, <1>2 DEF TypeOK
  <1>4. RequestsTile' /\ Position' /\ EmittedInOrder'
    BY <1>1, <1>2 DEF RequestsTile, Position, EmittedInOrder
  <1>5. Progress'
    BY <1>2 DEF Progress, Handled
  <1> QED
    BY <1>3, <1>4, <1>5

\* An answered request keeps it.
LEMMA AnsweredInv == ASSUME Inv, Answered PROVE Inv'
  <1> USE DEF Inv
  <1>1. /\ to \in next..ToBlock
        /\ to \in FromBlock..ToBlock
        /\ to - next < MaxRange
    BY Numbers DEF Answered, Position, TypeOK
  <1>2. /\ pending' = {l \in Log : l.block \in next..to}
        /\ requests' = Append(requests, <<next, to>>)
        /\ pc = "asked" /\ pc' = "emit" /\ UNCHANGED <<next, size, to, emitted>>
    BY DEF Answered
  <1>3. /\ requests \in Seq((FromBlock..ToBlock) \X (FromBlock..ToBlock))
        /\ requests' \in Seq((FromBlock..ToBlock) \X (FromBlock..ToBlock))
        /\ Len(requests') = Len(requests) + 1
        /\ requests'[Len(requests) + 1] = <<next, to>>
        /\ \A i \in 1..Len(requests) : requests'[i] = requests[i]
    BY <1>1, <1>2, AppendProperties DEF TypeOK
  <1>4. TypeOK'
    BY <1>1, <1>2, <1>3 DEF TypeOK
  <1>5. RequestsTile'
    <2> SUFFICES ASSUME NEW i \in 1..(Len(requests) + 1)
                 PROVE  /\ requests'[i][1] = IF i = 1 THEN FromBlock ELSE requests'[i-1][2] + 1
                        /\ requests'[i][1] <= requests'[i][2]
                        /\ requests'[i][2] <= ToBlock
                        /\ requests'[i][2] - requests'[i][1] < MaxRange
      BY <1>3 DEF RequestsTile
    <2>1. CASE i \in 1..Len(requests)
      <3>0. Len(requests) \in Nat
        BY <1>3, LenProperties
      <3>1. i # 1 => i - 1 \in 1..Len(requests)
        BY <2>1, <3>0
      <3>2. requests'[i] = requests[i] /\ (i # 1 => requests'[i-1] = requests[i-1])
        BY <1>3, <2>1, <3>1
      <3> QED
        BY <2>1, <3>2 DEF RequestsTile
    <2>2. CASE i = Len(requests) + 1
      <3>1. requests'[i] = <<next, to>>
        BY <1>3, <2>2
      <3>2. CASE requests = <<>>
        BY <1>1, <1>2, <2>2, <3>1, <3>2, BackfillAssumption DEF Position
      <3>3. CASE requests # <<>>
        <4>1. Len(requests) \in Nat /\ Len(requests) > 0
          BY <1>3, <3>3, EmptySeq, LenProperties
        <4>a. Len(requests) \in 1..Len(requests)
          BY <4>1
        <4>2. requests'[Len(requests)] = requests[Len(requests)]
          BY <1>3, <4>a
        <4>3. i - 1 = Len(requests) /\ i # 1
          BY <2>2, <4>1
        <4> QED
          <5>1. requests[Len(requests)][2] + 1 = next
            BY <1>2, <3>3 DEF Position
          <5>2. requests'[i-1] = requests[Len(requests)]
            BY <4>2, <4>3
          <5>3. requests'[i][1] = next /\ requests'[i][2] = to
            BY <3>1
          <5>4. next \in FromBlock..ToBlock
            BY DEF TypeOK
          <5> QED
            BY <1>1, <4>3, <5>1, <5>2, <5>3, <5>4, Numbers
      <3> QED
        BY <3>2, <3>3
    <2> QED
      BY <1>3, <2>1, <2>2, LenProperties
  <1>6. Position'
    <2>1. requests' # <<>> /\ requests'[Len(requests')] = <<next, to>>
      BY <1>3, LenProperties
    <2> QED
      BY <1>1, <1>2, <2>1 DEF Position
  <1>7. EmittedInOrder'
    BY <1>2 DEF EmittedInOrder
  <1>8. Progress'
    <2>1. ASSUME NEW l \in Log
          PROVE  Handled(l)' <=> Handled(l)
      <3>1. l.block \in Nat /\ next \in Nat
        BY <2>1, BackfillAssumption DEF TypeOK
      <3>2. Handled(l) <=> l.block < next
        BY <1>2 DEF Handled
      <3>3. Handled(l)' <=> l.block < next \/ (l.block <= to /\ l \notin pending')
        BY <1>2 DEF Handled
      <3>4. l \notin pending' <=> ~(l.block \in next..to)
        BY <1>2, <2>1
      <3>5. to \in Nat
        BY <1>1, <3>1
      <3>6. l.block <= to /\ ~(l.block \in next..to) => l.block < next
        BY <3>1, <3>5
      <3> QED
        BY <3>2, <3>3, <3>4, <3>6
    <2>2. \A i \in 1..Len(emitted) : emitted[i] \in Log
      BY ElementOfSeq DEF TypeOK
    <2>3. ASSUME NEW i \in 1..Len(emitted), NEW m \in pending'
          PROVE  Before(emitted[i], m)
      <3>1. emitted[i].block < next
        BY <1>2 DEF Progress, Handled
      <3>2. m.block \in next..to
        BY <1>2, <2>3
      <3> QED
        <4>1. m \in Log /\ emitted[i] \in Log
          BY <1>2, <2>2, <2>3
        <4>2. emitted[i].block \in Nat /\ m.block \in Nat /\ next \in Nat
          <5>1. \A l \in Log : l.block \in FromBlock..ToBlock
            BY BackfillAssumption
          <5>2. next \in FromBlock..ToBlock
            BY DEF TypeOK
          <5> QED
            BY <4>1, <5>1, <5>2, Numbers
        <4> QED
          BY <3>1, <3>2, <4>2, <1>1, Numbers DEF Before
    <2> QED
      BY <1>2, <2>1, <2>2, <2>3 DEF Progress
  <1> QED
    BY <1>4, <1>5, <1>6, <1>7, <1>8

\* A refused request keeps it: the halved length stays within the bounds.
LEMMA RefusedInv == ASSUME Inv, Refused PROVE Inv'
  <1> USE DEF Inv
  <1>1. /\ pc = "asked" /\ pc' \in {"request", "failed"}
        /\ UNCHANGED <<next, to, pending, emitted, requests>>
    BY DEF Refused
  <1>2. size' \in MinRange..MaxRange
    <2>1. /\ next \in Nat /\ to \in Nat /\ to <= MaxUint
          /\ next <= to /\ to - next < MaxRange
          /\ size \in MinRange..MaxRange
      BY <1>1, Numbers DEF TypeOK, Position
    <2>2. Uint(Uint(to - next) + 1) = to - next + 1
      BY <2>1, Numbers DEF Uint
    <2> QED
      BY <2>1, <2>2, Numbers DEF Refused, Halved
  <1>3. TypeOK'
    BY <1>1, <1>2 DEF TypeOK
  <1>4. RequestsTile' /\ Position' /\ EmittedInOrder'
    BY <1>1 DEF RequestsTile, Position, EmittedInOrder
  <1>5. Progress'
    BY <1>1 DEF Progress, Handled
  <1> QED
    BY <1>3, <1>4, <1>5

\* Emitting the least pending log keeps it.
LEMMA EmitInv == ASSUME Inv, Emit PROVE Inv'
  <1> USE DEF Inv
  <1>1. PICK l \in pending : /\ \A m \in pending \ {l} : Before(l, m)
                             /\ pending' = pending \ {l}
                             /\ emitted' = Append(emitted, l)
    BY DEF Emit
  <1>2. pc = "emit" /\ UNCHANGED <<next, size, to, pc, requests>>
    BY DEF Emit
  <1>3. /\ l \in Log /\ emitted \in Seq(Log) /\ emitted' \in Seq(Log)
        /\ Len(emitted) \in Nat
        /\ Len(emitted') = Len(emitted) + 1
        /\ emitted'[Len(emitted) + 1] = l
        /\ \A i \in 1..Len(emitted) : emitted'[i] = emitted[i]
    BY <1>1, AppendProperties, LenProperties DEF TypeOK
  <1>4. TypeOK'
    BY <1>1, <1>2, <1>3 DEF TypeOK
  <1>5. RequestsTile' /\ Position'
    BY <1>1, <1>2 DEF RequestsTile, Position
  <1>6. \A i \in 1..Len(emitted) : Before(emitted[i], l)
    BY <1>1, <1>2 DEF Progress
  <1>7. EmittedInOrder'
    <2> SUFFICES ASSUME NEW i \in 1..Len(emitted'), NEW j \in 1..Len(emitted'), i < j
                 PROVE  Before(emitted'[i], emitted'[j])
      BY DEF EmittedInOrder, Before
    <2>1. i \in 1..Len(emitted) /\ emitted'[i] = emitted[i]
      BY <1>3
    <2>2. CASE j \in 1..Len(emitted)
      BY <1>3, <2>1, <2>2 DEF EmittedInOrder
    <2>3. CASE j = Len(emitted) + 1
      BY <1>3, <1>6, <2>1, <2>3
    <2> QED
      BY <1>3, <2>2, <2>3
  <1>8. Progress'
    <2>1. ASSUME NEW m \in Log, Handled(m)'
          PROVE  \E i \in 1..Len(emitted') : emitted'[i] = m
      <3>1. CASE m = l
        BY <1>3, <3>1
      <3>2. CASE m # l
        <4>1. Handled(m)
          BY <1>1, <1>2, <2>1, <3>2 DEF Handled
        <4>2. PICK i \in 1..Len(emitted) : emitted[i] = m
          BY <1>2, <4>1 DEF Progress
        <4> QED
          BY <1>3, <4>2
      <3> QED
        BY <3>1, <3>2
    <2>2. ASSUME NEW i \in 1..Len(emitted')
          PROVE  Handled(emitted[i])'
      <3>1. CASE i \in 1..Len(emitted)
        <4>1. Handled(emitted[i]) /\ emitted'[i] = emitted[i]
          BY <1>2, <1>3, <3>1 DEF Progress
        <4> QED
          BY <1>1, <1>2, <4>1 DEF Handled
      <3>2. CASE i = Len(emitted) + 1
        <4>1. l.block \in next..to
          BY <1>1, <1>2 DEF Position
        <4>2. emitted'[i] = l /\ l \notin pending' /\ l.block <= to'
          BY <1>1, <1>2, <1>3, <3>2, <4>1
        <4> QED
          BY <1>2, <4>2 DEF Handled
      <3> QED
        BY <1>3, <3>1, <3>2
    <2>3. ASSUME NEW i \in 1..Len(emitted'), NEW m \in pending'
          PROVE  Before(emitted'[i], m)
      <3>1. CASE i \in 1..Len(emitted)
        BY <1>1, <1>2, <1>3, <3>1 DEF Progress
      <3>2. CASE i = Len(emitted) + 1
        BY <1>1, <1>3, <3>2
      <3> QED
        BY <1>3, <3>1, <3>2
    <2> QED
      BY <2>1, <2>2, <2>3 DEF Progress, Before
  <1> QED
    BY <1>4, <1>5, <1>7, <1>8

\* Moving past the range keeps it: to + 1 does not wrap below ToBlock.
LEMMA AdvanceInv == ASSUME Inv, Advance PROVE Inv'
  <1> USE DEF Inv
  <1>1. /\ pc = "emit" /\ pending = {}
        /\ UNCHANGED <<to, pending, emitted, requests>>
    BY DEF Advance
  <1>2. requests # <<>> /\ requests[Len(requests)] = <<next, to>> /\ next <= to
    BY <1>1 DEF Position
  <1>3. CASE to = ToBlock
    <2>1. pc' = "done" /\ UNCHANGED <<next, size>>
      BY <1>3 DEF Advance
    <2>2. TypeOK' /\ RequestsTile' /\ Position' /\ EmittedInOrder'
      BY <1>1, <1>3, <2>1 DEF TypeOK, RequestsTile, Position, EmittedInOrder
    <2>3. Progress'
      BY <1>1, <2>1 DEF Progress, Handled
    <2> QED
      BY <2>2, <2>3
  <1>4. CASE to # ToBlock
    <2>1. pc' = "request" /\ next' = Uint(to + 1) /\ size' = growRange(size)
      BY <1>4 DEF Advance
    <2>2. next' = to + 1 /\ next' \in FromBlock..ToBlock
      <3>1. to \in FromBlock..ToBlock
        BY DEF TypeOK
      <3>2. Uint(to + 1) = to + 1
        BY <1>4, <3>1, Numbers DEF Uint
      <3> QED
        BY <1>4, <2>1, <3>1, <3>2, Numbers
    <2>3. size' \in MinRange..MaxRange
      BY <2>1, GrowBounds DEF TypeOK
    <2>4. TypeOK'
      BY <1>1, <2>1, <2>2, <2>3 DEF TypeOK
    <2>5. RequestsTile' /\ Position' /\ EmittedInOrder'
      BY <1>1, <1>2, <2>1, <2>2 DEF RequestsTile, Position, EmittedInOrder
    <2>6. ASSUME NEW l \in Log
          PROVE  Handled(l)' <=> Handled(l)
      <3>1. l.block \in FromBlock..ToBlock
        BY BackfillAssumption
      <3>2. next \in FromBlock..ToBlock /\ to \in FromBlock..ToBlock
        BY DEF TypeOK
      <3>3. l \notin pending /\ l \notin pending'
        BY <1>1
      <3>4. l.block < to + 1 <=> l.block <= to
        BY <3>1, <3>2, Numbers
      <3>5. l.block < next => l.block <= to
        BY <1>2, <3>1, <3>2, Numbers
      <3> QED
        BY <1>1, <2>1, <2>2, <3>3, <3>4, <3>5 DEF Handled
    <2>7. \A i \in 1..Len(emitted) : emitted[i] \in Log
      BY ElementOfSeq DEF TypeOK
    <2> QED
      BY <1>1, <2>1, <2>4, <2>5, <2>6, <2>7 DEF Progress
  <1> QED
    BY <1>3, <1>4

\* Every step keeps the invariant.
LEMMA StepInv == Inv /\ [Next]_vars => Inv'
  <1> SUFFICES ASSUME Inv, [Next]_vars PROVE Inv'
    OBVIOUS
  <1>0. CASE Request
    BY <1>0, RequestInv
  <1>1. CASE Answered
    BY <1>1, AnsweredInv
  <1>2. CASE Refused
    BY <1>2, RefusedInv
  <1>3. CASE Emit
    BY <1>3, EmitInv
  <1>4. CASE Advance
    BY <1>4, AdvanceInv
  <1>5. CASE Stop
    BY <1>5 DEF Stop, Inv, TypeOK, RequestsTile, Position, EmittedInOrder, Progress
  <1>6. CASE UNCHANGED vars
    <2>1. UNCHANGED <<next, size, to, pending, emitted, pc, requests>>
      BY <1>6 DEF vars
    <2>2. Progress'
      BY <2>1 DEF Inv, Progress, Handled
    <2> QED
      BY <2>1, <2>2 DEF Inv, TypeOK, RequestsTile, Position, EmittedInOrder
  <1> QED
    BY <1>0, <1>1, <1>2, <1>3, <1>4, <1>5, <1>6 DEF Next

\* The invariant holds throughout.
LEMMA Invariance == Spec => []Inv
  BY InitInv, StepInv, PTL DEF Spec

\* The counters stay within the configured bounds at every integer width.
THEOREM BackfillTypeCorrect == Spec => []TypeOK
  <1>1. Inv => TypeOK
    BY DEF Inv
  <1> QED
    BY <1>1, Invariance, PTL

\* The requests tile the range: no gap, no overlap, no overflow at its end.
THEOREM BackfillTilesRange == Spec => []RequestsTile
  <1>1. Inv => RequestsTile
    BY DEF Inv
  <1> QED
    BY <1>1, Invariance, PTL

\* No log is emitted twice or out of order.
THEOREM BackfillEmitsInOrder == Spec => []EmittedInOrder
  <1>1. Inv => EmittedInOrder
    BY DEF Inv
  <1> QED
    BY <1>1, Invariance, PTL

\* A call that succeeds has emitted every log of the range.
THEOREM BackfillIsComplete == Spec => []DoneIsComplete
  <1>1. Inv => DoneIsComplete
    <2> SUFFICES ASSUME Inv, pc = "done", NEW l \in Log
                 PROVE  \E i \in 1..Len(emitted) : emitted[i] = l
      BY DEF DoneIsComplete
    <2>1. to = ToBlock /\ pending = {}
      BY DEF Inv, Position
    <2>2. l.block <= ToBlock
      BY BackfillAssumption
    <2>3. Handled(l)
      BY <2>1, <2>2 DEF Handled
    <2> QED
      BY <2>3 DEF Inv, Progress
  <1> QED
    BY <1>1, Invariance, PTL

-----------------------------------------------------------------------------
(* Live logs.                                                              *)

ErrorBuffer == {<<>>, <<"error">>, <<"nil">>}
Control == {"loop", "select", "received", "emitting", "emitted", "failed", "poll", "drain", "receive", "returned"}

Shape ==
  /\ logs \in Seq(Nat) /\ delivered \in Seq(Nat) /\ errs \in ErrorBuffer
  /\ sent \in Nat /\ current \in Nat /\ late \in Nat /\ left \in Int
  /\ point \in Control /\ terminal \in {"nil", "error"} /\ reported \in BOOLEAN

\* The delivered logs, the one received and the buffered ones are all that was sent,
\* in that order.
Line ==
  /\ \A i \in 1..Len(delivered) : delivered[i] = i
  /\ current # 0 => current = Len(delivered) + 1
  /\ \A i \in 1..Len(logs) : logs[i] = sent - Len(logs) + i
  /\ sent = Len(delivered) + (IF current = 0 THEN 0 ELSE 1) + Len(logs)

\* Only an ended subscription closes a channel or reports an error; Run drains
\* what it then left, and returns "error" or "closed" when nothing of it remains.
\* A log stays in Run's hand only on the way to emit, or when it was cancelled.
Ending ==
  /\ logsClosed \/ errsClosed \/ errs # <<>> => ended
  /\ left > -1 => ended /\ left = Len(logs)
  /\ left >= -1
  /\ point \in {"loop", "select", "poll"} => left = -1
  /\ point = "drain" => left > -1
  /\ point = "receive" => left > 0
  /\ point \in {"received", "emitting"} => current # 0
  /\ current # 0 => point \in {"received", "emitting"} \/ result = "cancelled"
  /\ result # "none" => point = "returned"
  /\ result \in {"error", "closed"} => left = 0

\* The error a subscription ended with is buffered or taken, unless Run returned.
Report ==
  /\ errs = <<"error">> \/ terminal = "error" <=> reported
  /\ left = -1 => terminal = "nil"
  /\ result = "closed" => terminal = "nil" /\ errs # <<"error">>
  /\ result = "error" => reported
  /\ reported => ended

\* One emission may have been about to begin when the context was cancelled.
Lateness ==
  /\ late <= 1
  /\ ~cancelled \/ point = "emitting" => late = 0

IInv == Shape /\ Line /\ Ending /\ Report /\ Lateness

-----------------------------------------------------------------------------
LEMMA LiveInitInv == LiveInit => IInv
<1> SUFFICES ASSUME LiveInit PROVE IInv
  OBVIOUS
<1>1. <<>> \in Seq(Nat) /\ Len(<<>>) = 0
  OBVIOUS
<1>2. Shape
  <2>1. errs = <<>> /\ logs = <<>> /\ delivered = <<>> /\ point = "loop" /\ terminal = "nil"
        /\ sent = 0 /\ current = 0 /\ late = 0 /\ left = -1 /\ reported = FALSE
    BY DEF LiveInit
  <2>2. errs \in ErrorBuffer
    BY <2>1 DEF ErrorBuffer
  <2>3. reported \in BOOLEAN
    BY <2>1
  <2> QED BY <1>1, <2>1, <2>2, <2>3 DEF Shape, Control
<1>3. Line
  BY DEF LiveInit, Line
<1>4. Ending /\ Report /\ Lateness
  BY DEF LiveInit, Ending, Report, Lateness
<1> QED BY <1>2, <1>3, <1>4 DEF IInv

\* What a receive from the log channel takes is the next log in line.
LEMMA Received ==
  ASSUME IInv, logs # <<>>
  PROVE  /\ Head(logs) = sent - Len(logs) + 1 /\ Head(logs) \in Nat
         /\ Tail(logs) \in Seq(Nat) /\ Len(Tail(logs)) = Len(logs) - 1
         /\ \A i \in 1..Len(Tail(logs)) : Tail(logs)[i] = logs[i + 1]
         /\ Len(logs) \in Nat \ {0}
<1>1. logs \in Seq(Nat)
  BY DEF IInv, Shape
<1>2. Len(logs) \in Nat \ {0}
  BY <1>1, EmptySeq
<1>3. Head(logs) = logs[1] /\ Head(logs) \in Nat
  BY <1>1, <1>2, HeadTailProperties
<1>4. /\ Tail(logs) \in Seq(Nat) /\ Len(Tail(logs)) = Len(logs) - 1
      /\ \A i \in 1..Len(Tail(logs)) : Tail(logs)[i] = logs[i + 1]
  BY <1>1, HeadTailProperties
<1> QED BY <1>2, <1>3, <1>4 DEF IInv, Line

\* The error channel's buffer holds the error or it does not.
LEMMA ErrorHeld ==
  ASSUME errs \in ErrorBuffer
  PROVE  "error" \in {errs[i] : i \in 1..Len(errs)} <=> errs = <<"error">>
<1>1. CASE errs = <<>>
  BY <1>1
<1>2. CASE errs = <<"error">>
  BY <1>2
<1>3. CASE errs = <<"nil">>
  BY <1>3
<1> QED BY <1>1, <1>2, <1>3 DEF ErrorBuffer

-----------------------------------------------------------------------------
(* The environment's steps.                                                *)

LEMMA SendPreserves == ASSUME IInv, SendLog PROVE IInv'
<1>1. /\ logs' = Append(logs, sent + 1) /\ sent' = sent + 1 /\ ~ended
      /\ UNCHANGED <<logsClosed, errs, errsClosed, ended, reported, cancelled>> /\ UNCHANGED run
  BY DEF SendLog
<1>2. logs \in Seq(Nat) /\ sent \in Nat /\ Len(logs) \in Nat /\ Len(delivered) \in Nat
  BY DEF IInv, Shape
<1>3. /\ logs' \in Seq(Nat) /\ Len(logs') = Len(logs) + 1
      /\ \A i \in 1..Len(logs) : logs'[i] = logs[i]
      /\ logs'[Len(logs) + 1] = sent + 1
  BY <1>1, <1>2, AppendProperties
<1>4. Shape'
  BY <1>1, <1>2, <1>3 DEF IInv, Shape, run
<1>5. Line'
  <2>1. \A i \in 1..Len(logs') : logs'[i] = sent' - Len(logs') + i
    <3> SUFFICES ASSUME NEW i \in 1..(Len(logs) + 1) PROVE logs'[i] = sent - Len(logs) + i
      BY <1>1, <1>2, <1>3
    <3>1. CASE i \in 1..Len(logs)
      BY <1>3, <3>1 DEF IInv, Line
    <3>2. CASE i = Len(logs) + 1
      BY <1>2, <1>3, <3>2
    <3> QED BY <1>2, <3>1, <3>2
  <2>2. sent' = Len(delivered) + (IF current = 0 THEN 0 ELSE 1) + Len(logs')
    <3>1. sent = Len(delivered) + (IF current = 0 THEN 0 ELSE 1) + Len(logs)
      BY DEF IInv, Line
    <3>2. sent' = sent + 1 /\ Len(logs') = Len(logs) + 1
      BY <1>1, <1>3
    <3>3. CASE current = 0
      BY <1>2, <3>1, <3>2, <3>3
    <3>4. CASE current # 0
      BY <1>2, <3>1, <3>2, <3>4
    <3> QED BY <3>3, <3>4
  <2> QED BY <1>1, <2>1, <2>2 DEF IInv, Line, run
<1>6. Ending' /\ Report' /\ Lateness'
  BY <1>1 DEF IInv, Ending, Report, Lateness, run
<1> QED BY <1>4, <1>5, <1>6 DEF IInv

LEMMA EndPreserves == ASSUME IInv, EndSubscription PROVE IInv'
<1>1. /\ ~ended /\ ended' = TRUE /\ errs' \in ErrorBuffer /\ reported' = (errs' = <<"error">>)
      /\ UNCHANGED <<logs, logsClosed, sent, cancelled>> /\ UNCHANGED run
  BY DEF EndSubscription, ErrorBuffer
<1>2. left = -1 /\ result \notin {"error", "closed"} /\ terminal = "nil" /\ reported' \in BOOLEAN
  BY <1>1 DEF IInv, Ending, Report, Shape
<1> QED BY <1>1, <1>2 DEF IInv, Shape, Line, Ending, Report, Lateness, run

LEMMA CloseLogsPreserves == ASSUME IInv, CloseLogs PROVE IInv'
BY DEF CloseLogs, IInv, Shape, Line, Ending, Report, Lateness, run

LEMMA CancelPreserves == ASSUME IInv, Cancel PROVE IInv'
BY DEF Cancel, IInv, Shape, Line, Ending, Report, Lateness, run, subscription

-----------------------------------------------------------------------------
(* Run's steps.                                                            *)

\* A step that neither takes a log nor emits one.
LEMMA ControlStep ==
  ASSUME IInv, point # "emitting", point' \in Control \ {"emitting"},
         UNCHANGED <<logs, logsClosed, errsClosed, sent, ended, reported, cancelled, delivered, late, current>>,
         errs' \in ErrorBuffer, left' \in Int, terminal' \in {"nil", "error"},
         Ending', Report'
  PROVE  IInv'
BY DEF IInv, Shape, Line, Lateness

\* Run goes on past a look at the context that found it live.
LEMMA GoesPreserves ==
  ASSUME IInv, NEW here, NEW there,
         point = here, point' = there, there = "emitting" => ~cancelled,
         UNCHANGED <<subscription, cancelled, delivered, late, current, left, terminal, result>>,
         \/ <<here, there>> \in {<<"loop", "select">>, <<"received", "emitting">>, <<"poll", "loop">>}
         \/ here = "emitted" /\ there = (IF left = -1 THEN "poll" ELSE "drain")
         \/ here = "drain" /\ there = "receive" /\ left > 0
  PROVE  IInv'
<1>1. UNCHANGED <<logs, logsClosed, errs, errsClosed, sent, ended, reported, cancelled, delivered, late, current,
                  left, terminal, result>>
  BY DEF subscription
<1>2. result = "none"
  BY <1>1 DEF IInv, Ending
<1>3. Shape' /\ Line' /\ Report'
  BY <1>1 DEF IInv, Shape, Line, Report, Control
<1>4. Lateness'
  BY <1>1 DEF IInv, Lateness
<1>5. Ending'
  BY <1>1, <1>2 DEF IInv, Ending, Shape
<1> QED BY <1>3, <1>4, <1>5 DEF IInv

LEMMA ReturnPreserves ==
  ASSUME IInv, NEW how \in {"cancelled", "emit error", "error", "closed"}, Return(how),
         point \notin {"emitting", "returned"},
         how # "cancelled" => point # "received",
         how \in {"error", "closed"} => left = 0,
         how = "error" => reported,
         how = "closed" => terminal = "nil" /\ errs # <<"error">>
  PROVE  IInv'
<1>1. /\ point' = "returned" /\ result' = how
      /\ UNCHANGED <<logs, logsClosed, errs, errsClosed, sent, ended, reported, cancelled, delivered, late, current,
                     left, terminal>>
  BY DEF Return, subscription
<1>2. current # 0 => how = "cancelled"
  BY DEF IInv, Ending
<1>3. Ending' /\ Report'
  BY <1>1, <1>2 DEF IInv, Ending, Report
<1>4. errs' \in ErrorBuffer /\ left' \in Int /\ terminal' \in {"nil", "error"}
  BY <1>1 DEF IInv, Shape
<1> QED BY <1>1, <1>3, <1>4, ControlStep DEF Control

\* The subscription has ended, and what it left is all there is to drain.
LEMMA TakeErrorPreserves ==
  ASSUME IInv, TakeError, point \in {"select", "poll"}
  PROVE  IInv'
<1>1. /\ point' = "drain" /\ left' = Len(logs)
      /\ terminal' = IF errs = <<>> THEN "nil" ELSE Head(errs)
      /\ errs' = IF errs = <<>> THEN errs ELSE Tail(errs)
      /\ UNCHANGED <<logs, logsClosed, errsClosed, sent, ended, reported, cancelled, delivered, late, current, result>>
  BY DEF TakeError
<1>2. errs' = <<>> /\ terminal' \in {"nil", "error"} /\ (terminal' = "error" <=> errs = <<"error">>)
  <2>1. CASE errs = <<>>
    BY <1>1, <2>1
  <2>2. CASE errs = <<"error">>
    BY <1>1, <2>2
  <2>3. CASE errs = <<"nil">>
    BY <1>1, <2>3
  <2> QED BY <2>1, <2>2, <2>3 DEF IInv, Shape, ErrorBuffer
<1>3. Len(logs) \in Nat
  BY DEF IInv, Shape
<1>4. ended
  BY DEF TakeError, ErrorsReady, IInv, Ending
<1>5. result = "none" /\ current = 0 /\ terminal = "nil"
  BY DEF IInv, Ending, Report
<1>6. Ending'
  BY <1>1, <1>2, <1>3, <1>4, <1>5 DEF IInv, Ending
<1>7. Report'
  BY <1>1, <1>2, <1>3, <1>4, <1>5 DEF IInv, Report
<1>8. left' \in Int /\ errs' \in ErrorBuffer
  BY <1>1, <1>2, <1>3 DEF ErrorBuffer
<1> QED BY <1>1, <1>2, <1>6, <1>7, <1>8, ControlStep DEF Control

\* A log is received and becomes the one to emit, or to drop.
LEMMA ReceivePreserves ==
  ASSUME IInv, SelectLog \/ DrainLog
  PROVE  IInv'
<1>1. logs # <<>> /\ point \in {"select", "receive"}
  <2>1. CASE SelectLog
    BY <2>1 DEF SelectLog
  <2>2. CASE DrainLog
    <3>1. point = "receive"
      BY <2>2 DEF DrainLog
    <3>2. left > 0 /\ left = Len(logs)
      BY <3>1 DEF IInv, Shape, Ending
    <3> QED BY <3>1, <3>2
  <2> QED BY <2>1, <2>2
<1>2. /\ current' = Head(logs) /\ logs' = Tail(logs) /\ point' = "received"
      /\ UNCHANGED <<logsClosed, errs, errsClosed, sent, ended, reported, cancelled, delivered, late, terminal, result>>
      /\ left' = IF point = "receive" THEN left - 1 ELSE left
  BY DEF SelectLog, DrainLog
<1>3. /\ sent \in Nat /\ Len(delivered) \in Nat /\ left \in Int
      /\ current = 0 /\ result = "none"
      /\ sent = Len(delivered) + Len(logs)
      /\ \A i \in 1..Len(logs) : logs[i] = sent - Len(logs) + i
      /\ point = "select" => left = -1
      /\ point = "receive" => left > 0 /\ left = Len(logs) /\ ended
  BY <1>1 DEF IInv, Shape, Line, Ending
<1>4. /\ Head(logs) = Len(delivered) + 1 /\ Head(logs) \in Nat
      /\ Tail(logs) \in Seq(Nat) /\ Len(Tail(logs)) = Len(logs) - 1 /\ Len(logs) \in Nat \ {0}
      /\ \A i \in 1..Len(Tail(logs)) : Tail(logs)[i] = sent - Len(Tail(logs)) + i
  <2>1. /\ Head(logs) = sent - Len(logs) + 1 /\ Head(logs) \in Nat
        /\ Tail(logs) \in Seq(Nat) /\ Len(Tail(logs)) = Len(logs) - 1
        /\ \A i \in 1..Len(Tail(logs)) : Tail(logs)[i] = logs[i + 1]
        /\ Len(logs) \in Nat \ {0}
    BY <1>1, Received
  <2> DEFINE n == Len(logs)
  <2>2. n \in Nat \ {0} /\ Len(delivered) \in Nat /\ sent \in Nat
    BY <1>3, <2>1
  <2>3. \A i \in 1..n : logs[i] = sent - n + i
    BY <1>3
  <2>4. sent - n + 1 = Len(delivered) + 1
    <3>1. sent = Len(delivered) + n
      BY <1>3
    <3> HIDE DEF n
    <3> QED BY <2>2, <3>1
  <2>5. \A i \in 1..Len(Tail(logs)) : Tail(logs)[i] = sent - Len(Tail(logs)) + i
    <3> SUFFICES ASSUME NEW i \in 1..(n - 1) PROVE logs[i + 1] = sent - (n - 1) + i
      BY <2>1
    <3> HIDE DEF n
    <3>1. i + 1 \in 1..n /\ i \in Nat
      BY <2>2
    <3>2. logs[i + 1] = sent - n + (i + 1)
      BY <2>3, <3>1
    <3> QED BY <2>2, <3>1, <3>2
  <2> QED BY <2>1, <2>4, <2>5
<1>5. Shape'
  <2>1. left' \in Int
    BY <1>2, <1>3
  <2>2. current' \in Nat /\ logs' \in Seq(Nat) /\ point' \in Control
    BY <1>2, <1>4 DEF Control
  <2> QED BY <1>2, <2>1, <2>2 DEF IInv, Shape
<1>6. Line'
  <2>0. current' = Len(delivered') + 1
    BY <1>2, <1>4
  <2>1. /\ current' # 0
        /\ \A i \in 1..Len(logs') : logs'[i] = sent' - Len(logs') + i
    <3>1. Len(delivered') \in Nat
      BY <1>2, <1>3
    <3>2. current' # 0
      BY <2>0, <3>1
    <3>3. \A i \in 1..Len(logs') : logs'[i] = sent' - Len(logs') + i
      BY <1>2, <1>4
    <3> QED BY <3>2, <3>3
  <2>2. sent' = Len(delivered') + 1 + Len(logs')
    <3>1. sent' = sent /\ Len(delivered') = Len(delivered) /\ Len(logs') = Len(logs) - 1
      BY <1>2, <1>4
    <3>2. sent = Len(delivered) + Len(logs) /\ Len(delivered) \in Nat /\ Len(logs) \in Nat
      BY <1>3, <1>4
    <3> QED BY <3>1, <3>2
  <2>3. \A i \in 1..Len(delivered') : delivered'[i] = i
    BY <1>2 DEF IInv, Line
  <2> QED BY <2>0, <2>1, <2>2, <2>3 DEF Line
<1>7. Ending' /\ Report'
  <2>1. current' # 0
    <3>1. current' = Len(delivered) + 1
      BY <1>2, <1>4
    <3> QED BY <1>3, <3>1
  <2>2. CASE point = "receive"
    <3>1. left' = left - 1 /\ left' = Len(logs') /\ left' \in Nat
      BY <1>2, <1>3, <1>4, <2>2
    <3> QED BY <1>2, <1>3, <2>1, <2>2, <3>1 DEF IInv, Ending, Report
  <2>3. CASE point = "select"
    <3>1. left' = -1
      BY <1>2, <1>3, <2>3
    <3> QED BY <1>2, <1>3, <2>1, <3>1 DEF IInv, Ending, Report
  <2> QED BY <1>1, <2>2, <2>3
<1>8. Lateness'
  BY <1>1, <1>2 DEF IInv, Lateness
<1> QED BY <1>5, <1>6, <1>7, <1>8 DEF IInv

\* The channel is closed and empty: nothing is left to drain.
LEMMA SelectClosedPreserves == ASSUME IInv, SelectClosed PROVE IInv'
<1>1. /\ point = "select" /\ logs = <<>> /\ logsClosed
      /\ point' = "drain" /\ left' = 0 /\ terminal' = "nil"
      /\ UNCHANGED <<logs, logsClosed, errs, errsClosed, sent, ended, reported, cancelled, delivered, late, current,
                     result>>
  BY DEF SelectClosed, subscription
<1>2. Ending' /\ Report'
  BY <1>1 DEF IInv, Ending, Report
<1>3. errs' \in ErrorBuffer
  BY <1>1 DEF IInv, Shape
<1> QED BY <1>1, <1>2, <1>3, ControlStep DEF Control

LEMMA EmitPreserves == ASSUME IInv, EmitLiveLog PROVE IInv'
<1>1. /\ point = "emitting" /\ delivered' = Append(delivered, current) /\ current' = 0
      /\ late' = (IF cancelled THEN late + 1 ELSE late) /\ point' \in {"emitted", "failed"}
      /\ UNCHANGED <<logs, logsClosed, errs, errsClosed, sent, ended, reported, cancelled, left, terminal, result>>
  BY DEF EmitLiveLog, subscription
<1>2. /\ delivered \in Seq(Nat) /\ current \in Nat /\ current # 0 /\ current = Len(delivered) + 1 /\ late = 0
      /\ Len(delivered) \in Nat /\ Len(logs) \in Nat /\ sent = Len(delivered) + 1 + Len(logs)
  BY <1>1 DEF IInv, Shape, Line, Ending, Lateness
<1>3. /\ delivered' \in Seq(Nat) /\ Len(delivered') = Len(delivered) + 1
      /\ \A i \in 1..Len(delivered) : delivered'[i] = delivered[i]
      /\ delivered'[Len(delivered) + 1] = current
  BY <1>1, <1>2, AppendProperties
<1>4. Shape'
  BY <1>1, <1>2, <1>3 DEF IInv, Shape, Control
<1>5. \A i \in 1..Len(delivered') : delivered'[i] = i
  <2> SUFFICES ASSUME NEW i \in 1..(Len(delivered) + 1) PROVE delivered'[i] = i
    BY <1>3
  <2>1. CASE i \in 1..Len(delivered)
    BY <1>3, <2>1 DEF IInv, Line
  <2>2. CASE i = Len(delivered) + 1
    BY <1>2, <1>3, <2>2
  <2> QED BY <1>2, <2>1, <2>2
<1>6. Line'
  <2>1. sent' = Len(delivered') + Len(logs') /\ current' = 0
    BY <1>1, <1>2, <1>3
  <2>2. \A i \in 1..Len(logs') : logs'[i] = sent' - Len(logs') + i
    BY <1>1 DEF IInv, Line
  <2>3. Len(delivered') + 0 + Len(logs') = Len(delivered') + Len(logs')
    BY <1>1, <1>2, <1>3
  <2> QED BY <1>5, <2>1, <2>2, <2>3 DEF Line
<1>7. Ending' /\ Report' /\ Lateness'
  BY <1>1, <1>2 DEF IInv, Ending, Report, Lateness
<1> QED BY <1>4, <1>6, <1>7 DEF IInv

LEMMA StepPreserves == IInv /\ [LiveNext]_liveVars => IInv'
<1> SUFFICES ASSUME IInv, [LiveNext]_liveVars PROVE IInv'
  OBVIOUS
<1>1. CASE SendLog \/ EndSubscription \/ CloseLogs \/ Cancel
  BY <1>1, SendPreserves, EndPreserves, CloseLogsPreserves, CancelPreserves
<1>2. CASE Cancelled \/ EmitFailed
  BY <1>2, ReturnPreserves DEF Cancelled, EmitFailed
<1>3. CASE SelectError \/ PollError
  BY <1>3, TakeErrorPreserves DEF SelectError, PollError
<1>4. CASE SelectLog \/ DrainLog \/ SelectClosed \/ EmitLiveLog
  BY <1>4, ReceivePreserves, SelectClosedPreserves, EmitPreserves
<1>5. CASE Loop \/ CheckLog \/ Emitted \/ DrainNext
  BY <1>5, GoesPreserves DEF Goes, Loop, CheckLog, Emitted, DrainNext
<1>6. CASE PollNothing
  BY <1>6, GoesPreserves DEF PollNothing
<1>7. CASE Terminal
  <2>1. reported
    BY <1>7 DEF Terminal, IInv, Report
  <2> QED BY <1>7, <2>1, ReturnPreserves DEF Terminal
<1>8. CASE LastErrors
  <2>1. errs \in ErrorBuffer
    BY DEF IInv, Shape
  <2>2. CASE errs = <<"error">>
    <3>1. reported
      BY <2>2 DEF IInv, Report
    <3> QED BY <1>8, <2>1, <2>2, <3>1, ErrorHeld, ReturnPreserves DEF LastErrors
  <2>3. CASE errs # <<"error">>
    BY <1>8, <2>1, <2>3, ErrorHeld, ReturnPreserves DEF LastErrors
  <2> QED BY <2>2, <2>3
<1>9. CASE UNCHANGED liveVars
  BY <1>9 DEF liveVars, IInv, Shape, Line, Ending, Report, Lateness
<1> QED BY <1>1, <1>2, <1>3, <1>4, <1>5, <1>6, <1>7, <1>8, <1>9 DEF LiveNext, Step

-----------------------------------------------------------------------------
(* The theorems.                                                           *)

\* Every reachable state satisfies the inductive invariant.
THEOREM InvariantHolds == LiveSpec => []IInv
BY LiveInitInv, StepPreserves, PTL DEF LiveSpec

\* Every log that was sent is delivered once and in order, is buffered, or is the
\* one Run has received; it drops that one only when it returns because the context
\* was cancelled, and has delivered them all when the subscription ended it.
THEOREM EveryLogIsAccountedFor == LiveSpec => []NothingLost
<1>1. IInv => NothingLost
  <2> SUFFICES ASSUME IInv PROVE NothingLost
    OBVIOUS
  <2>1. Len(delivered) \in Nat /\ Len(logs) \in Nat /\ current \in Nat
    BY DEF IInv, Shape
  <2>2. current # 0 => result \in {"none", "cancelled"}
    BY DEF IInv, Ending
  <2>3. result \in {"error", "closed"} => Len(logs) = 0 /\ current = 0
    BY <2>2 DEF IInv, Ending
  <2> QED BY <2>1, <2>2, <2>3 DEF IInv, Line, NothingLost
<1> QED BY <1>1, InvariantHolds, PTL

\* After the cancellation at most one call of emit begins.
THEOREM CancellationStops == LiveSpec => []CancelStops
<1>1. IInv => CancelStops
  BY DEF IInv, Lateness, CancelStops
<1> QED BY <1>1, InvariantHolds, PTL

\* Run returns a clean end only when the subscription ended without an error, and
\* an error only when it ended with one.
THEOREM NoErrorIsMissed == LiveSpec => []ErrorReported
<1>1. IInv => ErrorReported
  BY DEF IInv, Ending, Report, ErrorReported, Shape
<1> QED BY <1>1, InvariantHolds, PTL

-----------------------------------------------------------------------------
(* Walk-forward evaluation.                                                *)

Fold == [cutoff: Int, eligible: SUBSET Int, test: SUBSET Int]

(* Every test window lies below the next one's start, and the last window  *)
(* that was evaluated fits in the data; both are needed with the leakage   *)
(* and disjointness of what has been evaluated so far.                     *)
Folded ==
  /\ folds \in Seq(Fold)
  /\ trainEnd \in Nat /\ trainEnd = config.initial + Len(folds) * config.step
  /\ \A k \in 1..Len(folds) : \A j \in folds[k].test : j <= TestStart
  /\ \A k, l \in 1..Len(folds) : k # l => folds[k].test \cap folds[l].test = {}
  /\ folds # <<>> => TestStart - config.step + config.test <= Len(rows)

Separate ==
  \A k \in 1..Len(folds) :
    \A i \in folds[k].eligible, j \in folds[k].test :
      /\ rows[i].available <= folds[k].cutoff
      /\ rows[i].available < rows[j].time
      /\ rows[i].market # rows[j].market

EvaluationInv ==
  /\ rows \in Datasets /\ validate_values(rows)
  /\ config \in Configs /\ ValidConfig(config)
  /\ Folded /\ Separate
  /\ status # "overlap"
  /\ status = "done" => folds # <<>> /\ ~FoldFits

-----------------------------------------------------------------------------
\* A set of naturals that is not empty has a least element.
LEMMA LeastNatural ==
  ASSUME NEW S \in SUBSET Nat, S # {}
  PROVE  \E i \in S : \A j \in S : i <= j
<1> DEFINE R == {ss \in Nat \X Nat : ss[1] < ss[2]}
<1>1. IsWellFoundedOn(R, Nat)
  BY NatLessThanWellFounded DEF OpToRel
<1>2. PICK x \in S : \A y \in S : ~(<<y, x>> \in R)
  BY <1>1, WFMin
<1>3. \A y \in S : ~(y < x)
  BY <1>2
<1> QED BY <1>2, <1>3

\* Arithmetic of the windows: a is trainEnd, e, t and s are embargo, test and step.
LEMMA Multiples ==
  ASSUME NEW n \in Int, NEW s \in Int
  PROVE  n * s \in Int /\ (n + 1) * s = n * s + s /\ (n - 1) * s = n * s - s
OBVIOUS

LEMMA Window ==
  ASSUME NEW a \in Nat, NEW e \in Int, NEW t \in Int, NEW s \in Int, NEW m \in Nat,
         e > 0, t > 0, s >= t, a + e + t <= m
  PROVE  /\ a + s \in Nat /\ a + e \in Int /\ a + s + e \in Int
         /\ a + 1 \in 1..m /\ a + e <= a + s + e
         /\ (a + s) + e - s + t <= m
         /\ \A i \in 1..a : i \in 1..m /\ a \in 1..m
         /\ \A j \in (a + e) + 1 .. (a + e) + t :
              j \in 1..m /\ a + 1 <= j /\ j > a + e /\ j <= a + s + e
OBVIOUS

\* Decisions are ordered by time: what the loader checks of neighbours holds of
\* any two rows.
LEMMA TimesGoUp ==
  ASSUME NEW d \in Datasets, validate_values(d),
         NEW i \in 1..Len(d), NEW j \in 1..Len(d), i <= j
  PROVE  d[i].time <= d[j].time
<1> DEFINE Earlier == {k \in i..Len(d) : d[k].time < d[i].time}
<1>0. /\ Len(d) \in Nat /\ i \in Nat
      /\ \A k \in 1..Len(d) : d[k].time \in Int
  BY WalkForwardAssumption
<1>1. SUFFICES ASSUME Earlier # {} PROVE FALSE
  BY <1>0
<1>2. PICK k \in Earlier : \A l \in Earlier : k <= l
  <2>1. Earlier \subseteq Nat
    BY <1>0
  <2> HIDE DEF Earlier
  <2> QED BY <1>1, <2>1, LeastNatural
<1>3. k \in 1..Len(d) /\ k # i /\ k \in i..Len(d) /\ d[k].time < d[i].time
  BY <1>0, <1>2
<1>4. k - 1 \in i..Len(d) /\ k \in 2..Len(d) /\ k - 1 \in 1..Len(d)
  BY <1>0, <1>3
<1>5. d[k].time >= d[k-1].time
  BY <1>4 DEF validate_values
<1>6. k - 1 \in Earlier
  BY <1>0, <1>3, <1>4, <1>5
<1> QED BY <1>0, <1>2, <1>3, <1>6

\* A row that can be trained on at the end of the window is of another market
\* than any row after the window, unless the cutoff is tied.
LEMMA MarketsApart ==
  ASSUME EvaluationInv, FoldFits, ~TiedCutoff, NEW i \in Eligible, NEW j \in TestRows
  PROVE  /\ rows[i].available <= Cutoff /\ Cutoff < rows[j].time
         /\ rows[i].available < rows[j].time
         /\ rows[i].market # rows[j].market
         /\ i \in Int /\ j \in Int /\ j > TestStart
<1>1. /\ rows \in Datasets /\ validate_values(rows) /\ Len(rows) \in Nat
      /\ \A k \in 1..Len(rows) : rows[k].time \in Int /\ rows[k].available \in Int
  BY WalkForwardAssumption DEF EvaluationInv
<1>2. /\ config.initial \in Int /\ config.embargo \in Int /\ config.test \in Int
      /\ config.embargo > 0 /\ config.test > 0 /\ trainEnd \in Nat
      /\ config.step \in Int /\ config.step >= config.test
  BY WalkForwardAssumption DEF EvaluationInv, ValidConfig, Folded
<1>3. trainEnd + config.embargo + config.test <= Len(rows)
  BY DEF FoldFits, TestStart
<1>4. /\ i \in 1..trainEnd /\ rows[i].available <= Cutoff
      /\ j \in (trainEnd + config.embargo) + 1 .. (trainEnd + config.embargo) + config.test
  BY DEF Eligible, TestRows, TestStart
<1>5. /\ i \in 1..Len(rows) /\ j \in 1..Len(rows) /\ trainEnd + 1 \in 1..Len(rows)
      /\ trainEnd \in 1..Len(rows) /\ trainEnd + 1 <= j
  <2>1. PICK n, e, t, w, m : /\ n = trainEnd /\ e = config.embargo /\ t = config.test
                            /\ w = config.step /\ m = Len(rows)
    OBVIOUS
  <2>2. /\ n \in Nat /\ e \in Int /\ t \in Int /\ w \in Int /\ m \in Nat
        /\ e > 0 /\ t > 0 /\ w >= t /\ n + e + t <= m
    BY <1>1, <1>2, <1>3, <2>1
  <2>3. i \in 1..n /\ j \in (n + e) + 1 .. (n + e) + t
    BY <1>4, <2>1
  <2>4. i \in 1..m /\ n \in 1..m /\ n + 1 \in 1..m /\ j \in 1..m /\ n + 1 <= j
    BY <2>2, <2>3, Window
  <2> QED BY <2>1, <2>4
<1>6. rows[trainEnd + 1].time <= rows[j].time
  BY <1>1, <1>5, TimesGoUp
<1>7. rows[trainEnd].time < rows[trainEnd + 1].time
  <2>1. ~(rows[trainEnd].time >= rows[trainEnd + 1].time)
    BY DEF TiedCutoff, Cutoff
  <2> QED BY <1>1, <1>5, <2>1
<1>8. Cutoff < rows[j].time /\ rows[i].available < rows[j].time
  <2>1. /\ rows[trainEnd].time \in Int /\ rows[trainEnd + 1].time \in Int
        /\ rows[j].time \in Int /\ rows[i].available \in Int
    BY <1>1, <1>5
  <2>2. rows[i].available <= rows[trainEnd].time
    BY <1>4 DEF Cutoff
  <2> QED BY <1>6, <1>7, <2>1, <2>2 DEF Cutoff
<1>9. rows[i].market # rows[j].market
  <2> SUFFICES ASSUME rows[i].market = rows[j].market PROVE FALSE
    OBVIOUS
  <2>1. ValidMarket(rows, rows[i].market)
    BY <1>1, <1>5 DEF validate_values
  <2>2. rows[i].available > rows[j].time
    BY <1>5, <2>1 DEF ValidMarket, RowsOfMarket
  <2> QED BY <1>1, <1>5, <1>8, <2>2
<1> QED BY <1>2, <1>4, <1>8, <1>9 DEF TestStart

LEMMA FoldInit == EvaluationInit => EvaluationInv
<1> SUFFICES ASSUME EvaluationInit PROVE EvaluationInv
  OBVIOUS
<1>1. /\ rows \in Datasets /\ validate_values(rows) /\ config \in Configs /\ ValidConfig(config)
      /\ trainEnd = config.initial /\ folds = <<>> /\ status = "running"
  BY DEF EvaluationInit
<1>2. config.initial \in Int /\ config.initial > 0 /\ config.step \in Int
  BY <1>1, WalkForwardAssumption DEF ValidConfig
<1>3. folds \in Seq(Fold) /\ Len(folds) = 0
  BY <1>1
<1>4. trainEnd \in Nat /\ trainEnd = config.initial + Len(folds) * config.step
  BY <1>1, <1>2, <1>3
<1>5. Folded /\ Separate
  BY <1>1, <1>3, <1>4 DEF Folded, Separate
<1> QED BY <1>1, <1>5 DEF EvaluationInv

\* A fold that passes its checks: its window starts above every earlier one, and
\* nothing it trains on was public only after the cutoff.
LEMMA EvaluatePreserves == ASSUME EvaluationInv, EvaluateFold PROVE EvaluationInv'
<1> DEFINE fold == [cutoff |-> Cutoff, eligible |-> Eligible, test |-> TestRows]
           n == Len(folds)
<1>1. /\ status = "running" /\ FoldFits /\ ~TiedCutoff
      /\ folds' = Append(folds, fold) /\ trainEnd' = trainEnd + config.step
      /\ rows' = rows /\ config' = config /\ status' = status
  BY DEF EvaluateFold
<1>2. /\ config.initial \in Int /\ config.embargo \in Int /\ config.test \in Int /\ config.step \in Int
      /\ config.embargo > 0 /\ config.test > 0 /\ config.step >= config.test
      /\ trainEnd \in Nat /\ trainEnd = config.initial + n * config.step
      /\ folds \in Seq(Fold) /\ n \in Nat /\ Len(rows) \in Nat
      /\ config.initial > 0
  BY WalkForwardAssumption DEF EvaluationInv, ValidConfig, Folded
<1>3. trainEnd + config.embargo + config.test <= Len(rows)
  BY <1>1 DEF FoldFits, TestStart
<1>4. fold \in Fold /\ fold.cutoff = Cutoff /\ fold.eligible = Eligible /\ fold.test = TestRows
  <2>1. Cutoff \in Int
    <3>1. trainEnd # 0
      <4>1. CASE n = 0
        BY <1>2, <4>1
      <4>2. CASE n # 0
        <5>1. n * config.step >= 0
          BY <1>2
        <5> QED BY <1>2, <5>1
      <4> QED BY <4>1, <4>2
    <3>2. trainEnd \in 1..Len(rows)
      <4>1. PICK e, t, l : e = config.embargo /\ t = config.test /\ l = Len(rows)
        OBVIOUS
      <4>2. trainEnd \in Nat /\ e \in Int /\ t \in Int /\ l \in Nat /\ e > 0 /\ t > 0
        BY <1>2, <4>1
      <4>3. trainEnd + e + t <= l
        BY <1>3, <4>1
      <4>4. trainEnd \in 1..l
        BY <3>1, <4>2, <4>3
      <4> QED BY <4>1, <4>4
    <3> QED BY <3>2, WalkForwardAssumption DEF Cutoff, EvaluationInv
  <2>2. Eligible \subseteq Int /\ TestRows \subseteq Int
    BY <1>2 DEF Eligible, TestRows, TestStart
  <2> QED BY <2>1, <2>2 DEF Fold
<1> HIDE DEF fold
<1>5. /\ folds' \in Seq(Fold) /\ Len(folds') = n + 1 /\ folds'[n + 1] = fold
      /\ \A k \in 1..n : folds'[k] = folds[k]
  BY <1>1, <1>2, <1>4, AppendProperties
<1>6. \A k \in 1..(n + 1) : k \in 1..n \/ k = n + 1
  BY <1>2
<1>7. Separate'
  <2> SUFFICES ASSUME NEW k \in 1..(n + 1), NEW i \in folds'[k].eligible, NEW j \in folds'[k].test
               PROVE  /\ rows[i].available <= folds'[k].cutoff
                      /\ rows[i].available < rows[j].time
                      /\ rows[i].market # rows[j].market
    BY <1>1, <1>5 DEF Separate
  <2>1. CASE k \in 1..n
    BY <1>5, <2>1 DEF EvaluationInv, Separate
  <2>2. CASE k = n + 1
    <3>1. i \in Eligible /\ j \in TestRows /\ folds'[k].cutoff = Cutoff
      BY <1>4, <1>5, <2>2
    <3> QED BY <1>1, <3>1, MarketsApart
  <2> QED BY <1>6, <2>1, <2>2
<1>8. /\ \A j \in TestRows : j > TestStart /\ j <= TestStart' /\ j \in Int
      /\ TestStart \in Int /\ TestStart' \in Int /\ TestStart <= TestStart'
      /\ trainEnd' \in Nat /\ TestStart' - config.step + config.test <= Len(rows)
  <2> DEFINE a == trainEnd
             e == config.embargo
             t == config.test
             s == config.step
  <2>1. /\ a + s \in Nat /\ a + e \in Int /\ a + s + e \in Int
        /\ a + e <= a + s + e /\ (a + s) + e - s + t <= Len(rows)
        /\ \A j \in (a + e) + 1 .. (a + e) + t : j \in 1..Len(rows) /\ j > a + e /\ j <= a + s + e
    <3> HIDE DEF a, e, t, s
    <3>1. /\ a \in Nat /\ e \in Int /\ t \in Int /\ s \in Int /\ Len(rows) \in Nat
          /\ e > 0 /\ t > 0 /\ s >= t /\ a + e + t <= Len(rows)
      BY <1>2, <1>3 DEF a, e, t, s
    <3> QED BY <3>1, Window
  <2>2. /\ TestStart = a + e /\ TestStart' = (a + s) + e /\ trainEnd' = a + s
        /\ TestRows = (a + e) + 1 .. (a + e) + t
    BY <1>1 DEF TestRows, TestStart
  <2>3. \A j \in TestRows : j > TestStart /\ j <= TestStart' /\ j \in Int
    <3> SUFFICES ASSUME NEW j \in TestRows PROVE j > TestStart /\ j <= TestStart' /\ j \in Int
      OBVIOUS
    <3> HIDE DEF a, e, t, s
    <3>1. j \in 1..Len(rows) /\ j > a + e /\ j <= a + s + e
      BY <2>1, <2>2
    <3> QED BY <2>2, <3>1
  <2>4. TestStart' - config.step + config.test <= Len(rows)
    <3>1. (a + s) + e - s + t <= Len(rows) /\ TestStart' = (a + s) + e /\ s = config.step /\ t = config.test
      BY <2>1, <2>2
    <3> HIDE DEF a, e, t, s
    <3>2. a + s \in Nat /\ e \in Int /\ t \in Int /\ s \in Int /\ Len(rows) \in Nat
      BY <1>2, <2>1 DEF e, t, s
    <3> QED BY <3>1, <3>2
  <2> HIDE DEF a, e, t, s
  <2> QED BY <2>1, <2>2, <2>3, <2>4
<1>9. \A k \in 1..(n + 1) : \A j \in folds'[k].test : j <= TestStart'
  <2> SUFFICES ASSUME NEW k \in 1..(n + 1), NEW j \in folds'[k].test PROVE j <= TestStart'
    OBVIOUS
  <2>1. CASE k \in 1..n
    <3>1. j \in folds[k].test /\ folds[k] \in Fold /\ j <= TestStart
      BY <1>2, <1>5, <2>1 DEF EvaluationInv, Folded
    <3>2. j \in Int
      BY <3>1 DEF Fold
    <3> QED BY <1>8, <3>1, <3>2
  <2>2. CASE k = n + 1
    BY <1>4, <1>5, <1>8, <2>2
  <2> QED BY <1>6, <2>1, <2>2
<1>10. \A k \in 1..n : \A j \in folds[k].test : j \notin TestRows
  <2> SUFFICES ASSUME NEW k \in 1..n, NEW j \in folds[k].test, j \in TestRows PROVE FALSE
    OBVIOUS
  <2>1. j <= TestStart
    BY DEF EvaluationInv, Folded
  <2> QED BY <1>8, <2>1
<1>11. \A k, l \in 1..(n + 1) : k # l => folds'[k].test \cap folds'[l].test = {}
  <2> SUFFICES ASSUME NEW k \in 1..(n + 1), NEW l \in 1..(n + 1), k # l
               PROVE  folds'[k].test \cap folds'[l].test = {}
    OBVIOUS
  <2>1. CASE k \in 1..n /\ l \in 1..n
    BY <1>5, <2>1 DEF EvaluationInv, Folded
  <2>2. CASE k \in 1..n /\ l = n + 1
    BY <1>4, <1>5, <1>10, <2>2
  <2>3. CASE l \in 1..n /\ k = n + 1
    BY <1>4, <1>5, <1>10, <2>3
  <2> QED BY <1>6, <2>1, <2>2, <2>3
<1>12. trainEnd' \in Nat /\ trainEnd' = config'.initial + Len(folds') * config'.step
  <2> HIDE DEF n
  <2>1. (n + 1) * config.step = n * config.step + config.step /\ n * config.step \in Int
    BY <1>2, Multiples
  <2>2. config'.initial + Len(folds') * config'.step = config.initial + (n + 1) * config.step
    BY <1>1, <1>5
  <2>3. trainEnd' = config.initial + n * config.step + config.step
    BY <1>1, <1>2
  <2>4. config.initial + (n + 1) * config.step = config.initial + n * config.step + config.step
    <3> DEFINE product == n * config.step
               further == (n + 1) * config.step
    <3>1. product \in Int /\ further = product + config.step
      BY <2>1
    <3>2. config.initial \in Int /\ config.step \in Int
      BY <1>2
    <3> HIDE DEF product, further
    <3> QED BY <3>1, <3>2 DEF product, further
  <2> QED BY <1>8, <2>2, <2>3, <2>4
<1>13. TestStart' - config'.step + config'.test <= Len(rows')
  BY <1>1, <1>8
<1>14. Folded'
  BY <1>5, <1>9, <1>11, <1>12, <1>13 DEF Folded
<1> QED BY <1>1, <1>7, <1>14 DEF EvaluationInv

LEMMA KeepFolds ==
  ASSUME Folded, Separate, UNCHANGED <<rows, config, trainEnd, folds>>
  PROVE  Folded' /\ Separate'
BY DEF Folded, Separate, TestStart

LEMMA FoldStep == EvaluationInv /\ [EvaluationNext]_evaluationVars => EvaluationInv'
<1> SUFFICES ASSUME EvaluationInv, [EvaluationNext]_evaluationVars PROVE EvaluationInv'
  OBVIOUS
<1>1. CASE FoldRaises
  <2>1. /\ UNCHANGED <<rows, config, trainEnd, folds>> /\ status' # "done"
        /\ status' = "overlap" => FoldFits /\ ~TiedCutoff /\ Overlap
    BY <1>1 DEF FoldRaises, Raise
  <2>2. status' # "overlap"
    <3> SUFFICES ASSUME FoldFits, ~TiedCutoff, Overlap PROVE FALSE
      BY <2>1
    <3>1. PICK i \in Eligible, j \in TestRows : rows[i].market = rows[j].market
      BY DEF Overlap, MarketsOf
    <3> QED BY <3>1, MarketsApart
  <2>3. Folded' /\ Separate'
    BY <2>1, KeepFolds DEF EvaluationInv
  <2> QED BY <2>1, <2>2, <2>3 DEF EvaluationInv
<1>2. CASE EvaluateFold
  BY <1>2, EvaluatePreserves
<1>3. CASE Finish
  <2>1. /\ UNCHANGED <<rows, config, trainEnd, folds>> /\ ~FoldFits
        /\ status' \in {"no folds", "done"} /\ (status' = "done" => folds # <<>>)
    BY <1>3 DEF Finish
  <2>2. Folded' /\ Separate'
    BY <2>1, KeepFolds DEF EvaluationInv
  <2>3. ~FoldFits'
    BY <2>1 DEF FoldFits, TestStart
  <2> QED BY <2>1, <2>2, <2>3 DEF EvaluationInv
<1>4. CASE UNCHANGED evaluationVars
  BY <1>4 DEF evaluationVars, EvaluationInv, Folded, Separate, TestStart, FoldFits
<1> QED BY <1>1, <1>2, <1>3, <1>4 DEF EvaluationNext

LEMMA FoldInv == EvaluationSpec => []EvaluationInv
BY FoldInit, FoldStep, PTL DEF EvaluationSpec

\* No fold trains on an outcome that was not public before every decision it is
\* tested on, and the check for markets on both sides never raises.
THEOREM NoFoldLearnsFromTheFuture == EvaluationSpec => []NoLeakage
<1>1. EvaluationInv => NoLeakage
  BY DEF EvaluationInv, Separate, NoLeakage
<1> QED BY <1>1, FoldInv, PTL

\* No row is tested twice, and a finished evaluation left out no complete fold.
THEOREM FoldsAreDisjointAndComplete == EvaluationSpec => []FoldsAreAll
<1>1. EvaluationInv => FoldsAreAll
  <2> SUFFICES ASSUME EvaluationInv PROVE FoldsAreAll
    OBVIOUS
  <2>1. \A k, l \in 1..Len(folds) : k # l => folds[k].test \cap folds[l].test = {}
    BY DEF EvaluationInv, Folded
  <2>2. ASSUME status = "done"
        PROVE  LET last == config.initial + (Len(folds) - 1) * config.step
               IN /\ last + config.embargo + config.test <= Len(rows)
                  /\ last + config.step + config.embargo + config.test > Len(rows)
    <3> DEFINE n == Len(folds)
               last == config.initial + (n - 1) * config.step
    <3>1. /\ config.initial \in Int /\ config.embargo \in Int /\ config.test \in Int
          /\ config.step \in Int /\ n \in Nat /\ trainEnd \in Nat
          /\ trainEnd = config.initial + n * config.step /\ Len(rows) \in Nat
      BY WalkForwardAssumption DEF EvaluationInv, Folded
    <3>2. (n - 1) * config.step = n * config.step - config.step /\ n * config.step \in Int
      <4> HIDE DEF n
      <4> QED BY <3>1, Multiples
    <3>3. last = trainEnd - config.step
      <4> DEFINE product == n * config.step
      <4>1. /\ last = config.initial + (product - config.step) /\ product \in Int
            /\ trainEnd = config.initial + product
        BY <3>1, <3>2
      <4> HIDE DEF product, last
      <4> QED BY <3>1, <4>1
    <3>4. trainEnd + config.embargo - config.step + config.test <= Len(rows)
      <4>1. folds # <<>>
        BY <2>2 DEF EvaluationInv
      <4>2. folds # <<>> => TestStart - config.step + config.test <= Len(rows)
        BY DEF EvaluationInv, Folded
      <4>3. TestStart - config.step + config.test <= Len(rows) /\ TestStart = trainEnd + config.embargo
        BY <4>1, <4>2 DEF TestStart
      <4> HIDE DEF last, n
      <4> QED BY <3>1, <4>3
    <3>5. ~(trainEnd + config.embargo + config.test <= Len(rows))
      BY <2>2 DEF EvaluationInv, FoldFits, TestStart
    <3> HIDE DEF last, n
    <3>6. /\ last \in Int /\ config.embargo \in Int /\ config.test \in Int /\ config.step \in Int
          /\ trainEnd \in Nat /\ Len(rows) \in Nat
      BY <3>1, <3>3
    <3>7. last + config.embargo + config.test <= Len(rows)
      BY <3>3, <3>4, <3>6
    <3>8. last + config.step = trainEnd
      BY <3>3, <3>6
    <3>9. last + config.step + config.embargo + config.test > Len(rows)
      BY <3>5, <3>6, <3>8
    <3> QED BY <3>7, <3>9 DEF last, n
  <2> QED BY <2>1, <2>2 DEF FoldsAreAll
<1> QED BY <1>1, FoldInv, PTL

-----------------------------------------------------------------------------
(* ForecastCommitReveal.                                                   *)

Commitment == [hash: Hashes \cup {<<>>}, time: Timestamp \cup {0}, resolution: Timestamp \cup {0},
               revealed: BOOLEAN]

\* The commitment that event j is about
About(j) == commitments[log[j].forecaster][log[j].market]

\* The commitment of an event is still as it was when the event was emitted: no
\* call overwrites a hash or its resolution time.
EntryOk(j) ==
  LET e == log[j]  c == About(j)
  IN  /\ e.forecaster \in Forecaster /\ e.market \in ForecastMarket
      /\ c.hash # <<>> /\ e.resolution = c.resolution
      /\ Committed(j) => c.hash = e.hash /\ e.time < e.resolution
      /\ Revealed(j) =>
           /\ e.resolution <= e.time
           /\ c.hash = computeCommitment(e.forecaster, e.market, e.resolution, e.p, e.salt)
           /\ \E i \in 1..Len(log) : i < j /\ Committed(i) /\ SameKey(i, j)

RegistryInv ==
  /\ commitments \in [Forecaster -> [ForecastMarket -> Commitment]] /\ timestamp \in Timestamp
  /\ DOMAIN log = 1..Len(log) /\ Len(log) \in Nat
  /\ \A j \in 1..Len(log) : EntryOk(j)
  /\ \A i, j \in 1..Len(log) :
       Committed(i) /\ Committed(j) /\ SameKey(i, j) => i = j
  /\ \A f \in Forecaster, m \in ForecastMarket :
       commitments[f][m].hash # <<>> =>
         \E i \in 1..Len(log) : Committed(i) /\ log[i].forecaster = f /\ log[i].market = m

\* Append, whatever the elements are.
LEMMA AppendAny ==
  ASSUME NEW s, NEW x, Len(s) \in Nat, DOMAIN s = 1..Len(s)
  PROVE  /\ Len(Append(s, x)) = Len(s) + 1
         /\ DOMAIN Append(s, x) = 1..(Len(s) + 1)
         /\ \A j \in 1..Len(s) : Append(s, x)[j] = s[j]
         /\ Append(s, x)[Len(s) + 1] = x
OBVIOUS

LEMMA RegistryStart == RegistryInit => RegistryInv
<1> SUFFICES ASSUME RegistryInit PROVE RegistryInv
  OBVIOUS
<1>1. NoCommitment \in Commitment /\ NoCommitment.hash = <<>>
  BY DEF NoCommitment, Commitment
<1>2. /\ commitments \in [Forecaster -> [ForecastMarket -> Commitment]] /\ timestamp \in Timestamp
      /\ \A f \in Forecaster, m \in ForecastMarket : commitments[f][m].hash = <<>>
  BY <1>1 DEF RegistryInit
<1>3. log = <<>> /\ Len(log) = 0 /\ DOMAIN log = 1..Len(log)
  BY DEF RegistryInit
<1> QED BY <1>2, <1>3 DEF RegistryInv

\* A call of forecaster f about market m leaves the commitment x and emits e: the
\* first commit of that key, or a reveal of what was committed.
LEMMA Call ==
  ASSUME RegistryInv, NEW f \in Forecaster, NEW m \in ForecastMarket, NEW x \in Commitment, NEW e,
         commitments' = [commitments EXCEPT ![f] = [commitments[f] EXCEPT ![m] = x]],
         log' = Append(log, e), timestamp' = timestamp,
         e.forecaster = f, e.market = m, x.hash # <<>>, e.resolution = x.resolution,
         \/ /\ e.kind = "committed" /\ commitments[f][m].hash = <<>>
            /\ x.hash = e.hash /\ e.time < e.resolution
         \/ /\ e.kind = "revealed" /\ commitments[f][m].hash = x.hash
            /\ commitments[f][m].resolution = x.resolution
            /\ e.resolution <= e.time
            /\ x.hash = computeCommitment(f, m, e.resolution, e.p, e.salt)
  PROVE  RegistryInv'
<1>0. PICK n \in Nat : n = Len(log)
  BY DEF RegistryInv
<1>1. /\ Len(log) = n /\ Len(log') = n + 1 /\ DOMAIN log' = 1..(n + 1)
      /\ \A j \in 1..n : log'[j] = log[j]
      /\ log'[n + 1] = e
  BY <1>0, AppendAny DEF RegistryInv
<1>2. /\ commitments' \in [Forecaster -> [ForecastMarket -> Commitment]]
      /\ commitments'[f][m] = x
      /\ \A g \in Forecaster, k \in ForecastMarket : g # f \/ k # m => commitments'[g][k] = commitments[g][k]
  BY DEF RegistryInv
<1>3. \A j \in 1..(n + 1) : j \in 1..n \/ j = n + 1
  BY <1>1
<1>4. \A j \in 1..n : (Committed(j)' <=> Committed(j))
                      /\ (Revealed(j)' <=> Revealed(j))
  BY <1>1 DEF Committed, Revealed
<1>5. \A i, j \in 1..n : SameKey(i, j)' <=> SameKey(i, j)
  BY <1>1 DEF SameKey
<1>6. ASSUME NEW j \in 1..n, log[j].forecaster = f, log[j].market = m
      PROVE  /\ e.kind = "revealed" /\ x.hash = About(j).hash /\ x.resolution = About(j).resolution
  <2>1. About(j) = commitments[f][m] /\ About(j).hash # <<>>
    BY <1>1, <1>6 DEF RegistryInv, EntryOk, About
  <2> QED BY <2>1
<1>7. ASSUME NEW j \in 1..n PROVE EntryOk(j)'
  <2>1. EntryOk(j) /\ log'[j] = log[j]
    BY <1>1, <1>7 DEF RegistryInv
  <2>2. About(j)'.hash = About(j).hash /\ About(j)'.resolution = About(j).resolution
    <3>1. CASE log[j].forecaster = f /\ log[j].market = m
      BY <1>2, <1>6, <2>1, <3>1 DEF About
    <3>2. CASE ~(log[j].forecaster = f /\ log[j].market = m)
      BY <1>2, <2>1, <3>2 DEF About, EntryOk
    <3> QED BY <3>1, <3>2
  <2>3. ASSUME Revealed(j)
        PROVE  \E i \in 1..(n + 1) : i < j /\ Committed(i)' /\ SameKey(i, j)'
    <3>1. PICK i \in 1..n : i < j /\ Committed(i) /\ SameKey(i, j)
      BY <1>1, <2>1, <2>3 DEF EntryOk
    <3> QED BY <1>4, <1>5, <3>1
  <2>4. \E i \in 1..(n + 1) : TRUE
    BY <1>1
  <2> QED BY <1>1, <1>4, <2>1, <2>2, <2>3 DEF EntryOk
<1>8. EntryOk(n + 1)'
  <2>1. About(n + 1)' = x
    BY <1>1, <1>2 DEF About
  <2>2. /\ (Committed(n + 1)' <=> e.kind = "committed")
        /\ (Revealed(n + 1)' <=> e.kind = "revealed")
    BY <1>1 DEF Committed, Revealed
  <2>3. ASSUME e.kind = "revealed"
        PROVE  \E i \in 1..(n + 1) : i < n + 1 /\ Committed(i)' /\ SameKey(i, n + 1)'
    <3>1. PICK i \in 1..n : Committed(i) /\ log[i].forecaster = f /\ log[i].market = m
      BY <1>1, <2>3 DEF RegistryInv
    <3>2. SameKey(i, n + 1)'
      BY <1>1, <3>1 DEF SameKey
    <3> QED BY <1>4, <3>1, <3>2
  <2> QED BY <1>1, <2>1, <2>2, <2>3 DEF EntryOk
<1>9. ASSUME NEW i \in 1..(n + 1), NEW j \in 1..(n + 1),
             Committed(i)', Committed(j)', SameKey(i, j)'
      PROVE  i = j
  <2>1. CASE i \in 1..n /\ j \in 1..n
    BY <1>1, <1>4, <1>5, <1>9, <2>1 DEF RegistryInv
  <2>2. CASE i \in 1..n /\ j = n + 1
    BY <1>1, <1>6, <1>9, <2>2 DEF SameKey, Committed
  <2>3. CASE i = n + 1 /\ j \in 1..n
    BY <1>1, <1>6, <1>9, <2>3 DEF SameKey, Committed
  <2> QED BY <1>3, <2>1, <2>2, <2>3
<1>10. ASSUME NEW g \in Forecaster, NEW k \in ForecastMarket, commitments'[g][k].hash # <<>>
       PROVE  \E i \in 1..(n + 1) : /\ Committed(i)'
                                    /\ log'[i].forecaster = g /\ log'[i].market = k
  <2>1. CASE (g # f \/ k # m) \/ e.kind = "revealed"
    <3>1. commitments[g][k].hash # <<>>
      BY <1>2, <1>10, <2>1
    <3>2. PICK i \in 1..n : Committed(i) /\ log[i].forecaster = g /\ log[i].market = k
      BY <1>1, <3>1 DEF RegistryInv
    <3> QED BY <1>1, <1>4, <3>2
  <2>2. CASE g = f /\ k = m /\ e.kind = "committed"
    <3>1. Committed(n + 1)' /\ n + 1 \in 1..(n + 1)
      BY <1>1, <2>2 DEF Committed
    <3> QED BY <1>1, <2>2, <3>1
  <2> QED BY <2>1, <2>2
<1> QED BY <1>1, <1>2, <1>3, <1>7, <1>8, <1>9, <1>10 DEF RegistryInv

LEMMA RegistryStep == RegistryInv /\ [RegistryNext]_registryVars => RegistryInv'
<1> SUFFICES ASSUME RegistryInv, [RegistryNext]_registryVars PROVE RegistryInv'
  OBVIOUS
<1>0. commitments \in [Forecaster -> [ForecastMarket -> Commitment]] /\ timestamp \in Timestamp
  BY DEF RegistryInv
<1>1. ASSUME NEW f \in Forecaster, NEW m \in ForecastMarket \cup {Zero},
             NEW hash \in Hashes \cup {<<>>}, NEW t \in Timestamp,
             commitForecast(f, m, hash, t)
      PROVE  RegistryInv'
  <2> DEFINE c == commitments[f][m]
             x == [c EXCEPT !.hash = hash, !.time = timestamp, !.resolution = t]
             e == [kind |-> "committed", forecaster |-> f, market |-> m, hash |-> hash,
                   resolution |-> t, time |-> timestamp]
  <2>1. /\ m \in ForecastMarket /\ hash # <<>> /\ t > timestamp /\ c.hash = <<>>
        /\ log' = Append(log, e) /\ timestamp' = timestamp
    BY <1>1 DEF commitForecast
  <2>2. c \in Commitment
    BY <1>0, <2>1
  <2>3. x \in Commitment /\ x.hash = hash /\ x.resolution = t
    BY <1>0, <2>2 DEF Commitment
  <2>4. commitments' = [commitments EXCEPT ![f] = [commitments[f] EXCEPT ![m] = x]]
    BY <1>0, <1>1, <2>1, <2>2 DEF commitForecast, Commitment
  <2>5. /\ e.forecaster = f /\ e.market = m /\ e.kind = "committed" /\ e.hash = hash
        /\ e.resolution = t /\ e.time = timestamp
    OBVIOUS
  <2>6. commitments[f][m].hash = <<>> /\ timestamp < t
    BY <2>1
  <2> HIDE DEF x, e, c
  <2>7. e.resolution = x.resolution /\ x.hash # <<>> /\ x.hash = e.hash /\ e.time < e.resolution
    BY <2>1, <2>3, <2>5, <2>6
  <2> QED BY <2>1, <2>3, <2>4, <2>5, <2>6, <2>7, Call
<1>2. ASSUME NEW f \in Forecaster, NEW m \in ForecastMarket \cup {Zero}, NEW p, NEW salt,
             revealForecast(f, m, p, salt)
      PROVE  RegistryInv'
  <2> DEFINE c == commitments[f][m]
             x == [c EXCEPT !.revealed = TRUE]
             e == [kind |-> "revealed", forecaster |-> f, market |-> m, p |-> p, salt |-> salt,
                   resolution |-> c.resolution, time |-> timestamp]
  <2>1. /\ m \in ForecastMarket /\ c.hash # <<>> /\ timestamp >= c.resolution
        /\ c.hash = computeCommitment(f, m, c.resolution, p, salt)
        /\ log' = Append(log, e) /\ timestamp' = timestamp
    BY <1>2 DEF revealForecast
  <2>2. c \in Commitment
    BY <1>0, <2>1
  <2>3. x \in Commitment /\ x.hash = c.hash /\ x.resolution = c.resolution
    BY <2>2 DEF Commitment
  <2>4. commitments' = [commitments EXCEPT ![f] = [commitments[f] EXCEPT ![m] = x]]
    BY <1>0, <1>2, <2>1, <2>2 DEF revealForecast, Commitment
  <2>5. /\ e.forecaster = f /\ e.market = m /\ e.kind = "revealed" /\ e.p = p /\ e.salt = salt
        /\ e.resolution = c.resolution /\ e.time = timestamp
    OBVIOUS
  <2>6. commitments[f][m].hash = x.hash /\ commitments[f][m].resolution = x.resolution /\ x.hash # <<>>
    BY <2>1, <2>3
  <2>7. e.resolution = x.resolution /\ e.resolution <= e.time
    BY <2>1, <2>3, <2>5
  <2>8. x.hash = computeCommitment(f, m, e.resolution, e.p, e.salt)
    BY <2>1, <2>3, <2>5
  <2> HIDE DEF x, e
  <2> QED BY <2>1, <2>3, <2>4, <2>5, <2>6, <2>7, <2>8, Call
<1>3. CASE MineBlock
  BY <1>3 DEF MineBlock, RegistryInv, EntryOk, About, Committed, Revealed, SameKey
<1>4. CASE UNCHANGED registryVars
  BY <1>4 DEF registryVars, RegistryInv, EntryOk, About, Committed, Revealed, SameKey
<1> QED BY <1>1, <1>2, <1>3, <1>4 DEF RegistryNext

\* A successful reveal proves that the same forecaster committed exactly this
\* forecast, once, before its resolution time, and copied it from nobody.
THEOREM RevealsProveForesight == RegistrySpec => []RevealProvesForesight
<1>1. RegistryInv => RevealProvesForesight
  <2> SUFFICES ASSUME RegistryInv, NEW i \in 1..Len(log), Revealed(i)
               PROVE  LET commits == {j \in 1..Len(log) : Committed(j) /\ SameKey(i, j)}
                          r == log[i]
                      IN /\ \E j \in commits :
                              /\ commits = {j} /\ j < i
                              /\ log[j].time < r.resolution /\ r.resolution <= r.time
                              /\ log[j].resolution = r.resolution
                              /\ log[j].hash = computeCommitment(r.forecaster, r.market, r.resolution, r.p, r.salt)
                         /\ \A k \in 1..Len(log) :
                              Revealed(k) /\ log[k].forecaster # r.forecaster =>
                                commitments[log[k].forecaster][log[k].market].hash
                                  # commitments[r.forecaster][r.market].hash
    BY DEF RevealProvesForesight
  <2> DEFINE commits == {j \in 1..Len(log) : Committed(j) /\ SameKey(i, j)}
             r == log[i]
  <2>1. EntryOk(i) /\ Revealed(i)
    BY DEF RegistryInv
  <2>2. PICK j \in 1..Len(log) : j < i /\ Committed(j) /\ SameKey(j, i)
    BY <2>1 DEF EntryOk
  <2>3. EntryOk(j) /\ About(j) = About(i) /\ SameKey(i, j)
    BY <2>2 DEF RegistryInv, About, SameKey
  <2>4. commits = {j}
    <3>1. \A k \in commits : SameKey(k, j) /\ k = j
      BY <2>2 DEF RegistryInv, SameKey
    <3> QED BY <2>2, <2>3, <3>1
  <2>5. /\ log[j].time < r.resolution /\ r.resolution <= r.time
        /\ log[j].resolution = r.resolution
        /\ log[j].hash = computeCommitment(r.forecaster, r.market, r.resolution, r.p, r.salt)
    BY <2>1, <2>2, <2>3 DEF EntryOk
  <2>6. ASSUME NEW k \in 1..Len(log), Revealed(k), log[k].forecaster # r.forecaster
        PROVE  About(k).hash # About(i).hash
    <3>1. EntryOk(k)
      BY DEF RegistryInv
    <3>2. /\ About(k).hash = computeCommitment(log[k].forecaster, log[k].market, log[k].resolution,
                                                        log[k].p, log[k].salt)
          /\ About(i).hash = computeCommitment(r.forecaster, r.market, r.resolution, r.p, r.salt)
      BY <2>1, <2>6, <3>1 DEF EntryOk
    <3> QED BY <2>6, <3>2 DEF computeCommitment
  <2> QED BY <2>2, <2>4, <2>5, <2>6 DEF About
<1> QED BY <1>1, RegistryStart, RegistryStep, PTL DEF RegistrySpec
=============================================================================
