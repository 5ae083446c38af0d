------------------------ MODULE FeatureEngineProofs ------------------------
(***************************************************************************)
(* Point-in-time correctness of the engine for every window, every set of  *)
(* updates and points and any number of calls.  The formulas themselves    *)
(* stay unexpanded: what matters is which updates they are applied to.     *)
(***************************************************************************)
EXTENDS SnapshotConsumers, FeaturesProofs

TradeSet == {u.trade : u \in Update}

\* What engine.go's fields hold after the updates in applied
EngineIsReplay ==
  /\ engine = [market |-> Market, flowWindow |-> FlowWindow,
               flowEvents |-> LastOf(FlowWindow, Trades(Len(applied))),
               latest |-> IF applied = <<>> THEN None ELSE applied[Len(applied)],
               observed |-> engine.observed]
  /\ applied \in Seq(Update)

\* Accepted updates move forward in position and not backward in time.
AppliedInOrder ==
  \A i, j \in 1..Len(applied) :
    i < j => After(applied[j], applied[i]) /\ applied[j].time >= applied[i].time

\* The frontier is ahead of every snapshot that was returned.
FrontierAhead ==
  /\ engine.observed # None => engine.observed \in Frontier
  /\ kept # None =>
       /\ Position(kept)
       /\ engine.observed # None
       /\ ~After(kept, engine.observed)
       /\ kept.time <= engine.observed.time

IInv == EngineIsReplay /\ AppliedInOrder /\ FrontierAhead /\ PointInTime

-----------------------------------------------------------------------------
\* What the assumption on the caller's updates and points says of each of them.
LEMMA UpdatesHavePositions ==
  /\ \A u \in Update : Position(u) /\ u # None
  /\ \A p \in Point : p \in Frontier
  /\ \A p \in Frontier : Position(p) /\ p # None
  BY EngineAssumption DEF Position, Frontier

\* The engine of NewEngine is the replay of no update.
LEMMA InitReplay == Init => IInv
<1> SUFFICES ASSUME Init PROVE IInv
  OBVIOUS
<1>1. applied = <<>> /\ Len(applied) = 0 /\ kept = None /\ engine = NewEngine(Market, FlowWindow)
  BY DEF Init
<1>2. LastOf(FlowWindow, Trades(Len(applied))) = <<>>
  <2>1. Trades(0) = <<>>
    BY DEF Trades
  <2> QED BY <2>1, <1>1, EngineAssumption DEF LastOf
<1>3. EngineIsReplay
  BY <1>1, <1>2 DEF EngineIsReplay, NewEngine
<1> QED BY <1>1, <1>3 DEF IInv, AppliedInOrder, FrontierAhead, PointInTime, NewEngine

\* The trades of one more update
LEMMA TradesAppend ==
  ASSUME applied \in Seq(Update), NEW u \in Update, applied' = Append(applied, u)
  PROVE  /\ Trades(Len(applied)) \in Seq(TradeSet)
         /\ Trades(Len(applied))' = Append(Trades(Len(applied)), u.trade)
         /\ \A n \in 1..Len(applied) : Trades(n)' = Trades(n)
<1> DEFINE k == Len(applied)  a == Trades(k)  b == Append(a, u.trade)  c == Trades(Len(applied))'
<1>1. /\ k \in Nat /\ applied' \in Seq(Update) /\ Len(applied') = k + 1 /\ applied'[k + 1] = u
      /\ \A i \in 1..k : applied'[i] = applied[i] /\ applied[i] \in Update
  BY ElementOfSeq
<1>2. \A i \in 1..k : applied[i].trade \in TradeSet
  BY <1>1 DEF TradeSet
<1>3. a \in Seq(TradeSet) /\ Len(a) = k /\ \A i \in 1..k : a[i] = applied[i].trade
  BY <1>1, <1>2 DEF Trades
<1>4. c \in Seq(TradeSet) /\ Len(c) = k + 1 /\ \A i \in 1..k + 1 : c[i] = applied'[i].trade
  <2>1. \A i \in 1..k + 1 : applied'[i].trade \in TradeSet
    BY <1>1, <1>2 DEF TradeSet
  <2> QED BY <1>1, <2>1 DEF Trades
<1>5. u.trade \in TradeSet
  BY DEF TradeSet
<1> HIDE DEF a, c
<1>6. b \in Seq(TradeSet) /\ Len(b) = k + 1 /\ b[k + 1] = u.trade /\ \A i \in 1..k : b[i] = a[i]
  BY <1>3, <1>5, <1>1
<1>7. \A i \in 1..k + 1 : c[i] = b[i]
  BY <1>1, <1>3, <1>4, <1>6
<1> HIDE DEF b
<1>8. c = b
  BY <1>1, <1>4, <1>6, <1>7, SeqEqual
<1>9. \A n \in 1..k : Trades(n)' = Trades(n)
  BY <1>1 DEF Trades
<1> QED BY <1>3, <1>8, <1>9 DEF a, b, c

\* An accepted update is the last in order and ahead of the frontier.
LEMMA ApplyPreserves == IInv /\ DoApply => IInv'
<1> SUFFICES ASSUME IInv, NEW u \in Update, AcceptsUpdate(engine, u), engine' = Apply(engine, u),
                    applied' = Append(applied, u), kept' = kept
             PROVE  IInv'
  BY DEF DoApply
<1> DEFINE k == Len(applied)
<1>1. /\ applied \in Seq(Update) /\ k \in Nat
      /\ applied' \in Seq(Update) /\ Len(applied') = k + 1
      /\ applied'[k + 1] = u /\ \A i \in 1..k : applied'[i] = applied[i] /\ applied[i] \in Update
  BY ElementOfSeq DEF IInv, EngineIsReplay
<1>2. /\ engine'.observed = engine.observed
      /\ engine' = [market |-> Market, flowWindow |-> FlowWindow,
                    flowEvents |-> LastOf(FlowWindow, Append(LastOf(FlowWindow, Trades(k)), u.trade)),
                    latest |-> u, observed |-> engine'.observed]
  <2> DEFINE w == LastOf(FlowWindow, Trades(k))  v == LastOf(FlowWindow, Append(w, u.trade))
  <2>1. /\ engine = [market |-> Market, flowWindow |-> FlowWindow, flowEvents |-> w,
                     latest |-> engine.latest, observed |-> engine.observed]
    BY DEF IInv, EngineIsReplay
  <2>2. engine.flowWindow = FlowWindow /\ engine.flowEvents = w
    <3> HIDE DEF w
    <3> QED BY <2>1
  <2>3. engine' = [engine EXCEPT !.flowEvents = v, !.latest = u]
    <3> HIDE DEF w
    <3> QED BY <2>2 DEF Apply
  <2> HIDE DEF v, w
  <2>4. engine' = [market |-> Market, flowWindow |-> FlowWindow, flowEvents |-> v,
                   latest |-> u, observed |-> engine.observed]
    <3> DEFINE x == engine.latest  y == engine.observed
    <3>1. engine = [market |-> Market, flowWindow |-> FlowWindow, flowEvents |-> w, latest |-> x, observed |-> y]
      BY <2>1
    <3> HIDE DEF x, y
    <3>2. engine' = [market |-> Market, flowWindow |-> FlowWindow, flowEvents |-> v, latest |-> u, observed |-> y]
      BY <3>1, <2>3
    <3> QED BY <3>2 DEF y
  <2> QED BY <2>4 DEF v, w
<1>3. EngineIsReplay'
  <2>1. /\ Trades(k) \in Seq(TradeSet) /\ u.trade \in TradeSet
        /\ Trades(Len(applied))' = Append(Trades(k), u.trade)
    BY <1>1, TradesAppend DEF TradeSet
  <2>2. LastOf(FlowWindow, Append(LastOf(FlowWindow, Trades(k)), u.trade))
        = LastOf(FlowWindow, Append(Trades(k), u.trade))
    BY <2>1, LastOfAppend, EngineAssumption
  <2>3. applied' # <<>>
    BY <1>1
  <2> QED BY <1>1, <1>2, <2>1, <2>2, <2>3 DEF EngineIsReplay
<1>4. AppliedInOrder'
  <2>1. \A i \in 1..k : After(u, applied[i]) /\ u.time >= applied[i].time
    <3> TAKE i \in 1..k
    <3>1. engine.latest = applied[k] /\ k \in 1..k /\ applied[k] # None
      BY <1>1, UpdatesHavePositions DEF IInv, EngineIsReplay
    <3>2. After(u, applied[k]) /\ u.time >= applied[k].time
      BY <3>1 DEF AcceptsUpdate, Follows
    <3>3. CASE i = k
      BY <3>2, <3>3
    <3>4. CASE i < k
      <4>1. After(applied[k], applied[i]) /\ applied[k].time >= applied[i].time
        BY <3>1, <3>4 DEF IInv, AppliedInOrder
      <4> QED BY <4>1, <3>2, <1>1, <3>1, AfterTransitive, UpdatesHavePositions DEF Position
    <3> QED BY <3>3, <3>4, <1>1
  <2>2. \A i, j \in 1..k : i < j => After(applied[j], applied[i]) /\ applied[j].time >= applied[i].time
    BY DEF IInv, AppliedInOrder
  <2> QED BY <1>1, <2>1, <2>2 DEF AppliedInOrder
<1>5. FrontierAhead'
  BY <1>2 DEF IInv, FrontierAhead
<1>6. PointInTime'
  <2> SUFFICES ASSUME kept # None PROVE PointInTime'
    BY DEF PointInTime
  <2>1. PICK n \in 1..k :
          /\ \A i \in 1..k : i <= n <=> ~After(applied[i], kept)
          /\ \A i \in 1..k : i > n => applied[i].time >= kept.time
          /\ \A i \in 1..n : applied[i].time <= kept.time
          /\ kept = Reference(n, kept)
    BY DEF IInv, PointInTime
  <2>2. After(u, kept) /\ u.time >= kept.time
    <3> DEFINE o == engine.observed
    <3>1. /\ Position(kept) /\ o # None /\ o \in Frontier
          /\ ~After(kept, o) /\ kept.time <= o.time
      BY DEF IInv, FrontierAhead
    <3>2. Position(o) /\ Position(u)
      BY <3>1, UpdatesHavePositions
    <3>3. After(u, o) /\ u.time >= o.time
      BY <3>1 DEF AcceptsUpdate, Follows
    <3> HIDE DEF o
    <3>4. After(u, kept)
      BY <3>1, <3>2, <3>3, AfterTransitive
    <3> QED BY <3>1, <3>2, <3>3, <3>4 DEF Position
  <2>3. Reference(n, kept)' = Reference(n, kept)
    <3>1. Trades(n)' = Trades(n)
      BY <1>1, TradesAppend
    <3> QED BY <1>1, <3>1 DEF Reference
  <2>4. n \in 1..k + 1 /\ \A i \in 1..n : applied'[i] = applied[i]
    BY <1>1
  <2>5. \A i \in 1..k + 1 : i <= n <=> ~After(applied'[i], kept)
    BY <1>1, <2>1, <2>2
  <2>6. \A i \in 1..k + 1 : i > n => applied'[i].time >= kept.time
    BY <1>1, <2>1, <2>2
  <2> QED BY <1>1, <2>1, <2>3, <2>4, <2>5, <2>6 DEF PointInTime
<1> QED BY <1>3, <1>4, <1>5, <1>6 DEF IInv

\* A snapshot moves the frontier forward and sees exactly the updates so far.
LEMMA SnapshotPreserves == IInv /\ DoSnapshot => IInv'
<1> SUFFICES ASSUME IInv, NEW p \in Point, AllowsSnapshot(engine, p), engine' = observe(engine, p),
                    kept' \in {kept, Snapshot(engine, p)}, applied' = applied
             PROVE  IInv'
  BY DEF DoSnapshot
<1> DEFINE k == Len(applied)  o == engine.observed
<1>1. applied \in Seq(Update) /\ k \in Nat /\ k # 0 /\ applied[k] \in Update /\ engine.latest = applied[k]
  <2>1. applied \in Seq(Update) /\ applied # <<>> /\ engine.latest = applied[k]
    BY DEF IInv, EngineIsReplay, AllowsSnapshot
  <2> QED BY <2>1, ElementOfSeq
<1>2. engine'.observed = observe(engine, p).observed /\ engine' = [engine EXCEPT !.observed = engine'.observed]
  <2>1. /\ engine = [market |-> Market, flowWindow |-> FlowWindow, flowEvents |-> engine.flowEvents,
                     latest |-> engine.latest, observed |-> o]
    BY DEF IInv, EngineIsReplay
  <2>2. \A x : [engine EXCEPT !.observed = x].observed = x
    BY <2>1
  <2> QED BY <2>2 DEF observe
<1>3. LET q == engine'.observed
      IN /\ q \in Frontier /\ ~After(p, q) /\ p.time <= q.time
         /\ o # None => ~After(o, q) /\ o.time <= q.time
  <2> DEFINE q == engine'.observed
  <2>0. p \in Frontier /\ Position(p)
    BY UpdatesHavePositions
  <2>1. CASE o = None
    <3>1. q = p
      BY <1>2, <2>1 DEF observe, IInv, EngineIsReplay
    <3> QED BY <2>0, <2>1, <3>1, AfterTransitive DEF Position
  <2>2. CASE o # None
    <3> DEFINE position == IF After(p, o) THEN p ELSE o
               time == IF p.time > o.time THEN p.time ELSE o.time
    <3>1. o \in Frontier /\ Position(o)
      BY <2>2, UpdatesHavePositions DEF IInv, FrontierAhead
    <3>2. q = [position EXCEPT !.time = time]
      BY <1>2, <2>2 DEF observe, IInv, EngineIsReplay
    <3>3. position \in Frontier /\ time \in Nat /\ p.time <= time /\ o.time <= time
      BY <2>0, <3>1 DEF Position
    <3> HIDE DEF position, time, q
    <3>4. q \in Frontier /\ q.block = position.block /\ q.log = position.log /\ q.time = time
      BY <3>2, <3>3 DEF Frontier
    <3>5. \A x : After(x, q) <=> After(x, position)
      BY <3>4 DEF After
    <3>6. ~After(p, position) /\ ~After(o, position)
      BY <2>0, <3>1, AfterTransitive DEF position, After, Position
    <3> QED BY <3>3, <3>4, <3>5, <3>6 DEF q
  <2> QED BY <2>1, <2>2
<1>4. EngineIsReplay' /\ AppliedInOrder'
  <2>1. Trades(Len(applied))' = Trades(k)
    BY DEF Trades
  <2>2. engine' = [market |-> Market, flowWindow |-> FlowWindow, flowEvents |-> LastOf(FlowWindow, Trades(k)),
                   latest |-> IF applied = <<>> THEN None ELSE applied[k], observed |-> engine'.observed]
    <3> DEFINE w == LastOf(FlowWindow, Trades(k))  l == IF applied = <<>> THEN None ELSE applied[k]
               x == engine'.observed
    <3>1. engine = [market |-> Market, flowWindow |-> FlowWindow, flowEvents |-> w, latest |-> l, observed |-> o]
      BY DEF IInv, EngineIsReplay
    <3>2. engine' = [engine EXCEPT !.observed = x]
      BY <1>2
    <3> HIDE DEF w, l, x, o
    <3>3. engine' = [market |-> Market, flowWindow |-> FlowWindow, flowEvents |-> w, latest |-> l, observed |-> x]
      BY <3>1, <3>2
    <3> QED BY <3>3 DEF w, l, x
  <2> QED BY <1>1, <2>1, <2>2 DEF EngineIsReplay, AppliedInOrder, IInv
<1>5. Snapshot(engine, p).block = p.block /\ Snapshot(engine, p).log = p.log /\ Snapshot(engine, p).time = p.time
  BY DEF Snapshot, FeaturesAt
<1>6. FrontierAhead'
  <2>1. engine'.observed # None /\ Position(engine'.observed) /\ Position(p)
    BY <1>3, UpdatesHavePositions
  <2>2. CASE kept' = kept
    BY <1>3, <2>1, <2>2, AfterTransitive DEF IInv, FrontierAhead, Position, Frontier
  <2>3. CASE kept' = Snapshot(engine, p)
    BY <1>3, <1>5, <2>1, <2>3 DEF FrontierAhead, Position, After
  <2> QED BY <2>2, <2>3
<1>7. PointInTime'
  <2>1. CASE kept' = kept
    <3>1. \A n : Reference(n, kept)' = Reference(n, kept)
      BY <2>1 DEF Reference, Trades
    <3> QED BY <2>1, <3>1 DEF PointInTime, IInv
  <2>2. CASE kept' = Snapshot(engine, p)
    <3>1. ~After(applied[k], p) /\ applied[k].time <= p.time
      BY <1>1, UpdatesHavePositions DEF AllowsSnapshot, Position
    <3>2. \A i \in 1..k : ~After(applied[i], p) /\ applied[i].time <= p.time
      <4> TAKE i \in 1..k
      <4>1. Position(applied[i]) /\ Position(applied[k]) /\ Position(p)
        BY <1>1, ElementOfSeq, UpdatesHavePositions
      <4>2. CASE i = k
        BY <3>1, <4>2
      <4>3. CASE i # k
        <5>1. After(applied[k], applied[i]) /\ applied[k].time >= applied[i].time
          BY <1>1, <4>3 DEF IInv, AppliedInOrder
        <5> QED BY <3>1, <4>1, <5>1, AfterTransitive DEF After, Position
      <4> QED BY <4>2, <4>3
    <3>3. kept' = Reference(k, p)
      BY <1>1, <2>2 DEF Snapshot, Reference, IInv, EngineIsReplay
    <3>4. kept'.market = p.market /\ kept'.block = p.block /\ kept'.log = p.log /\ kept'.time = p.time
      BY <2>2 DEF Snapshot, FeaturesAt
    <3>5. Reference(k, kept)' = Reference(k, p)
      BY <3>4, <1>1 DEF Reference, FeaturesAt, Trades
    <3>6. \A i \in 1..k : ~After(applied[i], kept')
      BY <3>2, <3>4 DEF After
    <3>7. k \in 1..k
      BY <1>1
    <3> QED BY <1>1, <3>2, <3>3, <3>4, <3>5, <3>6, <3>7 DEF PointInTime
  <2> QED BY <2>1, <2>2
<1> QED BY <1>4, <1>6, <1>7 DEF IInv

\* Every call preserves it.
LEMMA InvPreserved == IInv /\ [Next]_vars => IInv'
<1>1. CASE DoApply
  BY <1>1, ApplyPreserves
<1>2. CASE DoSnapshot
  BY <1>2, SnapshotPreserves
<1>3. CASE UNCHANGED vars
  BY <1>3 DEF vars, IInv, EngineIsReplay, AppliedInOrder, FrontierAhead, PointInTime, Reference, Trades
<1> QED BY <1>1, <1>2, <1>3 DEF Next

(* A snapshot that was returned stays what the updates at or before its    *)
(* position determine, and nothing dated or placed before it is accepted   *)
(* later (engine.go:98-126), for any window and any history of calls.      *)
THEOREM EngineIsPointInTime == Spec => []PointInTime
<1>1. IInv => PointInTime
  BY DEF IInv
<1> QED BY InitReplay, InvPreserved, <1>1, PTL DEF Spec

-----------------------------------------------------------------------------
(* What the formulas make of the updates that were accepted.               *)

\* The trades an engine accepts
GoodTrades == {t \in TradeSet : t # None /\ ValidTrade(t) /\ t.amount \in Int}

Fit(u) ==
  /\ u.finality <= FinalityFinalized
  /\ ValidReserves(u.yes, u.no)
  /\ u.trade # None => u.trade \in GoodTrades

\* Only valid updates were applied, and the snapshots are of this market.
AppliedFit ==
  /\ \A i \in 1..Len(applied) : Fit(applied[i])
  /\ kept # None => kept.market = Market

LEMMA FitInit == Init => AppliedFit
  BY DEF Init, AppliedFit

LEMMA FitPreserved == IInv /\ AppliedFit /\ [Next]_vars => AppliedFit'
<1> SUFFICES ASSUME IInv, AppliedFit, [Next]_vars PROVE AppliedFit'
  OBVIOUS
<1>1. applied \in Seq(Update) /\ engine.market = Market
  BY DEF IInv, EngineIsReplay
<1>2. CASE DoApply
  <2>1. PICK u \in Update : AcceptsUpdate(engine, u) /\ applied' = Append(applied, u) /\ kept' = kept
    BY <1>2 DEF DoApply
  <2>2. Fit(u)
    BY <2>1, EngineAssumption DEF AcceptsUpdate, Fit, GoodTrades, TradeSet
  <2>3. Len(applied') = Len(applied) + 1
       /\ \A i \in 1..Len(applied') : applied'[i] = IF i = Len(applied') THEN u ELSE applied[i]
    BY <1>1, <2>1
  <2> QED BY <1>1, <2>1, <2>2, <2>3 DEF AppliedFit
<1>3. CASE DoSnapshot
  <2>1. PICK p \in Point : AllowsSnapshot(engine, p) /\ kept' \in {kept, Snapshot(engine, p)} /\ applied' = applied
    BY <1>3 DEF DoSnapshot
  <2>2. Snapshot(engine, p).market = Market
    BY <1>1, <2>1 DEF AllowsSnapshot, Snapshot, FeaturesAt
  <2> QED BY <2>1, <2>2 DEF AppliedFit
<1>4. CASE UNCHANGED vars
  BY <1>4 DEF vars, AppliedFit
<1> QED BY <1>2, <1>3, <1>4 DEF Next

\* The formulas' values over the first n updates, with no float's limit in them
LEMMA ReferenceFeatures ==
  ASSUME IInv, AppliedFit, NEW n \in 1..Len(applied)
  PROVE  LET u == applied[n]
             s == TradesOf(LastOf(FlowWindow, Trades(n)))
             y == Total(s, TradeYES)
             m == Total(s, TradeNO)
             q == YesImpliedProbability(u.yes, u.no)
             f == RecentTradeFlowImbalance(s)
         IN /\ u \in Update /\ Fit(u)
            /\ q = <<u.no, u.yes + u.no>> /\ q # NaN /\ finiteBetween(q, 0, 1)
            /\ f = IF s = <<>> THEN Zero ELSE <<y - m, y + m>>
            /\ f # NaN /\ finiteBetween(f, -1, 1)
<1> DEFINE u == applied[n]  w == LastOf(FlowWindow, Trades(n))  s == TradesOf(w)
           y == Total(s, TradeYES)  m == Total(s, TradeNO)
           q == YesImpliedProbability(u.yes, u.no)  f == RecentTradeFlowImbalance(s)
<1>1. u \in Update /\ Fit(u) /\ n \in Nat /\ \A i \in 1..n : applied[i] \in Update /\ Fit(applied[i])
  BY ElementOfSeq DEF IInv, EngineIsReplay, AppliedFit
<1>2. Trades(n) \in Seq(TradeSet) /\ Len(Trades(n)) = n /\ \A i \in 1..n : Trades(n)[i] = applied[i].trade
  BY <1>1 DEF Trades, TradeSet
<1>3. w \in Seq(TradeSet) /\ \A i \in 1..Len(w) : \E j \in 1..n : w[i] = Trades(n)[j]
  <2>1. FlowWindow \in Nat
    BY EngineAssumption
  <2>2. /\ w \in Seq(TradeSet)
        /\ \A i \in 1..Len(w) : \E j \in 1..Len(Trades(n)) : w[i] = Trades(n)[j]
    BY <1>2, <2>1, LastOfMembers
  <2> QED BY <1>2, <2>2
<1>4. \A i \in 1..Len(w) : w[i] # None => w[i] \in GoodTrades
  BY <1>1, <1>2, <1>3 DEF Fit
<1>5. u.yes \in Int /\ u.no \in Int /\ ValidReserves(u.yes, u.no)
  BY <1>1, EngineAssumption DEF Fit
<1>6. \A t \in GoodTrades : ValidTrade(t) /\ t.amount \in Int
  BY DEF GoodTrades
<1> HIDE DEF u, w
<1>7. /\ q = <<u.no, u.yes + u.no>> /\ q # NaN /\ 0 <= q[1] /\ q[1] <= q[2] /\ q[2] \in Nat /\ q[1] \in Nat
      /\ f = IF s = <<>> THEN Zero ELSE <<y - m, y + m>>
      /\ f # NaN /\ f[1] \in Int /\ f[2] \in Int /\ -f[2] <= f[1] /\ f[1] <= f[2]
  BY <1>3, <1>4, <1>5, <1>6, ExactQuotients
<1> HIDE DEF q, f, s, y, m
<1>8. finiteBetween(q, 0, 1)
  BY <1>7 DEF finiteBetween
<1>9. finiteBetween(f, -1, 1)
  <2>1. (-1) * f[2] <= f[1] /\ f[1] <= 1 * f[2]
    BY <1>7
  <2> QED BY <1>7, <2>1 DEF finiteBetween
<1> QED BY <1>1, <1>7, <1>8, <1>9 DEF u, q, f, s, w, y, m

\* The engine holds what the last update determines.
LEMMA FlowFromReplay == IInv /\ AppliedFit => FlowIsExact
<1> SUFFICES ASSUME IInv, AppliedFit, engine.latest # None PROVE FlowIsExact
  BY DEF FlowIsExact
<1> DEFINE n == Len(applied)  u == applied[n]  s == TradesOf(engine.flowEvents)
<1>1. n \in 1..n /\ engine.latest = u /\ engine.flowEvents = LastOf(FlowWindow, Trades(n))
  BY DEF IInv, EngineIsReplay
<1>2. /\ RecentTradeFlowImbalance(s) = IF s = <<>> THEN Zero
                                       ELSE <<Total(s, TradeYES) - Total(s, TradeNO),
                                              Total(s, TradeYES) + Total(s, TradeNO)>>
      /\ YesImpliedProbability(u.yes, u.no) = <<u.no, u.yes + u.no>>
  BY <1>1, ReferenceFeatures
<1>3. /\ Snapshot(engine, engine.latest).flow = RecentTradeFlowImbalance(s)
      /\ Snapshot(engine, engine.latest).probability = YesImpliedProbability(u.yes, u.no)
  BY <1>1 DEF Snapshot, FeaturesAt
<1> QED BY <1>1, <1>2, <1>3 DEF FlowIsExact, Total

(* The flow imbalance is the quotient of the window's volumes, and the     *)
(* probability that of the reserves, whatever their sums: no sum past the  *)
(* largest float shows in a result (features.go:45-54, 77-93).             *)
THEOREM FlowStaysExact == Spec => []FlowIsExact
<1>1. IInv /\ AppliedFit /\ [Next]_vars => (IInv /\ AppliedFit)'
  BY InvPreserved, FitPreserved
<1> QED BY InitReplay, FitInit, FlowFromReplay, <1>1, PTL DEF Spec

-----------------------------------------------------------------------------
(* What inference and the snapshot file make of what the engine returned.  *)

\* A row of the features of the first n updates, seen at p
Row(n, p) == FeaturesAt(applied[n], LastOf(FlowWindow, Trades(n)), p)

\* The times that have nanoseconds
InNanos(t) == t \in -NanoLimit..NanoLimit - 1

LEMMA RowIsValid ==
  ASSUME IInv, AppliedFit, NEW n \in 1..Len(applied), NEW p, Position(p), ~After(applied[n], p)
  PROVE  LET r == Row(n, p) IN
         /\ r.market = p.market /\ r.block = p.block /\ r.log = p.log /\ r.time = p.time
         /\ r.finality \in 0..FinalityFinalized /\ r.time \in Int /\ r.resolution \in Int
         /\ r.probability # NaN /\ r.flow # NaN /\ Finite(r.depth) /\ Finite(r.seconds)
         /\ HasVector(r) <=> r.lag <= MaxExactInteger
<1> DEFINE u == applied[n]  s == TradesOf(LastOf(FlowWindow, Trades(n)))  r == Row(n, p)
           q == YesImpliedProbability(u.yes, u.no)  f == RecentTradeFlowImbalance(s)
<1>1. /\ u \in Update /\ Fit(u)
      /\ q # NaN /\ finiteBetween(q, 0, 1) /\ f # NaN /\ finiteBetween(f, -1, 1)
  BY ReferenceFeatures
<1>2. /\ r.market = p.market /\ r.block = p.block /\ r.log = p.log /\ r.time = p.time
      /\ r.finality = u.finality /\ r.resolution = u.resolution
      /\ r.probability = q /\ r.flow = f
      /\ r.depth = LiquidityDepth(u.yes, u.no) /\ r.seconds = SecondsToResolution(p.time, u.resolution)
  BY DEF Row, FeaturesAt
<1>3. /\ u.yes \in Nat /\ u.no \in Nat /\ Finite(u.yes) /\ Finite(u.no)
      /\ u.resolution \in Int /\ u.finality \in 0..FinalityFinalized
  <2>1. u.finality \in Nat /\ u.finality <= FinalityFinalized
    BY <1>1, ConsumersAssumption DEF Fit
  <2>2. u.yes \in Int /\ u.no \in Int /\ ValidReserves(u.yes, u.no)
    BY <1>1, EngineAssumption DEF Fit
  <2>3. u.resolution \in Int
    BY <1>1, ConsumersAssumption
  <2> QED BY <2>1, <2>2, <2>3 DEF ValidReserves, validReserve, FinalityFinalized
<1>4. p.time \in Nat
  BY DEF Position
<1> HIDE DEF u, s, r, q, f
<1>5. r.probability # NaN /\ finiteBetween(r.probability, 0, 1)
  BY <1>1, <1>2
<1>6. r.flow # NaN /\ finiteBetween(r.flow, -1, 1)
  BY <1>1, <1>2
<1>7. finiteNonNegative(r.depth)
  BY <1>2, <1>3 DEF finiteNonNegative, LiquidityDepth
<1>8. finiteNonNegative(r.seconds)
  BY <1>2, <1>3, <1>4, FeatureAssumption DEF finiteNonNegative, SecondsToResolution, Finite
<1>9. HasVector(r) <=> r.lag <= MaxExactInteger
  BY <1>5, <1>6, <1>7, <1>8 DEF HasVector
<1>10. Finite(r.depth) /\ Finite(r.seconds) /\ r.time \in Int /\ r.resolution \in Int
     /\ r.finality \in 0..FinalityFinalized
  BY <1>2, <1>3, <1>4, <1>7, <1>8 DEF finiteNonNegative
<1> QED BY <1>2, <1>5, <1>6, <1>9, <1>10 DEF r

\* The nanoseconds of a time wrap exactly outside the range.
LEMMA NanosOf ==
  ASSUME NEW t \in Int
  PROVE  /\ unixNanoRepresentable(t) <=> InNanos(t)
         /\ InNanos(t) => UnixNano(t) = t
<1>1. PICK k : k = 2 * NanoLimit /\ k \in Nat \ {0} /\ NanoLimit \in Nat \ {0}
  BY ConsumersAssumption
<1>2. PICK x : x = t + NanoLimit /\ x \in Int
  BY <1>1
<1>3. x % k \in 0..k - 1 /\ (x \in 0..k - 1 => x % k = x)
  BY <1>1, <1>2
<1>4. UnixNano(t) = (x % k) - NanoLimit
  BY <1>1, <1>2 DEF UnixNano
<1>5. x \in 0..k - 1 <=> InNanos(t)
  BY <1>1, <1>2 DEF InNanos
<1>6. InNanos(t) => UnixNano(t) = t
  <2> PICK z : z = x % k
    OBVIOUS
  <2> QED BY <1>1, <1>2, <1>3, <1>4, <1>5
<1>7. UnixNano(t) = t => InNanos(t)
  <2> PICK z : z = x % k
    OBVIOUS
  <2>1. UnixNano(t) = z - NanoLimit /\ z \in 0..k - 1
    BY <1>3, <1>4
  <2> QED BY <1>1, <2>1 DEF InNanos
<1> QED BY <1>6, <1>7 DEF unixNanoRepresentable

\* A row with all the fields of a snapshot, and valid values in them
SnapshotRow(x) ==
  /\ x = [market |-> x.market, block |-> x.block, log |-> x.log, time |-> x.time,
          resolution |-> x.resolution, finality |-> x.finality, probability |-> x.probability,
          flow |-> x.flow, depth |-> x.depth, seconds |-> x.seconds, lag |-> x.lag]
  /\ x.finality \in 0..FinalityFinalized /\ x.time \in Int /\ x.resolution \in Int
  /\ x.probability # NaN /\ x.flow # NaN /\ Finite(x.depth) /\ Finite(x.seconds)

\* A file of two valid rows is what was written, or was refused.
LEMMA TwoRowsRead ==
  ASSUME NEW r, NEW q, SnapshotRow(r), SnapshotRow(q), r.market = q.market
  PROVE  LET rows == <<r, q>> IN
         WrittenAndRead(rows) =
           IF /\ After(q, r)
              /\ \A i \in 1..2 : {rows[i].time, rows[i].resolution} \subseteq -NanoLimit..NanoLimit - 1
           THEN rows ELSE <<>>
<1> DEFINE rows == <<r, q>>
           ok == After(q, r) /\ \A x \in {r, q} : InNanos(x.time) /\ InNanos(x.resolution)
<1>1. Len(rows) = 2 /\ rows[1] = r /\ rows[2] = q /\ rows # <<>>
  OBVIOUS
<1> USE DEF SnapshotRow
<1>2. \A x \in {r, q} : validRow(x) <=> InNanos(x.time) /\ InNanos(x.resolution)
  <2>1. \A x \in {r, q} : x.finality <= FinalityFinalized
    BY DEF FinalityFinalized
  <2> QED BY <2>1, NanosOf DEF validRow
<1>3. validate(rows) <=> ok
  <2>1. validate(rows) <=> /\ validRow(r) /\ validRow(q) /\ After(q, r)
    <3>1. /\ (\A i \in 1..2 : rows[i].market = rows[1].market /\ validRow(rows[i])) <=> validRow(r) /\ validRow(q)
      BY <1>1
    <3>2. (\A i \in 2..2 : After(rows[i], rows[i-1])) <=> After(q, r)
      <4>1. \A i \in 2..2 : i = 2 /\ i - 1 = 1
        OBVIOUS
      <4>2. 2 \in 2..2 /\ 2 - 1 = 1
        OBVIOUS
      <4> HIDE DEF rows
      <4> QED BY <1>1, <4>1, <4>2
    <3> HIDE DEF rows
    <3> QED BY <1>1, <3>1, <3>2 DEF validate
  <2> QED BY <1>2, <2>1
<1>4. ASSUME ok PROVE toParquetRows(rows) = rows
  <2>1. ASSUME NEW x \in {r, q} PROVE [x EXCEPT !.time = UnixNano(@), !.resolution = UnixNano(@)] = x
    <3>1. UnixNano(x.time) = x.time /\ UnixNano(x.resolution) = x.resolution
      BY <1>4, NanosOf
    <3>2. PICK m, b, l, s, z, f, p, w, d, e, g :
            x = [market |-> m, block |-> b, log |-> l, time |-> s, resolution |-> z, finality |-> f,
                 probability |-> p, flow |-> w, depth |-> d, seconds |-> e, lag |-> g]
      OBVIOUS
    <3>3. UnixNano(s) = s /\ UnixNano(z) = z /\ x.time = s /\ x.resolution = z
      BY <3>1, <3>2
    <3> QED BY <3>2, <3>3
  <2> DEFINE nanos(x) == [x EXCEPT !.time = UnixNano(@), !.resolution = UnixNano(@)]
  <2>2. toParquetRows(rows) = [i \in 1..2 |-> rows[i]]
    <3>1. \A i \in 1..2 : nanos(rows[i]) = rows[i]
      <4>1. \A x \in {r, q} : nanos(x) = x
        BY <2>1
      <4> HIDE DEF nanos
      <4> QED BY <1>1, <4>1
    <3>2. toParquetRows(rows) = [i \in 1..2 |-> nanos(rows[i])]
      <4> HIDE DEF rows
      <4> QED BY <1>1 DEF toParquetRows
    <3> HIDE DEF nanos, rows
    <3> QED BY <3>1, <3>2
  <2> QED BY <2>2
<1>5. fromParquetRows(rows) = rows
  BY <1>1 DEF fromParquetRows
<1>6. WrittenAndRead(rows) = IF ok THEN rows ELSE <<>>
  <2> HIDE DEF rows, ok
  <2> QED BY <1>3, <1>4, <1>5 DEF WrittenAndRead
<1>7. ok <=> /\ After(q, r)
             /\ \A i \in 1..2 : {rows[i].time, rows[i].resolution} \subseteq -NanoLimit..NanoLimit - 1
  <2>1. \A i \in 1..2 : rows[i] \in {r, q}
    BY <1>1
  <2> HIDE DEF rows
  <2> QED BY <1>1, <2>1 DEF InNanos
<1> HIDE DEF ok
<1> QED BY <1>6, <1>7

\* A kept snapshot and a later one are rows of updates that were applied.
LEMMA SnapshotsFit == IInv /\ AppliedFit => ConsumersAccept
<1> SUFFICES ASSUME IInv, AppliedFit, kept # None PROVE ConsumersAccept
  BY DEF ConsumersAccept
<1>1. PICK n \in 1..Len(applied) : kept = Row(n, kept) /\ ~After(applied[n], kept)
  BY DEF IInv, PointInTime, Reference, Row
<1>2. Position(kept) /\ kept.market = Market
  BY DEF IInv, FrontierAhead, AppliedFit
<1>3. HasVector(kept) <=> kept.lag <= MaxExactInteger
  BY <1>1, <1>2, RowIsValid
<1>4. ASSUME NEW p \in Point, AllowsSnapshot(engine, p), ~After(kept, p)
      PROVE  LET rows == <<kept, Snapshot(engine, p)>> IN
             WrittenAndRead(rows) =
               IF /\ After(p, kept)
                  /\ \A i \in 1..2 : {rows[i].time, rows[i].resolution} \subseteq -NanoLimit..NanoLimit - 1
               THEN rows ELSE <<>>
  <2> DEFINE k == Len(applied)  q == Snapshot(engine, p)
  <2>1. k \in 1..k /\ engine.latest = applied[k] /\ ~After(applied[k], p) /\ p.market = Market /\ q = Row(k, p)
    BY <1>4 DEF AllowsSnapshot, IInv, EngineIsReplay, Snapshot, Row
  <2>2. Position(p)
    BY UpdatesHavePositions
  <2>3. q.market = Market /\ (After(q, kept) <=> After(p, kept))
    BY <2>1, <2>2, RowIsValid DEF After
  <2>4. SnapshotRow(kept) /\ SnapshotRow(q)
    <3>1. ASSUME NEW i \in 1..k, NEW y
          PROVE  LET x == Row(i, y) IN
                 x = [market |-> x.market, block |-> x.block, log |-> x.log, time |-> x.time,
                      resolution |-> x.resolution, finality |-> x.finality,
                      probability |-> x.probability, flow |-> x.flow, depth |-> x.depth,
                      seconds |-> x.seconds, lag |-> x.lag]
      BY DEF Row, FeaturesAt
    <3>2. kept = [market |-> kept.market, block |-> kept.block, log |-> kept.log, time |-> kept.time,
                  resolution |-> kept.resolution, finality |-> kept.finality,
                  probability |-> kept.probability, flow |-> kept.flow, depth |-> kept.depth,
                  seconds |-> kept.seconds, lag |-> kept.lag]
      BY <1>1, <3>1
    <3>3. q = [market |-> q.market, block |-> q.block, log |-> q.log, time |-> q.time,
               resolution |-> q.resolution, finality |-> q.finality,
               probability |-> q.probability, flow |-> q.flow, depth |-> q.depth,
               seconds |-> q.seconds, lag |-> q.lag]
      BY <2>1, <3>1
    <3>4. /\ kept.finality \in 0..FinalityFinalized /\ kept.time \in Int /\ kept.resolution \in Int
          /\ kept.probability # NaN /\ kept.flow # NaN /\ Finite(kept.depth) /\ Finite(kept.seconds)
      BY <1>1, <1>2, RowIsValid
    <3>5. /\ q.finality \in 0..FinalityFinalized /\ q.time \in Int /\ q.resolution \in Int
          /\ q.probability # NaN /\ q.flow # NaN /\ Finite(q.depth) /\ Finite(q.seconds)
      BY <2>1, <2>2, RowIsValid
    <3> HIDE DEF q
    <3> QED BY <3>2, <3>3, <3>4, <3>5 DEF SnapshotRow
  <2> HIDE DEF q
  <2>6. WrittenAndRead(<<kept, q>>) =
           IF /\ After(q, kept)
              /\ \A i \in 1..2 : {<<kept, q>>[i].time, <<kept, q>>[i].resolution} \subseteq -NanoLimit..NanoLimit - 1
           THEN <<kept, q>> ELSE <<>>
    BY <1>2, <2>3, <2>4, TwoRowsRead
  <2> QED BY <2>3, <2>6 DEF q
<1> QED BY <1>3, <1>4 DEF ConsumersAccept

(* Whatever an engine returns is fit for inference and for the snapshot    *)
(* file: a model refuses it only for its lag, and a file of two snapshots  *)
(* reads back as it was, unless they are at one position or a time has no  *)
(* nanoseconds (model.go:59-85, rows.go:46-130).                           *)
THEOREM ConsumersAcceptSnapshots == Spec => []ConsumersAccept
<1>1. IInv /\ AppliedFit /\ [Next]_vars => (IInv /\ AppliedFit)'
  BY InvPreserved, FitPreserved
<1> QED BY InitReplay, FitInit, SnapshotsFit, <1>1, PTL DEF Spec
=============================================================================
