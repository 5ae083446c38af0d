------------------------------ MODULE Features ------------------------------
(***************************************************************************)
(* internal/features: the five feature formulas and the single-market      *)
(* engine as pure operators on an engine record.  A float64 is a natural   *)
(* number up to FloatMax, a larger result of an addition is +Inf, -1       *)
(* stands for every negative or non-finite input, and a quotient is the    *)
(* pair <<numerator, denominator>>: rounding is abstracted, overflow is    *)
(* not.  A rejected call changes nothing, so each operation is a condition *)
(* and a result.                                                           *)
(***************************************************************************)
EXTENDS Integers, Sequences, SequencesExt, Selections

CONSTANTS
  FloatMax,    \* the largest finite float64
  MaxSeconds,  \* the longest time.Duration, in seconds
  None         \* a nil *Trade; hasUpdate or hasObserved is false

ASSUME FeatureAssumption == FloatMax \in Nat \ {0} /\ MaxSeconds \in Nat /\ MaxSeconds <= FloatMax

TradeYES == 1
TradeNO == 2
FinalityFinalized == 2

Finite(x) == x <= FloatMax
Zero == <<0, 1>>
NaN == <<0, 0>>

\* float64 division of ideal values, for a positive denominator
Quotient(n, d) == IF Finite(d) THEN <<n, d>> ELSE IF Finite(n) THEN Zero ELSE NaN

-----------------------------------------------------------------------------
(* The formulas of features.go                                             *)

validReserve(r) == r >= 0 /\ Finite(r)
ValidReserves(yes, no) == validReserve(yes) /\ validReserve(no) /\ yes + no > 0
ValidTrade(t) == t.direction \in {TradeYES, TradeNO} /\ t.amount > 0 /\ Finite(t.amount)

\* Scaling both reserves by the larger one leaves the ideal quotient as it is.
YesImpliedProbability(yes, no) ==
  IF Finite(yes + no) THEN Quotient(no, yes + no) ELSE <<no, yes + no>>

LiquidityDepth(yes, no) == IF yes <= no THEN yes ELSE no

\* time.Time.Sub gives the longest duration for a longer one.
SecondsToResolution(at, resolution) ==
  IF resolution <= at THEN 0 ELSE IF resolution - at <= MaxSeconds THEN resolution - at ELSE MaxSeconds

BlockLag(snapshotBlock, lastUpdateBlock) == snapshotBlock - lastUpdateBlock

Volume(trades, direction) ==
  FoldLeft(LAMBDA sum, t : IF t.direction = direction THEN sum + t.amount ELSE sum, 0, trades)

\* Faulty variants stand before the definitions they would replace.
ImbalanceOverflowing(yes, no) ==
  IF Finite(yes) /\ Finite(no) THEN Quotient(yes - no, yes + no) ELSE <<yes - no, yes + no>>

\* Sums that are not finite are taken again of scaled amounts.
Imbalance(yes, no) ==
  IF Finite(yes) /\ Finite(no) /\ Finite(yes + no) THEN Quotient(yes - no, yes + no)
  ELSE <<yes - no, yes + no>>

RecentTradeFlowImbalance(trades) ==
  IF trades = <<>> THEN Zero ELSE Imbalance(Volume(trades, TradeYES), Volume(trades, TradeNO))

-----------------------------------------------------------------------------
(* The engine of engine.go                                                 *)

\* positionAfter: u is later than v in log order.
After(u, v) == u.block > v.block \/ (u.block = v.block /\ u.log > v.log)

NewEngine(market, flowWindow) ==
  [market |-> market, flowWindow |-> flowWindow, flowEvents |-> <<>>, latest |-> None, observed |-> None]

\* Position and time of u come after frontier f, where there is one.
Follows(u, f) == f # None => After(u, f) /\ u.time >= f.time

AcceptsUpdate(e, u) ==
  /\ u.market = e.market
  /\ u.finality <= FinalityFinalized
  /\ ValidReserves(u.yes, u.no)
  /\ Follows(u, e.latest)
  /\ Follows(u, e.observed)
  /\ u.trade # None => ValidTrade(u.trade)

\* The last n elements of s
LastOf(n, s) == IF Len(s) <= n THEN s ELSE SubSeq(s, Len(s) - n + 1, Len(s))

Apply(e, u) ==
  [e EXCEPT !.flowEvents = LastOf(e.flowWindow, Append(@, u.trade)), !.latest = u]

AllowsSnapshot(e, p) ==
  /\ p.market = e.market
  /\ e.latest # None
  /\ ~After(e.latest, p)
  /\ p.time >= e.latest.time

\* The trades among window events
TradesOf(events) == Select(events, {i \in 1..Len(events) : events[i] # None})

\* The features of a market last updated by u, with these flow events, seen at p
FeaturesAt(u, events, p) ==
  [market |-> p.market, block |-> p.block, log |-> p.log, time |-> p.time,
   resolution |-> u.resolution, finality |-> u.finality,
   probability |-> YesImpliedProbability(u.yes, u.no),
   flow |-> RecentTradeFlowImbalance(TradesOf(events)),
   depth |-> LiquidityDepth(u.yes, u.no),
   seconds |-> SecondsToResolution(p.time, u.resolution),
   lag |-> BlockLag(p.block, u.block)]

Snapshot(e, p) == FeaturesAt(e.latest, e.flowEvents, p)

ObserveLatestOnly(e, p) == [e EXCEPT !.observed = p]

\* The observed position and time are maxima, each of its own.
observe(e, p) ==
  IF e.observed = None THEN [e EXCEPT !.observed = p]
  ELSE LET o == e.observed
           position == IF After(p, o) THEN p ELSE o
           time == IF p.time > o.time THEN p.time ELSE o.time
       IN [e EXCEPT !.observed = [position EXCEPT !.time = time]]
=============================================================================
