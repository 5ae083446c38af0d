--------------------------- MODULE FeatureEngine ---------------------------
(***************************************************************************)
(* One Engine of internal/features and a caller that applies updates and   *)
(* asks for snapshots in any order, in range or not.                       *)
(***************************************************************************)
EXTENDS Features

CONSTANTS
  Market,      \* the market the engine was made for
  FlowWindow,  \* settings.FlowWindow
  Update,      \* updates the caller may try
  Point,       \* points the caller may ask for
  MaxUpdates   \* bound: updates applied in one behaviour

\* The points in and between the ones the caller asks for
Frontier == [market : {p.market : p \in Point}, block : Nat, log : Nat, time : Nat]

ASSUME EngineAssumption ==
  /\ FlowWindow \in Nat \ {0} /\ MaxUpdates \in Nat
  /\ \A u \in Update : u.block \in Nat /\ u.log \in Nat /\ u.time \in Nat
  /\ \A u \in Update : u.yes \in Int /\ u.no \in Int /\ (u.trade # None => u.trade.amount \in Int)
  /\ Point \subseteq Frontier
  /\ None \notin Update \cup Frontier

VARIABLES
  engine,   \* the Engine
  applied,  \* history: the updates it accepted, oldest first
  kept      \* history: one of the snapshots it returned, any of them, or None

vars == <<engine, applied, kept>>

-----------------------------------------------------------------------------
Init ==
  /\ engine = NewEngine(Market, FlowWindow)
  /\ applied = <<>>
  /\ kept = None

DoApply ==
  \E u \in Update :
    /\ Len(applied) < MaxUpdates
    /\ AcceptsUpdate(engine, u)
    /\ engine' = Apply(engine, u)
    /\ applied' = Append(applied, u)
    /\ UNCHANGED kept

DoSnapshot ==
  \E p \in Point :
    /\ AllowsSnapshot(engine, p)
    /\ engine' = observe(engine, p)
    /\ kept' \in {kept, Snapshot(engine, p)}
    /\ UNCHANGED applied

Next == DoApply \/ DoSnapshot

Spec == Init /\ [][Next]_vars

-----------------------------------------------------------------------------
\* The trades of the first n updates
Trades(n) == [i \in 1..n |-> applied[i].trade]

\* What a snapshot at p must be when the first n updates are the past of p.
Reference(n, p) == FeaturesAt(applied[n], LastOf(FlowWindow, Trades(n)), p)

(* Point-in-time correctness (engine.go:47-48, 98-101): a snapshot, once   *)
(* returned, stays what the updates at or before its position determine,   *)
(* whatever is applied later, and no later update is dated before it.      *)
PointInTime ==
  kept # None =>
    \E n \in 1..Len(applied) :
      /\ \A i \in 1..Len(applied) : i <= n <=> ~After(applied[i], kept)
      /\ \A i \in 1..Len(applied) : i > n => applied[i].time >= kept.time
      /\ \A i \in 1..n : applied[i].time <= kept.time
      /\ kept = Reference(n, kept)

(* The flow imbalance is (YES - NO) / (YES + NO) over the window's trades  *)
(* and the probability NO / (YES + NO), also when a sum is not a finite    *)
(* float64 (features.go:45-54, 77-93).                                     *)
FlowIsExact ==
  LET trades == TradesOf(engine.flowEvents)
      total(d) == FoldLeft(LAMBDA s, t : s + (IF t.direction = d THEN t.amount ELSE 0), 0, trades)
      u == engine.latest
  IN u # None =>
       LET f == Snapshot(engine, u)
       IN /\ f.flow = IF trades = <<>> THEN Zero
                      ELSE <<total(TradeYES) - total(TradeNO), total(TradeYES) + total(TradeNO)>>
          /\ f.probability = <<u.no, u.yes + u.no>>
=============================================================================
