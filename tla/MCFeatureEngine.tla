-------------------------- MODULE MCFeatureEngine --------------------------
(***************************************************************************)
(* Four log positions and three times, so that an update can be behind a   *)
(* snapshot in position, in time or in both; amounts whose sums pass the   *)
(* largest float; another market's update and invalid values.  A snapshot  *)
(* can lie at the resolution, and at a time without nanoseconds.           *)
(***************************************************************************)
EXTENDS SnapshotConsumers

At(market, b, l, t) == [market |-> market, block |-> b, log |-> l, time |-> t]

MCPoint ==
  { At(m, b, l, t) : m \in {Market}, b \in 1..2, l \in 0..1, t \in 1..3 }
    \cup { At("other", 2, 1, 3) }

Trade(d, a) == [direction |-> d, amount |-> a]

Payload ==
  { <<1, 3, None>>, <<3, 3, Trade(TradeYES, 3)>>, <<0, 2, Trade(TradeNO, 2)>>,
    <<0, 0, None>>, <<-1, 2, None>>, <<1, 1, Trade(TradeYES, 0)>> }

MCUpdate ==
  { [market |-> p.market, block |-> p.block, log |-> p.log, time |-> p.time, yes |-> d[1], no |-> d[2],
     trade |-> d[3], resolution |-> 2, finality |-> f] : p \in MCPoint, d \in Payload, f \in {1, 3} }
=============================================================================
