-------------------------- MODULE MCFixtureDataset --------------------------
(***************************************************************************)
(* Two markets and zero, a resolution time that a block reaches or passes  *)
(* and one that wraps to a negative int64, reserves and trades that the    *)
(* contract refuses among those it takes, and a flow window shorter than   *)
(* a market's life.                                                        *)
(***************************************************************************)
EXTENDS FixtureDataset

Swaps == Permutations(MarketId)
MCReserves == {<<1, 2>>, <<0, 2>>}
MCTrades == {[direction |-> TradeYES, amount |-> 2], [direction |-> TradeNO, amount |-> 1],
             [direction |-> TradeNO, amount |-> 0]}
=============================================================================
