--------------------------- MODULE MCRangeBackfill ---------------------------
(***************************************************************************)
(* Block numbers of a 4-bit machine, a range that ends at its last block,  *)
(* logs that share blocks and transactions, and one whose log index alone  *)
(* would put it first.                                                     *)
(***************************************************************************)
EXTENDS RangeBackfill

MCLog ==
  { [block |-> 7, tx |-> 1, index |-> 4], [block |-> 9, tx |-> 0, index |-> 2],
    [block |-> 9, tx |-> 1, index |-> 0], [block |-> 9, tx |-> 1, index |-> 3],
    [block |-> 15, tx |-> 0, index |-> 1] }
=============================================================================
