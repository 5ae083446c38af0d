---------------------------- MODULE MCChainStore ----------------------------
(***************************************************************************)
(* Two forks above a genesis block at height 0, one of them forking again: *)
(*       g - a1 - a2 - a3                                                  *)
(*        \     \- c2                                                      *)
(*         b1 - b2                                                         *)
(* a1 also comes without its event: a hash does not commit to the logs.    *)
(***************************************************************************)
EXTENDS ChainStore

CONSTANT MaxCandidate   \* longest block sequence handed in

MCHash == {"g", "a1", "a2", "a3", "b1", "b2", "c2", "none"}
MCEvent == {"e"}

B(n, h, p, es) == [number |-> n, hash |-> h, parent |-> p, events |-> es]
MCBlock ==
  { B(0, "g", "none", <<>>),
    B(1, "a1", "g", <<"e">>), B(1, "a1", "g", <<>>), B(1, "b1", "g", <<>>),
    B(2, "a2", "a1", <<>>), B(2, "b2", "b1", <<"e">>), B(2, "c2", "a1", <<>>),
    B(3, "a3", "a2", <<>>) }

MCCandidate == UNION {[1..n -> MCBlock] : n \in 0..MaxCandidate}
MCDepth == {0, 1}
MCHeight == 0..3
=============================================================================
