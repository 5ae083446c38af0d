--------------------------- MODULE MCCoordinator ---------------------------
(***************************************************************************)
(* A provider with three forks; * marks the blocks with a fixture event.   *)
(*    g - a1* - a2 - a3                                                    *)
(*     \     \- b2*                                                        *)
(*      c1                                                                 *)
(* The indexer starts at height 1, so c1 forks below its oldest block.     *)
(***************************************************************************)
EXTENDS Coordinator

MCKnown == {"g", "a1", "a2", "a3", "b2", "c1"}
MCHash == MCKnown \cup {"zero"}
MCNumberOf == [h \in MCKnown |->
  CASE h = "g" -> 0 [] h \in {"a1", "c1"} -> 1 [] h \in {"a2", "b2"} -> 2 [] h = "a3" -> 3]
MCParentOf == [h \in MCKnown |->
  CASE h = "g" -> "zero" [] h \in {"a1", "c1"} -> "g" [] h \in {"a2", "b2"} -> "a1"
    [] h = "a3" -> "a2"]
MCLogsOf == [h \in MCKnown |-> IF h \in {"a1", "b2"} THEN <<"e">> ELSE <<>>]
MCEvent == {"e"}
MCBlock == {BlockOf(h, es) : h \in MCKnown, es \in {<<>>, <<"e">>}}
=============================================================================
