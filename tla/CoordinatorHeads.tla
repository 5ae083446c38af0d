-------------------------- MODULE CoordinatorHeads --------------------------
(***************************************************************************)
(* The coordinator with a history variable: the heads this process has     *)
(* ingested.  A head announced again after that is a duplicate, which the  *)
(* comment of RunLive says is harmless.                                    *)
(***************************************************************************)
EXTENDS MCCoordinator

VARIABLE ingested    \* hashes of the blocks committed since the process started

\* The blocks the step commits: a walked branch or a whole backfill.
Committing ==
  IF pc' # "safe" THEN {}
  ELSE IF pc = "walk" THEN {job.walk[i] : i \in 1..Len(job.walk)}
  ELSE {store'.blocks[i].hash : i \in Indices(store)'}

HeadsSpec ==
  /\ Init /\ ingested = {}
  /\ [][/\ Next
        /\ ingested' = IF Restart THEN {} ELSE ingested \cup Committing]_<<vars, ingested>>

\* coordinator.go:200-202, "buffered duplicate heads are subsequently harmless
\* because block ingestion is idempotent": committing a head that has been
\* ingested before never takes the store off the provider's head.
DuplicateHeadsHarmless ==
  [][pc = "walk" /\ job.walk[1] \in ingested /\ CaughtUp /\ canon' = canon => CaughtUp'
    ]_<<vars, ingested>>
=============================================================================
