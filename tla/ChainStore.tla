----------------------------- MODULE ChainStore -----------------------------
(***************************************************************************)
(* The Store of internal/chain as a state machine: one action per exported *)
(* mutating method, called with any argument.  Rollback is exported too,   *)
(* and ignores finality; the program itself only reaches it through reorg, *)
(* so IngestSpec leaves the direct call out.                               *)
(***************************************************************************)
EXTENDS Chain

CONSTANTS
  Candidate,  \* the block sequences handed to Reorg, Reconcile, ReconcileBounded
  Depth,      \* the retained depths handed to ReconcileBounded
  Height      \* the heights handed to Rollback

ASSUME StoreAssumption ==
  /\ Candidate \subseteq Seq(Block)
  /\ Depth \subseteq Nat
  /\ Height \subseteq Nat

VARIABLES
  store,  \* the Store
  err     \* the result of the last call

vars == <<store, err>>

Init == store = EmptyStore /\ err = "ok"

Commit(result) == store' = result.store /\ err' = result.err

DoAppend == \E b \in Block : Commit(AppendBlock(store, b))
DoRollback == \E to \in Height : Commit(Ok(Rollback(store, to)))
DoReorg == \E c \in Candidate : Commit(Reorg(store, c, Unbounded))
DoReconcile == \E c \in Candidate : Commit(Reconcile(store, c, Unbounded))
DoReconcileBounded ==
  \E c \in Candidate, d \in Depth : Commit(Reconcile(store, c, d))
DoMarkFinality ==
  \E h \in Hash, level \in Seen..(Finalized + 1) : Commit(MarkFinality(store, h, level))
DoMarkCheckpoints ==
  \E safe, finalized \in Hash \cup {NoHash} : Commit(MarkCheckpoints(store, safe, finalized))

IngestNext ==
  \/ DoAppend
  \/ DoReorg
  \/ DoReconcile
  \/ DoReconcileBounded
  \/ DoMarkFinality
  \/ DoMarkCheckpoints

Next == IngestNext \/ DoRollback

Spec == Init /\ [][Next]_vars
IngestSpec == Init /\ [][IngestNext]_vars

-----------------------------------------------------------------------------
\* The store's fields have the types of the Go struct, one finality per block.
TypeOK ==
  /\ store \in [blocks: Seq(Block), finality: Seq(Seen..Finalized), state: State]
  /\ Len(store.finality) = Len(store.blocks)
  /\ err \in {"ok", "notLinear", "unknownAncestor", "broken", "resync",
              "invalidFinality", "unknownBlock", "regression", "order"}

\* The documented shape of a Store (chain.go:42): a gap-free run of blocks in
\* ascending order, each the child of the one before, whatever the calls were.
GapFree == Linear(store.blocks)

\* Finality is a prefix property: no block is more final than an older one,
\* through appends, reorgs that cut a safe suffix, and checkpoint updates.
FinalityIsPrefix ==
  \A i, j \in 1..Len(store.blocks) : i <= j => store.finality[j] <= store.finality[i]

\* README "Reorg guarantee": the incrementally kept state equals one fold of the
\* stored blocks.  The append path, the rollback path (state.go:50) and the
\* reorg path agree after any history.
StateIsReplay == store.state = rebuild(store.blocks)

Holds(s, b) == \E i \in Indices(s) : s.blocks[i] = b

\* Reconcile replaces only what lies above the newest shared block and is
\* idempotent: what it accepts is stored afterwards (from the oldest block on),
\* blocks the candidate agrees with keep their place and their finality, and
\* handing the same candidate in again changes nothing.
ReconcileSound ==
  \A c \in Candidate, d \in Depth \cup {Unbounded} :
    LET r == Reconcile(store, c, d)
        agrees(i) == \E k \in 1..Len(c) : c[k].hash = store.blocks[i].hash
    IN  r.err = "ok" /\ c # <<>> =>
          /\ \A k \in 1..Len(c) :
               c[k].number >= store.blocks[1].number => Stored(r.store, c[k])
          /\ \A i \in Indices(store) : agrees(i) =>
               /\ i \in Indices(r.store)
               /\ r.store.blocks[i] = store.blocks[i]
               /\ r.store.finality[i] = store.finality[i]
          /\ Reconcile(r.store, c, d) = Ok(r.store)

\* A finalized block keeps its place and its level whatever is ingested: no
\* append, reorg, reconciliation or checkpoint update removes it.
FinalizedStay ==
  \A i \in Indices(store) :
    store.finality[i] = Finalized =>
      /\ i \in Indices(store)'
      /\ store'.blocks[i] = store.blocks[i]
      /\ store'.finality[i] = Finalized
FinalizedKept == [][FinalizedStay]_vars

\* Every ingested call is a step of the abstract log: a start, a rewrite above
\* the finalized prefix, a longer finalized prefix, or no change at all.
Log == INSTANCE CanonicalLog
         WITH log <- store.blocks, final <- checkpointIndex(store, Finalized)
LogRefined == Log!Spec

\* A rejected call leaves the store untouched (chain.go:113, finality.go:60):
\* no half-applied reorg, no safe checkpoint without its finalized one.
RejectedLeavesStore == [][err' # "ok" => store' = store]_vars
=============================================================================
