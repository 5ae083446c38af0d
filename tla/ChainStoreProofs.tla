-------------------------- MODULE ChainStoreProofs --------------------------
(***************************************************************************)
(* Theorems about the Store for any set of blocks, any candidates and any  *)
(* history of calls.  The inductive invariant is WellFormed of ChainProofs,*)
(* whose lemmas carry the weight: here each action is one of its cases.    *)
(***************************************************************************)
EXTENDS ChainStore, ChainProofs

Results == {"ok", "notLinear", "unknownAncestor", "broken", "resync",
            "invalidFinality", "unknownBlock", "regression", "order"}

IInv == WellFormed(store) /\ err \in Results

\* The result of every operation is one of the named errors, or ok.
LEMMA ResultTypes ==
  ASSUME NEW s
  PROVE  /\ \A b : AppendBlock(s, b).err \in Results
         /\ \A c, d : Reorg(s, c, d).err \in Results
         /\ \A c, d : Reconcile(s, c, d).err \in Results
         /\ \A h, l : MarkFinality(s, h, l).err \in Results
         /\ \A h, k : MarkCheckpoints(s, h, k).err \in Results
<1>1. \A b : AppendBlock(s, b).err \in Results
  BY DEF AppendBlock, Ok, Reject, Results
<1>2. \A c, d : Reorg(s, c, d).err \in Results
  BY DEF Reorg, Ok, Reject, Results
<1>3. \A c, d : Reconcile(s, c, d).err \in Results
  BY <1>2 DEF Reconcile, Ok, Reject, Results
<1>4. \A t, h, l : MarkFinality(t, h, l).err \in Results
  BY DEF MarkFinality, Ok, Reject, Results
<1>5. \A t, h, l : MarkOptional(t, h, l).err \in Results
  BY <1>4 DEF MarkOptional, Ok, Results
<1>6. \A h, k : MarkCheckpoints(s, h, k).err \in Results
  BY <1>5 DEF MarkCheckpoints, Ok, Reject, Results
<1> QED BY <1>1, <1>2, <1>3, <1>4, <1>6

\* Every ingesting call keeps the store well formed and its finalized blocks.
LEMMA IngestPreserves ==
  ASSUME IInv, IngestNext
  PROVE  IInv' /\ KeepsFinalized(store, store')
<1> USE StoreAssumption DEF IInv, Commit
<1>1. CASE DoAppend
  <2>1. PICK b \in Block : Commit(AppendBlock(store, b))
    BY <1>1 DEF DoAppend
  <2>2. KeepsFinalized(store, AppendBlock(store, b).store)
    BY AppendKeeps
  <2> QED BY <2>1, <2>2, AppendWellFormed, ResultTypes
<1>2. CASE DoReorg
  <2>1. PICK c \in Candidate : Commit(Reorg(store, c, Unbounded))
    BY <1>2 DEF DoReorg
  <2> QED BY <2>1, ReorgPreserves, ResultTypes
<1>3. CASE DoReconcile
  <2>1. PICK c \in Candidate : Commit(Reconcile(store, c, Unbounded))
    BY <1>3 DEF DoReconcile
  <2> QED BY <2>1, ReconcilePreserves, ResultTypes
<1>4. CASE DoReconcileBounded
  <2>1. PICK c \in Candidate, d \in Depth : Commit(Reconcile(store, c, d))
    BY <1>4 DEF DoReconcileBounded
  <2> QED BY <2>1, ReconcilePreserves, ResultTypes
<1>5. CASE DoMarkFinality
  <2>1. PICK h \in Hash, level \in Seen..(Finalized + 1) :
          Commit(MarkFinality(store, h, level))
    BY <1>5 DEF DoMarkFinality
  <2>2. level \in Nat
    BY DEF Seen, Finalized
  <2> QED BY <2>1, <2>2, MarkPreserves, ResultTypes
<1>6. CASE DoMarkCheckpoints
  <2>1. PICK safe \in Hash \cup {NoHash}, finalized \in Hash \cup {NoHash} :
          Commit(MarkCheckpoints(store, safe, finalized))
    BY <1>6 DEF DoMarkCheckpoints
  <2> QED BY <2>1, CheckpointsPreserve, ResultTypes
<1> QED BY <1>1, <1>2, <1>3, <1>4, <1>5, <1>6 DEF IngestNext

\* The empty store of NewStore satisfies the inductive invariant.
LEMMA InitWellFormed == Init => IInv
  BY EmptyWellFormed DEF Init, IInv, Results

\* Every call, a direct Rollback included, keeps the inductive invariant.
LEMMA StepPreserves == IInv /\ [Next]_vars => IInv'
<1> SUFFICES ASSUME IInv, [Next]_vars PROVE IInv'
  OBVIOUS
<1>1. CASE IngestNext
  BY <1>1, IngestPreserves
<1>2. CASE DoRollback
  <2>1. PICK to \in Height : Commit(Ok(Rollback(store, to)))
    BY <1>2 DEF DoRollback
  <2>2. to \in Nat
    BY StoreAssumption
  <2>3. WellFormed(Rollback(store, to))
    BY <2>2, RollbackWellFormed DEF IInv
  <2> QED BY <2>1, <2>3 DEF Commit, Ok, IInv, Results
<1>3. CASE UNCHANGED vars
  BY <1>3 DEF vars, IInv
<1> QED BY <1>1, <1>2, <1>3 DEF Next

\* The inductive invariant gives every safety invariant the runs check.
LEMMA InvariantImplies == IInv => TypeOK /\ GapFree /\ FinalityIsPrefix /\ StateIsReplay
<1> SUFFICES ASSUME IInv PROVE TypeOK /\ GapFree /\ FinalityIsPrefix /\ StateIsReplay
  OBVIOUS
<1>1. TypeOK
  BY DEF IInv, WellFormed, TypeOK, Results
<1>2. GapFree /\ StateIsReplay
  BY DEF IInv, WellFormed, GapFree, StateIsReplay
<1>3. FinalityIsPrefix
  BY DEF IInv, WellFormed, Prefix, FinalityIsPrefix
<1> QED BY <1>1, <1>2, <1>3

\* The inductive invariant holds under any sequence of calls.
LEMMA Invariance == Spec => []IInv
<1>1. Init => IInv
  BY InitWellFormed
<1>2. IInv /\ [Next]_vars => IInv'
  BY StepPreserves
<1> QED BY <1>1, <1>2, PTL DEF Spec

\* The store keeps its type through any sequence of calls.
THEOREM TypeCorrect == Spec => []TypeOK
  BY Invariance, InvariantImplies, PTL

\* The store is always a gap-free run of blocks, each the child of the last.
THEOREM AlwaysGapFree == Spec => []GapFree
  BY Invariance, InvariantImplies, PTL

\* No block is ever more final than an older one.
THEOREM AlwaysFinalityPrefix == Spec => []FinalityIsPrefix
  BY Invariance, InvariantImplies, PTL

\* The incrementally kept state always equals one fold of the stored blocks.
THEOREM AlwaysReplay == Spec => []StateIsReplay
  BY Invariance, InvariantImplies, PTL

\* What reconcile accepts is stored, what it agrees with stays where it was with
\* its finality, and accepting it again changes nothing.
THEOREM AlwaysReconcilesSoundly == Spec => []ReconcileSound
<1>1. IInv => ReconcileSound
  <2> SUFFICES ASSUME IInv, NEW c \in Candidate, NEW d \in Depth \cup {Unbounded},
                      Reconcile(store, c, d).err = "ok", c # <<>>
               PROVE  /\ \A k \in 1..Len(c) :
                           c[k].number >= store.blocks[1].number
                             => Stored(Reconcile(store, c, d).store, c[k])
                      /\ \A i \in Indices(store) :
                           (\E k \in 1..Len(c) : c[k].hash = store.blocks[i].hash) =>
                             /\ i \in Indices(Reconcile(store, c, d).store)
                             /\ Reconcile(store, c, d).store.blocks[i] = store.blocks[i]
                             /\ Reconcile(store, c, d).store.finality[i] = store.finality[i]
                      /\ Reconcile(Reconcile(store, c, d).store, c, d)
                           = Ok(Reconcile(store, c, d).store)
    BY DEF ReconcileSound
  <2>1. WellFormed(store) /\ c \in Seq(Block)
    BY StoreAssumption DEF IInv
  <2>2. PICK t : t = Reconcile(store, c, d).store
    OBVIOUS
  <2> QED BY <2>1, <2>2, ReconcileLeaves DEF Indices
<1> QED BY <1>1, Invariance, PTL

\* Every rejection hands back the store it was given, a staged safe checkpoint
\* whose finalized one is refused included.
LEMMA RejectionReturnsStore ==
  ASSUME NEW s
  PROVE  /\ \A b : AppendBlock(s, b).err # "ok" => AppendBlock(s, b).store = s
         /\ \A c, d : Reorg(s, c, d).err # "ok" => Reorg(s, c, d).store = s
         /\ \A c, d : Reconcile(s, c, d).err # "ok" => Reconcile(s, c, d).store = s
         /\ \A h, l : MarkFinality(s, h, l).err # "ok" => MarkFinality(s, h, l).store = s
         /\ \A h, k : MarkCheckpoints(s, h, k).err # "ok" => MarkCheckpoints(s, h, k).store = s
<1>1. \A b : AppendBlock(s, b).err # "ok" => AppendBlock(s, b).store = s
  BY DEF AppendBlock, Ok, Reject
<1>2. \A c, d : Reorg(s, c, d).err # "ok" => Reorg(s, c, d).store = s
  BY DEF Reorg, Ok, Reject
<1>3. \A c, d : Reconcile(s, c, d).err # "ok" => Reconcile(s, c, d).store = s
  BY <1>2 DEF Reconcile, Ok, Reject
<1>4. \A h, l : MarkFinality(s, h, l).err # "ok" => MarkFinality(s, h, l).store = s
  BY DEF MarkFinality, Ok, Reject
<1>5. \A h, k : MarkCheckpoints(s, h, k).err # "ok" => MarkCheckpoints(s, h, k).store = s
  BY DEF MarkCheckpoints, Ok, Reject
<1> QED BY <1>1, <1>2, <1>3, <1>4, <1>5

\* A call that returns an error has changed nothing.
THEOREM RejectionsLeaveStore == Spec => RejectedLeavesStore
<1>1. Next => (err' # "ok" => store' = store)
  <2> SUFFICES ASSUME Next, err' # "ok" PROVE store' = store
    OBVIOUS
  <2>1. CASE DoAppend
    BY <2>1, RejectionReturnsStore DEF DoAppend, Commit
  <2>2. CASE DoReorg
    BY <2>2, RejectionReturnsStore DEF DoReorg, Commit
  <2>3. CASE DoReconcile \/ DoReconcileBounded
    BY <2>3, RejectionReturnsStore DEF DoReconcile, DoReconcileBounded, Commit
  <2>4. CASE DoMarkFinality
    BY <2>4, RejectionReturnsStore DEF DoMarkFinality, Commit
  <2>5. CASE DoMarkCheckpoints
    BY <2>5, RejectionReturnsStore DEF DoMarkCheckpoints, Commit
  <2>6. CASE DoRollback
    BY <2>6 DEF DoRollback, Commit, Ok
  <2> QED BY <2>1, <2>2, <2>3, <2>4, <2>5, <2>6 DEF Next, IngestNext
<1> QED BY <1>1, PTL DEF Spec, RejectedLeavesStore

-----------------------------------------------------------------------------
(* The ingesting specification: everything but a direct Rollback.          *)

\* It also holds when only ingestion and checkpoint calls are made.
LEMMA IngestInvariance == IngestSpec => []IInv
<1>1. Init => IInv
  BY InitWellFormed
<1>2. IInv /\ [IngestNext]_vars => IInv'
  BY StepPreserves DEF Next
<1> QED BY <1>1, <1>2, PTL DEF IngestSpec

\* No ingested block, branch, candidate or checkpoint ever removes a finalized
\* block or lowers it.
THEOREM IngestKeepsFinalized == IngestSpec => FinalizedKept
<1>1. IInv /\ [IngestNext]_vars => [FinalizedStay]_vars
  <2> SUFFICES ASSUME IInv, IngestNext PROVE FinalizedStay
    OBVIOUS
  <2>1. KeepsFinalized(store, store')
    BY IngestPreserves
  <2> QED BY <2>1 DEF KeepsFinalized, FinalizedStay, Indices
<1> QED BY <1>1, IngestInvariance, PTL DEF IngestSpec, FinalizedKept

\* One ingested call is one step of the abstract log, or none.
LEMMA LogStep ==
  ASSUME IInv, IngestNext
  PROVE  [Log!Next]_(Log!logVars)
<1> DEFINE final == checkpointIndex(store, Finalized)
<1>1. IInv' /\ KeepsFinalized(store, store')
  BY IngestPreserves
<1>2. WellFormed(store) /\ WellFormed(store')
  BY <1>1 DEF IInv
<1>3. store'.blocks \in Seq(Block) /\ Log!Linked(store'.blocks)
  BY <1>2, Fields DEF WellFormed, Linear, Extends, Log!Linked
<1>4. CASE DoAppend
  <2>1. PICK b \in Block : Commit(AppendBlock(store, b))
    BY <1>4 DEF DoAppend
  <2>2. CASE store' = store
    BY <2>2 DEF Log!logVars
  <2>3. CASE store' # store
    <3>1. /\ store'.blocks = Append(store.blocks, b)
          /\ store'.finality = Append(store.finality, Seen)
      BY <2>1, <2>3 DEF Commit, AppendBlock, Ok, Reject
    <3>2. /\ Len(store'.blocks) = Len(store.blocks) + 1
          /\ \A i \in 1..Len(store.blocks) : store'.blocks[i] = store.blocks[i]
      BY <3>1, <1>2, Fields, AppendProperties
    <3>3. checkpointIndex(store', Finalized) = final
      <4>1. Seen \in Seen..Finalized
        BY DEF Seen, Finalized
      <4>2. /\ \A i \in 1..Len(store.blocks) : store'.finality[i] = store.finality[i]
            /\ store'.finality[Len(store.blocks) + 1] = Seen
        BY <3>1, <4>1, <1>2, Fields, AppendProperties
      <4> QED BY <3>2, <4>2, <1>2, AppendKeepsCount
    <3>4. CASE store.blocks = <<>>
      <4>1. store'.blocks # <<>>
        BY <3>2, <1>2, Fields, EmptySeq
      <4> QED BY <3>3, <3>4, <4>1, <1>3 DEF Log!Next, Log!Start
    <3>5. CASE store.blocks # <<>>
      <4> DEFINE k == Len(store.blocks)
      <4>1. k \in 1..Len(store.blocks) /\ k >= final /\ Len(store'.blocks) > k
        BY <3>2, <3>5, <1>2, Fields, FinalCount, EmptySeq
      <4> QED BY <4>1, <3>2, <3>3, <1>3 DEF Log!Next, Log!Rewrite
    <3> QED BY <3>4, <3>5
  <2> QED BY <2>2, <2>3
<1>5. ASSUME NEW branch \in Seq(Block), NEW depth, store' = Reorg(store, branch, depth).store
      PROVE  [Log!Next]_(Log!logVars)
  <2>1. CASE store' = store
    BY <2>1 DEF Log!logVars
  <2>2. CASE store' # store
    <3>1. PICK a \in 1..Len(store.blocks) : Rewrites(store, store', a, branch)
      BY <2>2, <1>2, <1>5, ReorgShape
    <3>2. /\ Len(store'.blocks) = a + Len(branch)
          /\ \A i \in 1..a : store'.blocks[i] = store.blocks[i]
      <4>1. Rewritten(store, store', a, branch)
        BY <3>1, <1>2, RewriteShape
      <4> QED BY <4>1 DEF Rewritten
    <3>3. Len(branch) \in Nat \ {0}
      BY <3>1, EmptySeq DEF Rewrites
    <3>4. checkpointIndex(store', Finalized) = final
      BY <3>1, <1>2, RewriteKeepsCount
    <3>5. a >= final
      <4>1. final \in 0..Len(store.blocks)
        BY <1>2, FinalCount
      <4>2. final \in 1..Len(store.blocks) => store.finality[final] = Finalized
        BY <1>2, FinalCount
      <4> HIDE DEF final
      <4> QED BY <3>1, <4>1, <4>2 DEF Rewrites
    <3>6. Len(store'.blocks) > a
      BY <3>2, <3>3
    <3> HIDE DEF final
    <3> QED BY <3>2, <3>4, <3>5, <3>6, <1>3 DEF Log!Next, Log!Rewrite, final
  <2> QED BY <2>1, <2>2
<1>6. ASSUME NEW c \in Seq(Block), NEW depth, store' = Reconcile(store, c, depth).store
      PROVE  [Log!Next]_(Log!logVars)
  <2>1. CASE store' = store
    BY <2>1 DEF Log!logVars
  <2>2. CASE store' # store
    <3>1. PICK branch \in Seq(Block) : store' = Reorg(store, branch, depth).store
      BY <2>2, <1>2, <1>6, ReconcileShape
    <3> QED BY <3>1, <1>5
  <2> QED BY <2>1, <2>2
<1>7. ASSUME store'.blocks = store.blocks
      PROVE  [Log!Next]_(Log!logVars)
  <2> DEFINE m == checkpointIndex(store, Finalized)  n == checkpointIndex(store', Finalized)
  <2>1. m \in 0..Len(store.blocks) /\ n \in 0..Len(store.blocks)
    BY <1>2, <1>7, FinalCount
  <2>2. m <= n
    <3> SUFFICES ASSUME m \in 1..Len(store.blocks) PROVE m <= n
      BY <2>1
    <3>1. store.finality[m] = Finalized
      BY <1>2, FinalCount
    <3>2. m \in 1..Len(store'.blocks) /\ store'.finality[m] = Finalized
      BY <3>1, <1>1 DEF KeepsFinalized
    <3> QED BY <3>2, <1>2, FinalCount
  <2>3. m = n \/ n \in (m+1)..Len(store.blocks)
    <3> HIDE DEF m, n
    <3> QED BY <2>1, <2>2, <1>2, Fields
  <2> QED BY <2>3, <1>7, <1>3 DEF Log!Next, Log!Finalize, Log!logVars
<1>8. CASE DoReorg
  BY <1>8, <1>5, StoreAssumption DEF DoReorg, Commit
<1>9. CASE DoReconcile
  BY <1>9, <1>6, StoreAssumption DEF DoReconcile, Commit
<1>10. CASE DoReconcileBounded
  BY <1>10, <1>6, StoreAssumption DEF DoReconcileBounded, Commit
<1>11. CASE DoMarkFinality
  <2>1. PICK h \in Hash, level \in Seen..(Finalized + 1) :
          Commit(MarkFinality(store, h, level))
    BY <1>11 DEF DoMarkFinality
  <2>2. level \in Nat
    BY DEF Seen, Finalized
  <2>3. store'.blocks = store.blocks
    BY <2>1, <2>2, <1>2, MarkPreserves DEF Commit
  <2> QED BY <2>3, <1>7
<1>12. CASE DoMarkCheckpoints
  <2>1. store'.blocks = store.blocks
    BY <1>12, <1>2, CheckpointsPreserve DEF DoMarkCheckpoints, Commit
  <2> QED BY <2>1, <1>7
<1> QED BY <1>4, <1>8, <1>9, <1>10, <1>11, <1>12 DEF IngestNext

\* The store, fed through its ingesting methods, implements the abstract log.
THEOREM ImplementsLog == IngestSpec => LogRefined
<1>1. Init => Log!Init
  BY DEF Init, EmptyStore, Log!Init, checkpointIndex, Finalized, Indices, Highest
<1>2. IInv /\ [IngestNext]_vars => [Log!Next]_(Log!logVars)
  <2> SUFFICES ASSUME IInv, [IngestNext]_vars PROVE [Log!Next]_(Log!logVars)
    OBVIOUS
  <2>1. CASE IngestNext
    BY <2>1, LogStep
  <2>2. CASE UNCHANGED vars
    BY <2>2 DEF vars, Log!logVars
  <2> QED BY <2>1, <2>2
<1> QED BY <1>1, <1>2, IngestInvariance, PTL DEF IngestSpec, LogRefined, Log!Spec
=============================================================================
