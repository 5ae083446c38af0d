------------------------------- MODULE Chain -------------------------------
(***************************************************************************)
(* The operators of internal/chain: a Store is a gap-free run of blocks,   *)
(* the finality level of each, and the running fold of their events.  Every*)
(* operation is a pure function of a store; those that can be rejected     *)
(* return [store, err], where err = "ok" stands for a nil error.           *)
(***************************************************************************)
EXTENDS Integers, Sequences

CONSTANTS
  Hash,   \* block hashes
  NoHash, \* a nil *Hash
  Event,  \* decoded market events
  Block   \* the blocks the store may be handed

(* A header hash commits to the height and the parent of its block, but    *)
(* not to the events the indexer attached to the block.                    *)
ASSUME BlockAssumption ==
  /\ NoHash \notin Hash
  /\ Block \subseteq [number: Nat, hash: Hash, parent: Hash, events: Seq(Event)]
  /\ \A a, b \in Block : a.hash = b.hash => a.number = b.number /\ a.parent = b.parent

Seen == 0
Safe == 1
Finalized == 2

Unbounded == -1   \* a nil retainedDepth

-----------------------------------------------------------------------------
(* The fold of the event log.  SHA-256 over length-prefixed input is taken *)
(* to be collision free, so a digest is the sequence of what was hashed;   *)
(* State.Events is the number of events in it.                             *)

Content(b) == <<b.hash, b.events>>
Contents(bs) == [i \in 1..Len(bs) |-> Content(bs[i])]

Entry == Hash \X Seq(Event)
State == [height: Nat, digest: Seq(Entry)]

ZeroState == [height |-> 0, digest |-> <<>>]

advance(st, b) == [height |-> b.number, digest |-> Append(st.digest, Content(b))]

\* advance applied to the blocks of bs in turn
AdvanceAll(st, bs) ==
  IF bs = <<>> THEN st
  ELSE [height |-> bs[Len(bs)].number, digest |-> st.digest \o Contents(bs)]

rebuild(bs) == AdvanceAll(ZeroState, bs)

-----------------------------------------------------------------------------
EmptyStore == [blocks |-> <<>>, finality |-> <<>>, state |-> ZeroState]

Indices(s) == 1..Len(s.blocks)
Tip(s) == s.blocks[Len(s.blocks)]

\* The first index of S, or 0 when there is none: the code's "not found".
Lowest(S) == IF S = {} THEN 0 ELSE CHOOSE i \in S : \A j \in S : i <= j
Highest(S) == IF S = {} THEN 0 ELSE CHOOSE i \in S : \A j \in S : j <= i

IndexByNumber(s, n) == Lowest({i \in Indices(s) : s.blocks[i].number = n})
IndexByHash(s, h) == Lowest({i \in Indices(s) : s.blocks[i].hash = h})

\* ByNumber finds a block at b's height and its hash is b's.
Stored(s, b) ==
  LET i == IndexByNumber(s, b.number) IN i # 0 /\ s.blocks[i].hash = b.hash

Extends(prev, b) == b.number = prev.number + 1 /\ b.parent = prev.hash

Linear(bs) == \A i \in 2..Len(bs) : Extends(bs[i-1], bs[i])

checkpointIndex(s, level) ==
  IF level > Finalized THEN 0 ELSE Highest({i \in Indices(s) : s.finality[i] >= level})

Ok(s) == [store |-> s, err |-> "ok"]
Reject(s, e) == [store |-> s, err |-> e]
IsResync(e) == e \in {"resync", "unknownAncestor"}   \* errors.Is(e, ErrResyncRequired)

-----------------------------------------------------------------------------
\* Faulty variants, each with the slip its name tells, stand before the operator
\* they would replace; the runs show which property each of them breaks.
AppendWithoutFinality(s, b) ==
  IF s.blocks # <<>> /\ ~Extends(Tip(s), b)
  THEN IF Stored(s, b) THEN Ok(s) ELSE Reject(s, "notLinear")
  ELSE Ok([blocks |-> Append(s.blocks, b),
           finality |-> s.finality,
           state |-> advance(s.state, b)])

AppendAnyParent(s, b) ==
  IF s.blocks # <<>> /\ b.number # Tip(s).number + 1
  THEN IF Stored(s, b) THEN Ok(s) ELSE Reject(s, "notLinear")
  ELSE Ok([blocks |-> Append(s.blocks, b),
           finality |-> Append(s.finality, Seen),
           state |-> advance(s.state, b)])

\* Append: extend the tip; a stored block is a no-op.
AppendBlock(s, b) ==
  IF s.blocks # <<>> /\ ~Extends(Tip(s), b)
  THEN IF Stored(s, b) THEN Ok(s) ELSE Reject(s, "notLinear")
  ELSE Ok([blocks |-> Append(s.blocks, b),
           finality |-> Append(s.finality, Seen),
           state |-> advance(s.state, b)])

RollbackWithoutRebuild(s, to) ==
  LET cut == Lowest({i \in Indices(s) : s.blocks[i].number > to})
  IN  IF cut = 0 THEN s
      ELSE [blocks |-> SubSeq(s.blocks, 1, cut - 1),
            finality |-> SubSeq(s.finality, 1, cut - 1),
            state |-> s.state]

\* Rollback: drop every block above height to.
Rollback(s, to) ==
  LET cut == Lowest({i \in Indices(s) : s.blocks[i].number > to})
      kept == SubSeq(s.blocks, 1, cut - 1)
  IN  IF cut = 0 THEN s
      ELSE [blocks |-> kept,
            finality |-> SubSeq(s.finality, 1, cut - 1),
            state |-> rebuild(kept)]

\* The blocks of branch take the place of everything above height to.
ReplaceAbove(s, to, branch) ==
  LET kept == Rollback(s, to)
  IN  [blocks |-> kept.blocks \o branch,
       finality |-> kept.finality \o [i \in 1..Len(branch) |-> Seen],
       state |-> AdvanceAll(kept.state, branch)]

BelowFinalizedOffByOne(s, n) ==
  LET i == checkpointIndex(s, Finalized) IN i # 0 /\ n + 1 < s.blocks[i].number

BelowFinalized(s, n) ==
  LET i == checkpointIndex(s, Finalized) IN i # 0 /\ n < s.blocks[i].number

ReorgUnchecked(s, branch, depth) ==
  IF branch = <<>> THEN Ok(s)
  ELSE LET a == IF branch[1].number = 0 THEN 0 ELSE IndexByNumber(s, branch[1].number - 1)
       IN  IF a = 0 \/ s.blocks[a].hash # branch[1].parent THEN Reject(s, "unknownAncestor")
           ELSE IF BelowFinalized(s, s.blocks[a].number) THEN Reject(s, "resync")
           ELSE Ok(ReplaceAbove(s, s.blocks[a].number, branch))

\* reorg: branch starts directly above a stored ancestor.
Reorg(s, branch, depth) ==
  IF branch = <<>> THEN Ok(s)
  ELSE LET a == IF branch[1].number = 0 THEN 0 ELSE IndexByNumber(s, branch[1].number - 1)
           ancestor == s.blocks[a]
       IN  IF a = 0 \/ ancestor.hash # branch[1].parent THEN Reject(s, "unknownAncestor")
           ELSE IF ~Linear(branch) THEN Reject(s, "broken")
           ELSE IF \/ BelowFinalized(s, ancestor.number)
                   \/ depth # Unbounded /\ Tip(s).number - ancestor.number > depth
                THEN Reject(s, "resync")
           ELSE Ok(ReplaceAbove(s, ancestor.number, branch))

ReconcileFromOldestShared(s, candidate, depth) ==
  LET shared == Lowest({i \in 1..Len(candidate) : Stored(s, candidate[i])})
  IN  IF candidate = <<>> THEN Ok(s)
      ELSE IF ~Linear(candidate) THEN Reject(s, "broken")
      ELSE Reorg(s, SubSeq(candidate, shared + 1, Len(candidate)), depth)

\* reconcile: find the newest block of candidate that is stored and hand
\* what lies above it to reorg.
Reconcile(s, candidate, depth) ==
  LET shared == Highest({i \in 1..Len(candidate) : Stored(s, candidate[i])})
  IN  IF candidate = <<>> THEN Ok(s)
      ELSE IF ~Linear(candidate) THEN Reject(s, "broken")
      ELSE Reorg(s, SubSeq(candidate, shared + 1, Len(candidate)), depth)

-----------------------------------------------------------------------------
RaiseOneBlock(s, i, level) ==
  [s EXCEPT !.finality[i] = level]

\* Blocks 1..i are raised to at least level.
RaiseFinality(s, i, level) ==
  [blocks |-> s.blocks,
   finality |-> [j \in DOMAIN s.finality |->
                   IF j <= i /\ s.finality[j] < level THEN level ELSE s.finality[j]],
   state |-> s.state]

MarkFinality(s, hash, level) ==
  LET i == IndexByHash(s, hash)
  IN  IF level > Finalized THEN Reject(s, "invalidFinality")
      ELSE IF i = 0 THEN Reject(s, "unknownBlock")
      ELSE IF \/ s.finality[i] > level
              \/ level > Seen /\ i < checkpointIndex(s, level)
           THEN Reject(s, "regression")
      ELSE Ok(RaiseFinality(s, i, level))

\* MarkFinality when the optional hash is given.
MarkOptional(s, hash, level) ==
  IF hash = NoHash THEN Ok(s) ELSE MarkFinality(s, hash, level)

MarkCheckpointsInPlace(s, safe, finalized) ==
  LET staged == MarkOptional(s, safe, Safe)
      final == MarkOptional(staged.store, finalized, Finalized)
  IN  IF staged.err # "ok" THEN Reject(s, staged.err)
      ELSE final

\* MarkCheckpoints stages both updates and publishes the second result.
MarkCheckpoints(s, safe, finalized) ==
  LET lastWith(h) == Highest({i \in Indices(s) : s.blocks[i].hash = h})
      both == safe # NoHash /\ finalized # NoHash
      staged == MarkOptional(s, safe, Safe)
      final == MarkOptional(staged.store, finalized, Finalized)
  IN  IF both /\ (lastWith(safe) = 0 \/ lastWith(finalized) = 0) THEN Reject(s, "unknownBlock")
      ELSE IF both /\ lastWith(finalized) > lastWith(safe) THEN Reject(s, "order")
      ELSE IF staged.err # "ok" THEN Reject(s, staged.err)
      ELSE IF final.err # "ok" THEN Reject(s, final.err)
      ELSE Ok(final.store)
=============================================================================
