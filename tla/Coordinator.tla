----------------------------- MODULE Coordinator -----------------------------
(***************************************************************************)
(* internal/indexer/coordinator.go: one coordinator that owns a Store and  *)
(* reads an RPC provider whose canonical chain keeps moving.  Between two  *)
(* RPC calls the provider may take any number of its own steps; between    *)
(* the calls the coordinator is sequential, so an action is one RPC call   *)
(* with the local work that follows it.                                    *)
(***************************************************************************)
EXTENDS Chain

CONSTANTS
  Known,                \* hashes of the blocks that exist
  NumberOf, ParentOf,   \* the header a hash commits to
  LogsOf,               \* the decoded events of the fixture's logs in a block
  Genesis,              \* the block at height 0
  StartBlock, RetainedDepth, BackfillMaxRange, LiveQueueSize,   \* the configuration
  EntryPoints,          \* what the caller calls: Run ("backfill"), RunLive ("subscribe")
  MaxProviderSteps      \* bound on the provider's moves

\* A block as the indexer builds it
BlockOf(h, events) ==
  [number |-> NumberOf[h], hash |-> h, parent |-> ParentOf[h], events |-> events]

ASSUME CoordinatorAssumption ==
  /\ Genesis \in Known /\ Known \subseteq Hash
  /\ NumberOf \in [Known -> Nat] /\ ParentOf \in [Known -> Hash]
  /\ LogsOf \in [Known -> Seq(Event)]
  /\ \A h \in Known : {BlockOf(h, <<>>), BlockOf(h, LogsOf[h])} \subseteq Block
  /\ \A h \in Known \ {Genesis} :
       ParentOf[h] \in Known /\ NumberOf[h] = NumberOf[ParentOf[h]] + 1
  /\ NumberOf[Genesis] = 0
  /\ StartBlock \in Nat
  /\ {RetainedDepth, BackfillMaxRange, LiveQueueSize} \subseteq Nat \ {0}
  /\ EntryPoints \subseteq {"backfill", "subscribe"}
  /\ MaxProviderSteps \in Nat

VARIABLES
  canon, safe, final,  \* the provider: head of its canonical chain, its two checkpoints
  moves,               \* how often the provider has moved
  notices,             \* head announcements on their way to a subscriber
  subscribed, heads,   \* the live subscription and its channel
  store,               \* the Store
  pc,                  \* the RPC call the coordinator makes next
  job,                 \* what it has staged for the current backfill or head
  err,                 \* the error the last call returned
  backfilled           \* history: the store holds blocks of a backfill

provider == <<canon, safe, final, moves, notices>>
vars == <<canon, safe, final, moves, notices, subscribed, heads, store, pc, job, err, backfilled>>

-----------------------------------------------------------------------------
\* h and its ancestors
Branch[h \in Known] == IF h = Genesis THEN {h} ELSE {h} \cup Branch[ParentOf[h]]

\* HeaderByNumber: the canonical header at height n, if there is one yet.
KnownAt(n) == n <= NumberOf[canon]
HeaderAt(n) == CHOOSE h \in Branch[canon] : NumberOf[h] = n

Idle == [latest |-> 0, from |-> 0, to |-> 0, logged |-> 0, logs |-> {},
         cand |-> <<>>, walk |-> <<>>, safe |-> NoHash, then |-> "exited"]

\* boundedEnd: the end of the range of at most size blocks that starts at from.
boundedEnd(from, size, last) == IF size - 1 >= last - from THEN last ELSE from + size - 1

-----------------------------------------------------------------------------
(* commitCandidate: skip what is stored, append what extends the tip, hand *)
(* the whole candidate to ReconcileBounded at the first block that neither *)
(* does.                                                                   *)

commitStep(p, block, candidate) ==
  IF p.done \/ Stored(p.store, block) THEN p
  ELSE IF p.store.blocks = <<>> \/ Extends(Tip(p.store), block)
    THEN LET r == AppendBlock(p.store, block)
         IN  [store |-> r.store, err |-> r.err, done |-> r.err # "ok"]
  ELSE LET r == Reconcile(p.store, candidate, RetainedDepth)
       IN  [store |-> r.store, err |-> IF IsResync(r.err) THEN "resync" ELSE r.err, done |-> TRUE]

\* Where commitCandidate is after each prefix of the candidate
commitPrefix(s, candidate) ==
  LET after[i \in 0..Len(candidate)] ==
        IF i = 0 THEN [store |-> s, err |-> "ok", done |-> FALSE]
        ELSE commitStep(after[i-1], candidate[i], candidate)
  IN  after

\* Faulty variants stand before the definitions they would replace.
commitCandidateUnlinked(s, candidate) ==
  LET end == commitPrefix(s, candidate)[Len(candidate)] IN [store |-> end.store, err |-> end.err]

commitCandidate(s, candidate) ==
  LET end == commitPrefix(s, candidate)[Len(candidate)]
  IN  IF ~Linear(candidate) THEN Reject(s, "disconnected")
      ELSE [store |-> end.store, err |-> end.err]

-----------------------------------------------------------------------------
(* refreshFinality, once both checkpoint headers are there.                *)

CheckpointOnlyStored(s, h) ==
  NumberOf[h] < s.blocks[1].number \/ IndexByNumber(s, NumberOf[h]) # 0

\* validateCheckpoint: the checkpoint is older than the store or not newer
\* than the current one (no update), or the stored block's hash, or an error.
CheckpointMatches(s, h) ==
  \/ NumberOf[h] < s.blocks[1].number
  \/ LET i == IndexByNumber(s, NumberOf[h]) IN i # 0 /\ s.blocks[i].hash = h

CheckpointAlways(s, h, level) ==
  IF NumberOf[h] < s.blocks[1].number THEN NoHash
  ELSE s.blocks[IndexByNumber(s, NumberOf[h])].hash

CheckpointUpdate(s, h, level) ==
  LET c == checkpointIndex(s, level)
  IN  IF \/ NumberOf[h] < s.blocks[1].number
         \/ c # 0 /\ NumberOf[h] <= s.blocks[c].number
      THEN NoHash ELSE s.blocks[IndexByNumber(s, NumberOf[h])].hash

Refresh(s, safeHead, finalHead) ==
  LET marked == MarkCheckpoints(s, CheckpointUpdate(s, safeHead, Safe),
                                   CheckpointUpdate(s, finalHead, Finalized))
  IN  IF NumberOf[finalHead] > NumberOf[safeHead] THEN Reject(s, "disconnected")
      ELSE IF s.blocks = <<>>
        THEN IF NumberOf[safeHead] < StartBlock THEN Ok(s) ELSE Reject(s, "disconnected")
      ELSE IF \/ NumberOf[safeHead] > Tip(s).number
              \/ ~CheckpointMatches(s, safeHead)
              \/ ~CheckpointMatches(s, finalHead)
        THEN Reject(s, "disconnected")
      ELSE IF marked.err # "ok" THEN Reject(s, "checkpointRejected")
      ELSE Ok(marked.store)
-----------------------------------------------------------------------------
(* The provider (external).  It never reorgs its finalized block away, and *)
(* never makes an ancestor of its head the head.                           *)

Advance(newCanon, newSafe, newFinal) ==
  /\ moves < MaxProviderSteps
  /\ moves' = moves + 1
  /\ canon' = newCanon /\ safe' = newSafe /\ final' = newFinal
  /\ UNCHANGED <<subscribed, heads, store, pc, job, err, backfilled>>

NewHead ==
  \E h \in Known \ Branch[canon] :
    /\ final \in Branch[h]
    /\ Advance(h, IF safe \in Branch[h] THEN safe ELSE final, final)
    /\ notices' = Append(notices, h)

NewSafe ==
  \E h \in Branch[canon] \ Branch[safe] : Advance(canon, h, final) /\ UNCHANGED notices

NewFinal ==
  \E h \in Branch[canon] \ Branch[final] :
    Advance(canon, IF h \in Branch[safe] THEN safe ELSE h, h) /\ UNCHANGED notices

\* An announcement reaches the subscription, or nobody is subscribed.
Announce ==
  /\ notices # <<>>
  /\ subscribed => Len(heads) < LiveQueueSize
  /\ heads' = IF subscribed THEN Append(heads, Head(notices)) ELSE heads
  /\ notices' = Tail(notices)
  /\ UNCHANGED <<canon, safe, final, moves, subscribed, store, pc, job, err, backfilled>>

-----------------------------------------------------------------------------
(* The coordinator.                                                        *)

\* A call of Run or RunLive returns e; the subscription is dropped.
Exit(e) ==
  /\ pc' = "exited" /\ err' = e /\ job' = Idle
  /\ subscribed' = FALSE /\ heads' = <<>>
  /\ UNCHANGED <<store, provider, backfilled>>

Goto(next, newJob) ==
  /\ pc' = next /\ job' = newJob
  /\ UNCHANGED <<err, provider, backfilled>>

\* commitCandidate and, when it succeeds, on to refreshFinality.
Commit(candidate, next) ==
  LET r == commitCandidate(store, candidate)
  IN  /\ store' = r.store
      /\ IF r.err # "ok"
         THEN /\ pc' = "exited" /\ err' = r.err /\ job' = Idle
              /\ subscribed' = FALSE /\ heads' = <<>>
              /\ UNCHANGED <<provider, backfilled>>
         ELSE /\ pc' = "safe" /\ job' = [Idle EXCEPT !.then = next]
              /\ backfilled' = (backfilled \/ next = "subscribe")
              /\ UNCHANGED <<subscribed, heads, err, provider>>

\* Any RPC call may fail, and any wait may end with the caller's cancellation
\* or, in live mode, with the end of the subscription.
Fail == pc # "exited" /\ Exit("rpc")

\* Backfill: read the latest header.
BackfillLatest ==
  /\ pc = "backfill"
  /\ IF NumberOf[canon] < StartBlock
     THEN Goto("subscribe", Idle)
     ELSE Goto("logs", [Idle EXCEPT
            !.latest = NumberOf[canon], !.from = StartBlock, !.logged = StartBlock,
            !.to = boundedEnd(StartBlock, BackfillMaxRange, NumberOf[canon])])
  /\ UNCHANGED <<subscribed, heads, store>>

\* buildBackfillRange, first half: the logs of the range, in one request or
\* in several when the provider made the backfiller split it.
BackfillLogs ==
  /\ pc = "logs"
  /\ \E upto \in job.logged..job.to :
       LET found == {h \in Branch[canon] : NumberOf[h] \in job.logged..upto /\ LogsOf[h] # <<>>}
       IN  Goto(IF upto = job.to THEN "headers" ELSE "logs",
                [job EXCEPT !.logged = upto + 1, !.logs = @ \cup found])
  /\ UNCHANGED <<subscribed, heads, store>>

\* convertBlock's test of the logs kept for a height, and the events they become:
\* all of them have to be of the block with this header.
BelongByNumber(found, h) == \A l \in found : NumberOf[l] = NumberOf[h]
Belong(found, h) == found \subseteq {h}
EventsIn(found) == IF found = {} THEN <<>> ELSE LogsOf[CHOOSE l \in found : TRUE]

\* buildBackfillRange, second half: one header, and whatever logs were fetched for
\* its height before; then the next header, the next range or the commit.
BackfillHeader ==
  /\ pc = "headers"
  /\ LET n == job.from
         h == HeaderAt(n)
         found == {l \in job.logs : NumberOf[l] = n}
         cand == Append(job.cand, BlockOf(h, EventsIn(found)))
     IN  IF ~KnownAt(n) \/ ~Belong(found, h)
         THEN Exit(IF KnownAt(n) THEN "disconnected" ELSE "rpc")
         ELSE IF n < job.to
         THEN /\ Goto("headers", [job EXCEPT !.from = n + 1, !.cand = cand])
              /\ UNCHANGED <<subscribed, heads, store>>
         ELSE IF n < job.latest
         THEN /\ Goto("logs", [job EXCEPT !.from = n + 1, !.logged = n + 1, !.cand = cand,
                 !.logs = {}, !.to = boundedEnd(n + 1, BackfillMaxRange, job.latest)])
              /\ UNCHANGED <<subscribed, heads, store>>
         ELSE Commit(cand, "subscribe")

\* refreshFinality: the safe header, then the finalized one and the marks.
RefreshSafe ==
  /\ pc = "safe"
  /\ Goto("final", [job EXCEPT !.safe = safe])
  /\ UNCHANGED <<subscribed, heads, store>>

RefreshFinal ==
  /\ pc = "final"
  /\ LET r == Refresh(store, job.safe, final)
     IN  IF r.err # "ok" THEN Exit(r.err)
         ELSE /\ store' = r.store
              /\ Goto(job.then, Idle)
              /\ UNCHANGED <<subscribed, heads>>

\* RunLive: subscribe first, then read the latest header and ingest it.
Subscribe ==
  /\ pc = "subscribe"
  /\ subscribed' = TRUE /\ heads' = <<>>
  /\ Goto("catchup", Idle)
  /\ UNCHANGED store

\* The store has block h.
Have(h) == Stored(store, BlockOf(h, <<>>))

\* ingestHead up to its first RPC call.
Ingest(h) ==
  IF NumberOf[h] < StartBlock THEN Goto("select", Idle)
  ELSE IF Have(h) THEN Goto("safe", [Idle EXCEPT !.then = "select"])
  ELSE Goto("walk", [Idle EXCEPT !.walk = <<h>>])

CatchUpSkipped ==
  /\ pc = "catchup"
  /\ Goto("select", Idle)
  /\ UNCHANGED <<subscribed, heads, store>>

CatchUp ==
  /\ pc = "catchup"
  /\ Ingest(canon)
  /\ UNCHANGED <<subscribed, heads, store>>

TakeHead ==
  /\ pc = "select" /\ heads # <<>>
  /\ heads' = Tail(heads)
  /\ Ingest(Head(heads))
  /\ UNCHANGED <<subscribed, store>>

\* The header the walk has come to, and whether the walk ends with it: at
\* StartBlock for an empty store, else above a stored parent.
Lowermost == job.walk[Len(job.walk)]
WalkEndsOneEarly ==
  IF store.blocks = <<>> THEN NumberOf[Lowermost] <= StartBlock + 1
  ELSE NumberOf[Lowermost] > 0 /\ Have(ParentOf[Lowermost])

WalkEnds ==
  IF store.blocks = <<>> THEN NumberOf[Lowermost] <= StartBlock
  ELSE /\ NumberOf[Lowermost] > 0
       /\ Have(ParentOf[Lowermost])

\* No stored ancestor within reach: height 0, or more than RetainedDepth below the tip.
TooDeep ==
  /\ store.blocks # <<>>
  /\ \/ NumberOf[Lowermost] = 0
     \/ Tip(store).number - (NumberOf[Lowermost] - 1) > RetainedDepth

\* One step of the walk to a stored ancestor: fetch the parent by number, and
\* check that the canonical header there still is the parent.
WalkParent ==
  /\ pc = "walk" /\ ~WalkEnds
  /\ IF TooDeep THEN Exit("resync")
     ELSE IF ~KnownAt(NumberOf[Lowermost] - 1) THEN Exit("rpc")
     ELSE IF HeaderAt(NumberOf[Lowermost] - 1) # ParentOf[Lowermost] THEN Exit("disconnected")
     ELSE /\ Goto("walk", [job EXCEPT !.walk = Append(@, ParentOf[Lowermost])])
          /\ UNCHANGED <<subscribed, heads, store>>

FetchBranchByNumber ==
  /\ pc = "walk" /\ WalkEnds
  /\ LET n == Len(job.walk)
         logsAt(k) == IF KnownAt(k) THEN LogsOf[HeaderAt(k)] ELSE <<>>
     IN  Commit([i \in 1..n |-> BlockOf(job.walk[n+1-i], logsAt(NumberOf[job.walk[n+1-i]]))], "select")

\* fetchBlock for every header of the walk, oldest first, by block hash; the
\* candidate is committed only when all of them are there.
FetchBranch ==
  /\ pc = "walk" /\ WalkEnds
  /\ LET n == Len(job.walk)
     IN  Commit([i \in 1..n |-> BlockOf(job.walk[n+1-i], LogsOf[job.walk[n+1-i]])], "select")

\* The caller calls again with the same store, as the comment at
\* coordinator.go:26 allows, or the process restarts with an empty one.
CallAgain ==
  /\ pc = "exited"
  /\ \E entry \in EntryPoints : pc' = entry
  /\ err' = "ok"
  /\ UNCHANGED <<subscribed, heads, store, job, provider, backfilled>>

Restart ==
  /\ pc = "exited"
  /\ \E entry \in EntryPoints : pc' = entry
  /\ err' = "ok" /\ store' = EmptyStore /\ backfilled' = FALSE
  /\ UNCHANGED <<subscribed, heads, job, provider>>

Init ==
  /\ canon \in Known /\ safe \in Branch[canon] /\ final \in Branch[safe]
  /\ moves = 0 /\ notices = <<>>
  /\ subscribed = FALSE /\ heads = <<>>
  /\ store = EmptyStore /\ pc \in EntryPoints /\ job = Idle /\ err = "ok"
  /\ backfilled = FALSE

Provider == NewHead \/ NewSafe \/ NewFinal
Progress ==
  \/ BackfillLatest \/ BackfillLogs \/ BackfillHeader
  \/ RefreshSafe \/ RefreshFinal
  \/ Subscribe \/ CatchUp \/ TakeHead \/ WalkParent \/ FetchBranch

Next == Provider \/ Announce \/ Progress \/ Fail \/ CallAgain \/ Restart

Spec == Init /\ [][Next]_vars
-----------------------------------------------------------------------------
Indexes(h) == {i \in Indices(store) : store.blocks[i].hash = h}

\* The store of a clean replay of the provider's chain from StartBlock to h.
CleanReplay(h) ==
  [i \in 1..(NumberOf[h] - StartBlock + 1) |->
     LET b == CHOOSE k \in Branch[h] : NumberOf[k] = StartBlock + i - 1
     IN  BlockOf(b, LogsOf[b])]

CaughtUp == store.blocks # <<>> /\ Tip(store).hash = canon

\* Whatever was ingested, in whatever order, the store is one linked run of
\* blocks that starts at StartBlock and whose state is the fold of its blocks.
StoreIsCanonicalRun ==
  /\ Linear(store.blocks)
  /\ store.blocks # <<>> => store.blocks[1].number = StartBlock
  /\ store.state = rebuild(store.blocks)

\* A block that is marked finalized is an ancestor of the provider's finalized
\* block: no reorg between the two checkpoint reads, or between reading them
\* and the walk that stored the blocks, marks an orphan.
FinalizedAreTheProviders ==
  \A i \in Indices(store) :
    store.finality[i] = Finalized => store.blocks[i].hash \in Branch[final]

\* A block's events are all its own, never the logs of a replaced block.  Only
\* a backfill, which reads the logs before the header, may have missed them: a
\* store filled by live heads is complete, whatever the provider did meanwhile.
EventsBelongToBlock ==
  \A i \in Indices(store) :
    \/ store.blocks[i].events = LogsOf[store.blocks[i].hash]
    \/ backfilled /\ store.blocks[i].events = <<>>

\* README "Reorg guarantee": caught up with the provider, through any reorgs,
\* the store is the clean replay of the canonical chain.
ReplayMatchesChain == CaughtUp => store.blocks = CleanReplay(canon)

\* Once validateCheckpoint has accepted both checkpoints, the store never
\* rejects the pair.
CheckpointsAccepted == err # "checkpointRejected"

\* Blocks are committed whole or not at all: the step at which a call fails, for
\* whatever reason, leaves the store alone; a head that was walked to its stored
\* ancestor becomes the tip, with every block of the walk below it; and a
\* backfill commits up to the latest height it set out for.  (What the call
\* committed before it failed stays, as coordinator.go:21-26 says.)
CommitsAreWhole ==
  [][/\ pc # "exited" /\ pc' = "exited" => store' = store
     /\ pc = "walk" /\ store'.blocks # store.blocks => Tip(store').hash = job.walk[1]
     /\ pc = "headers" /\ store'.blocks # store.blocks => Tip(store').number = job.latest]_vars

\* Between restarts the indexer's store is the canonical log itself: whatever
\* is read in whatever order from a moving provider, each commit appends to it
\* or rewrites a suffix above the finalized prefix, and that prefix only grows.
Log == INSTANCE CanonicalLog
         WITH log <- store.blocks, final <- checkpointIndex(store, Finalized)
LogImplemented == Log!Init /\ [][Restart \/ Log!Next]_(Log!logVars)

\* A reorg drops at most RetainedDepth blocks.
ReorgBounded ==
  [][Restart \/ \A i \in 1..(Len(store.blocks) - RetainedDepth) :
        i \in Indices(store)' /\ store'.blocks[i].hash = store.blocks[i].hash]_vars

-----------------------------------------------------------------------------
(* Fairness: announcements arrive, and a call that has a next step takes   *)
(* it.  CanProgress is when a Progress step is enabled, so the second      *)
(* conjunct is WF_vars(Progress).                                          *)
CanProgress == pc # "exited" /\ (pc = "select" => heads # <<>>)

FairSpec ==
  /\ Spec
  /\ WF_vars(Announce)
  /\ []<>~CanProgress \/ []<><<Progress>>_vars

\* Backfill ends, every walk ends, no head is lost between Subscribe and the
\* catch-up and none is left waiting: while it runs, the indexer again and
\* again has the provider's head in its store and nothing to do.  (Not always
\* as the tip: a head that is stored below the tip is not rolled back to.)
UpToDate == pc = "select" /\ heads = <<>> /\ (Have(canon) \/ NumberOf[canon] < StartBlock)
CatchesUp == []<>(pc = "exited" \/ UpToDate)
=============================================================================
