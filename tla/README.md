# Bellwether: verification project

Bellwether follows one prediction-market fixture contract on Base, keeps the
canonical blocks with their decoded events, replays them into point-in-time
features, and exports labelled rows for a walk-forward experiment. This
directory holds TLA+ models of that pipeline, the TLC configurations that check
them, and proofs checked by TLAPS. Paths are relative to the repository.

## 1. The system

    BellwetherMarketFixture.sol --logs--> RPC provider (moves: head, safe, finalized)
                                             |  HTTP: headers, logs      | WS: heads
                                             v                           v
                        base.Backfiller --> indexer.Coordinator (Run = Backfill, then RunLive)
                                             |  Append, ReconcileBounded, MarkCheckpoints
                                             v
                                          chain.Store
                                             |  Blocks, Finality
                                             v
                 trainingdata.ProjectCanonical --(one features.Engine per market)--> rows --> Parquet
                                                                                       |
                            dataset.load_labeled_parquet --> splits, evaluate_walk_forward --> three artifacts

    cmd/bellwether dials, backfills, then follows heads or exports; bellwether-demo exports a
    fixed chain to the same file; experiment.py reads the file and replaces its artifacts.
    internal/snapshot and internal/inference take the engine's snapshots.

| Component | State | Operations | What makes it correct |
| --- | --- | --- | --- |
| `internal/chain` Store | blocks, a finality level per block, the folded state | Append, Rollback, Reorg, Reconcile, ReconcileBounded, MarkFinality, MarkCheckpoints | one linked run; state = clean replay; finality is a prefix; finalized blocks stay; a rejected call changes nothing |
| `internal/indexer` Coordinator | the Store; per call: range, logs, candidate, walk; the head channel | Run, Backfill, RunLive, ingestHead, commitCandidate, refreshFinality | the store follows the provider through reorgs between any two RPC calls; a candidate is committed whole or not at all; it catches up |
| `internal/base` Backfiller | next block, request length | Backfill | requests tile the range; each log once and in order; retries end |
| `internal/base` LiveSubscriber | log and error channels, the drain | Run, finishSubscription | nothing sent is lost but to a cancellation; an error is reported; cancellation stops it |
| `internal/features` Engine | latest update, flow window, snapshot frontier | Apply, Snapshot, ReplayBatch, five formulas | a returned snapshot is never overtaken by an earlier update; overflow does not change a feature |
| `BellwetherMarketFixture.sol` | one record per market id | createMarket, setLiquidity, recordTrade, resolveMarket | one life per market, one schedule, one resolution |
| `internal/trainingdata` | engines, labels, schedules for one export | ProjectCanonical, Assemble, validate, WriteParquet | every contract history exports; rows are the reference rows; exported rows stay |
| `python/.../dataset.py` | none | load_labeled_parquet | accepts every data set the exporter writes |
| `python/.../splits.py`, `evaluation.py` | training end, folds | expanding_walk_forward_splits, evaluate_walk_forward | no fold learns from its future; no row is scored twice; no fold is skipped |
| `python/.../experiment.py` | three output files | main, _atomic_write | every artifact is whole; a run replaces them in a fixed order |
| `internal/snapshot` | one output file | WriteParquet, ReadParquet, validate | what an engine returns is written and read back as it was, or refused for a named reason |
| `internal/inference` | the loaded model | SnapshotVector, Load, Predict | every snapshot has a vector; only a lag beyond 2^53 is refused |
| `ForecastCommitReveal.sol` | one commitment per forecaster and market | commitForecast, revealForecast | a reveal proves a commitment made before the resolution time; a copied commitment is worthless |
| `internal/market` decoder, ABI; `indexer/convert.go` | none | Decode, ConvertEvent, DecodeEvent, convertBlock | a reply's logs become the contract's events, value for value and in its order, or the reply is refused whole |
| `cmd/bellwether` | connections, the output file, the caller's context | runWithDial | no error reads as success; every return releases what it holds; a signal ends it |
| `cmd/bellwether-demo` | the output file | run | as the exporter |
| `internal/config` | none | Load, validate | what it accepts, no constructor refuses |
| scripts, `models.py`, `metrics.py`, `runs.py` | none | | not modelled |

What makes it hard:

- The provider moves between any two RPC calls: a range of logs and the headers
  of the range, the walk and the branch, the safe and the finalized header are
  each read at different moments (`coordinator.go:138-198, 278-378, 413-472`).
- Subscription and catch-up overlap, so a head may come twice or late (`:200-252`).
- A call may fail at any RPC and be made again with the same store (`:23-30`),
  or the process may restart with an empty one.
- Reorgs, finality and the folded state are updated in different functions of
  the store and have to agree after any sequence of them.
- uint64 arithmetic at the end of its range, adaptive request sizes and refusals.
- Bounded channels that fill, end and close in any order while they are drained.
- The exporter's checks reject a whole data set if one market breaks a rule, so
  they must not be stricter than the contract, and the Python loader repeats
  them in another language.
- Several programs write the same files while steps fail, processes are killed
  and power is lost; atomicity rests on the order of write, sync and rename.
- A cancellation races with calls that may succeed or fail for their own reasons
  (`main.go:103-156`), and only the context tells the cases apart.
- A reply may repeat logs, list them in any order or belong to another branch.
- Time order and log order are different orders: several rows share a
  timestamp, labels come late, and the frontier of an engine is a maximum of each.

## 2. Modules

| Module | Code | Role |
| --- | --- | --- |
| `Chain` | `internal/chain/*.go` | pure operators on a store record, `[store, err]` results |
| `ChainStore` | the same | state machine, one action per exported mutator; properties |
| `CanonicalLog` | what the store promises | abstract specification: a linked log with a growing finalized prefix |
| `MCChainStore` | | blocks of two forks for TLC |
| `ChainProofs`, `ChainStoreProofs` | | lemmas about the operators; theorems about the machine |
| `Coordinator`, `CoordinatorProofs` | `internal/indexer/coordinator.go`, `convert.go` | extends `Chain`; the provider and the coordinator; theorems |
| `CoordinatorHeads` | | the same with a history of ingested heads |
| `MCCoordinator` | | a provider with three forks |
| `RangeBackfill`, `MCRangeBackfill` | `internal/base/backfill.go` | one Backfill call; instance |
| `LiveSubscriber` | `internal/base/live.go` | Run against its subscription |
| `Selections` | loops that collect what meets a condition | the elements of a sequence at a set of indices, in order |
| `Features`, `FeaturesProofs` | `internal/features/features.go`, `engine.go` | formulas and engine as pure operators; lemmas about them, sums and selections |
| `FeatureEngine`, `MCFeatureEngine`, `FeatureEngineProofs` | `engine.go` | one engine and its caller; instance; theorems, those about `SnapshotConsumers` too |
| `MarketFixture` | `contracts/src/BellwetherMarketFixture.sol` | the contract's calls in blocks |
| `ForecastCommitReveal` | `contracts/src/ForecastCommitReveal.sol` | commits and reveals in blocks; stands alone |
| `TrainingProjection` | `internal/trainingdata/project.go`, `rows.go` | ProjectCanonical as an operator over the events, on `Features` |
| `LabeledDataset` | `python/.../dataset.py` | the loader's checks as an operator |
| `TrainingParquet` | `internal/trainingdata/parquet.go` | the columns of the data set and reading them back, on `TrainingProjection` |
| `EventConversion` | `internal/market/decoder.go`, `abi.go`, `internal/indexer/convert.go` | decoding and encoding as operators: raw log, typed event, stored event |
| `FixtureDataset`, `MCFixtureDataset`, `DatasetProofs` | `cmd/bellwether/main.go` | composition: contract, provider's replies, conversion, export, both readers; instance; theorems, those about `MarketFixture` too |
| `SnapshotConsumers` | `internal/snapshot`, `internal/inference/model.go` | what an engine returns, turned into a vector and into a file; on `FeatureEngine` |
| `Programs`, `MCPrograms`, `ProgramsProofs` | `cmd/bellwether`, `cmd/bellwether-demo`, `config.go`, `experiment.py`, `trainingdata/parquet.go` | processes, files, connections, signals, kills and power loss; theorems |
| `WalkForward`, `MCWalkForward` | `splits.py`, `evaluation.py` | one step per fold, on `LabeledDataset` |
| `EdgesProofs` | | theorems about `RangeBackfill`, `LiveSubscriber`, `WalkForward` and `ForecastCommitReveal` |

### Correspondence with the code

**Chain.** A store is `[blocks, finality, state]`. The map from hash to finality
is kept as a sequence parallel to the blocks. SHA-256 over length-prefixed input
is taken to be collision free, so a digest is the sequence of what was hashed;
`StateIsReplay` then says exactly what equality of digests says in the code.
A header hash fixes height and parent but not the events the indexer attached,
so the model has blocks that differ only in events. Heights do not wrap: a block
number is a natural, and the code's one subtraction (`chain.go:123-126`) is guarded.
`ErrUnknownAncestor` and `ErrResyncRequired` are told apart although
`errors.Is` relates them (`IsResync`).

**Coordinator.** An action is one RPC call with the local work that follows it,
because nothing else can observe the coordinator between two calls. `pc` names
the call it makes next, `job` holds what is staged. `Backfill` is
`BackfillLatest`, then per range `BackfillLogs` (once per sub-request, since the
Backfiller may split it) and one `BackfillHeader` per block; the last of them
commits. `RunLive` is `Subscribe`, `CatchUp`, then `TakeHead` per head; a head is
ingested by `WalkParent` steps and one `FetchBranch`. Both end in `RefreshSafe`
and `RefreshFinal`. `FetchBranch` reads header and logs by block hash, which
commits to them, so that the whole branch is one step; a failure in the middle of
it is `Fail`, and nothing was committed. `Fail` may follow any call: an RPC
error, cancellation, and the end of the subscription have the same effect. The
provider (`NewHead`, `NewSafe`, `NewFinal`, `Announce`) is external: it never
drops its finalized block and keeps its safe block canonical. `backfilled` is
history: whether a Backfill has committed blocks to the store, because only such
a store may lack events (finding 1). `LogImplemented` maps the store to
`CanonicalLog` (`log` is the stored blocks, `final` the index of the newest
finalized one); a `Restart` starts another log.

`CommitsAreWhole` is about one call of `commitCandidate`: the step at which a
call of `Run` or `RunLive` fails changes nothing, but what the call committed before
stays, as the comment at `coordinator.go:21-26` says. `Init` is what
`NewCoordinator` returns; the checks that come before it are in `Programs`
(`NewCoordinatorAccepts`) and, for the constants, in `CoordinatorAssumption`. A logged
block is kept by its hash, so that `BackfillHeader` may find logs of another block
at the header's height (`Belong`), as `convertBlock` may.

**RangeBackfill.** `Init` is where `Backfill` starts; what `NewBackfiller` refuses
is excluded by `BackfillAssumption`. `Request` computes the end of the range, `Answered`/`Refused`
are the provider's reply, `Emit` hands one log to the caller, `Advance` moves on.
Sums and differences pass through `Uint`, arithmetic modulo MaxUint + 1.

**LiveSubscriber.** Each case of a `select` is an action, so that any ready case
may be taken, also with the context done. Every look at `ctx.Err()` is a point of its
own (`loop`, `received`, `emitted`, `drain`): found live it goes on (`Goes`), found done
it returns (`Cancelled`), so the context may be cancelled between any two of them, and
a log that was received and not yet emitted (`current`) is then dropped. The subscription (external) sends while the buffer has room,
then ends with an error, a nil error, or closed channels.

**Features, FeatureEngine.** A float64 is a natural number; one above `FloatMax`
is +Inf, and -1 stands for negative or non-finite inputs. A quotient is the pair
of its ideal numerator and denominator: rounding is abstracted, overflow is not,
so scaling both operands (`features.go:45-54, 77-93`) leaves the pair as it is
while dividing infinities does not. `DoApply` and `DoSnapshot` are the accepted
calls; a rejected one returns before any assignment. `applied` and `kept` are
history.

**MarketFixture.** The guards of a call are the `if ... revert` lines in order; a
reverted call is no step. `Mine` is the next block, later by any amount of time.

**ForecastCommitReveal.** The same conventions. The hash is the tuple of what is
hashed (keccak is taken to be collision free), zero is `<<>>`, and a forecaster may
commit every hash anyone can compute, another's included.

**TrainingProjection, LabeledDataset.** The loop of `ProjectCanonical` is a
recursive function over the events; maps are functions on the markets seen. int64 conversion of
the two uint64 times is modelled (`Int64`), with a small word.
`FixtureDataset` feeds it what the indexer stored from any start block.

**EventConversion.** A data word is a natural number up to `MaxUint256`, an address
topic the pair of its padding and the address; `ConvertEvent` writes a uint256 as
a decimal string (`numeral`, its digits) and `DecodeEvent` accepts a string only if the
number it means is written so. The stable sort puts each log at the place that the number
of logs before it gives (`Precedes`, `ordered`). Which of several faults of one reply is named first is left out.
`FixtureDataset` makes the provider's replies (external) from the contract's
events: `Genuine` ones in other orders, with gaps in the log indexes, and `Bad`
ones with one fault each.

**TrainingParquet, SnapshotConsumers.** A row's columns are the row with its times in
nanoseconds, which wrap like an int64 (`UnixNano`); reading a value outside the
three finality levels fails. The exporter's `validate` and the loader's
`validate_values` are translated check by check, the ones no exported row can
fail included, because the question is whether they agree. `SnapshotConsumers` checks the rows an engine can
return: the snapshot it kept and any one it would return next.

**Programs.** `proc` numbers the processes; several of one program may run at once, as
nothing in the code prevents it. A process is where it stands, its temporary file, its
connections, what a return will release (its deferred calls, or Python's `finally`) and
its status. `runWithDial` is, from top to bottom, `Load`, `DialHTTP`, `AdoptHTTP` or
`RejectHTTP`, `Construct`, for a live run `DialWebSocket`, `AdoptWebSocket` or
`RejectWebSocket` and `Coordinate`, then `Backfilled`, and `FollowCancelled`/`FollowFails`
or `Project`, with the failures beside them. A connection is open from the dial on, and
deferred only once `NewEthClient` has taken it; `Exit` is a return, which releases what
was deferred and nothing else, so that the early return between the two has to close
the connection itself (`Reject`). `Kill` and `PowerLoss` release nothing: the temporary
file stays. `beside` is history: the experiments that ran when this one started.
`CreateTemp`, `Write`, `Sync`, `Replace` and `WriteFails` are the steps that
`WriteParquet` (Go) and `_atomic_write` (Python) share. A file remembers the
process that wrote it, whether it holds all bytes, and whether they are on the
disk; a path remembers what its last rename replaced, so that a power loss
(external) may undo that rename, and may tear whatever was not synchronized.
What goes on inside `Backfill` and `RunLive` is `Coordinator`'s; here they return,
fail, or are cancelled.

**WalkForward.** `EvaluationInit` loads any data set the loader accepts; `EvaluateFold`,
`FoldRaises` and `Finish` are one turn, a raise in one, and the end of the loop.
Rows are numbered from 1, so `[a, b)` is `a+1..b`. The models,
their fits and scores are left out.

## 3. The runs

| Run | Question | Bounds |
| --- | --- | --- |
| `store` | every mutator in any order: `TypeOK`, `GapFree`, `FinalityIsPrefix`, `StateIsReplay` (equal to a clean replay), `ReconcileSound` (accepted candidates are stored, what they agree with stays, idempotent), `RejectedLeavesStore` | 8 blocks over heights 0-3 on two forks, one forking again, one block with and without its event; candidates up to 3 blocks; depths 0 and 1 |
| `store_ingest` | without a direct Rollback: `FinalizedKept`, and the store implements `CanonicalLog` (`LogRefined`) | the same, candidates up to 2 |
| `coordinator` | Run and RunLive against a moving provider, with failures, repeated calls and restarts: `StoreIsCanonicalRun`, `FinalizedAreTheProviders`, `EventsBelongToBlock` (and a store filled by live heads has every event), `CheckpointsAccepted`, `CommitsAreWhole` (every candidate up to its last block, or nothing), `LogImplemented` (every commit is a step of `CanonicalLog`), `ReorgBounded`, `CatchesUp` (the provider's head is again and again in the store) | 6 blocks, one fork below the start block; retained depth 1; ranges of 2; a queue of 1; 3 provider moves |
| `backfill_lost_event` | violated: see Findings | 2 moves |
| `duplicate_heads` | violated: see Findings | 3 moves |
| `range_backfill` | `RequestsTile`, `EmittedInOrder`, `DoneIsComplete`, `Terminates` | a 4-bit word; a range that ends at the largest block number; sizes 2 to 9; logs that share blocks and transactions |
| `live_logs` | `NothingLost`, `CancelStops`, `ErrorReported`, `Returns` | a buffer of 2, 4 logs; every way to end; a cancellation at every point |
| `feature_engine` | `PointInTime`, `FlowIsExact`, `ConsumersAccept` (the snapshot file gives back what was written, and refuses only repeated positions and times without nanoseconds; a model refuses only long lags) | 4 positions, 3 times (the last beyond the nanosecond range), a window of 2, 3 updates; amounts whose sums overflow; invalid updates; exact integers up to 0, so that a lag of 1 is too long |
| `dataset` | every contract history, its replies converted and exported from every start block: `MarketLifecycle`, `RepliesConverted`, `ExportLoads`, `ExportIsReference`, `RowsAreStable` | 2 markets, 3 timestamps, 5 events, a window of 2; a resolution time that blocks reach exactly and late, and one that wraps in int64; every rotation of a block's logs forwards and backwards, 12 kinds of falsified reply; a uint64 up to 9, a uint256 up to 10 (two digits), an int64 from -5 to 4 |
| `walk_forward` | `NoLeakage` (nor does the evaluator ever find a market on both sides), `FoldsAreAll` | 8 rows with every pattern of ties, 18 market sequences, labels 1 or 2 late; splits with 3 or 4 initial rows, an embargo of 1, tests and steps of 1 or 2 |
| `forecast_registry` | `RevealProvesForesight` | 2 forecasters, 1 market, 3 timestamps, probabilities on both sides of the limit, 4 commits and reveals |
| `programs` | the executable, the demo and the experiment on shared files: `WholeFiles`, `ArtifactsInOrder`, `NothingLeftBehind`, `ExitTellsAll`, and a signal ends the executable (`CancelEnds`) | 3 processes one after another or at once, at most 1 of the executable, 1 demo and 2 experiments, of which any may be killed; one power loss; a sound configuration, one whose range is upside down and one without a window (`StatusTellsAll` is proved for every configuration) |

Why the bounds are enough: in the store and the coordinator the interesting
structure is a fork relative to the tip, the finalized block, the start block and
the retained depth; three heights with a depth of 1 hold a fork on each side of
each of them. In the backfill four bits behave as 64 do: the range ends at the
largest number, and `from + size` passes it. The engine needs a snapshot ahead of
the last one in position but behind in time, and a window shorter than the
updates. The contract's events of one market interleave with another's and
outgrow the window. In the walk-forward run eight rows give folds that touch,
overlap in markets and end at the last row. Three processes are two writers of one
file and its reader, or a writer and two experiments, one after the other or overlapping,
on one output directory. A signal concerns one process, beside others that
replace its file. `SYMMETRY` is used only in `dataset`
(two markets that nothing orders, and invariants only). Every named bound
(`MaxProviderSteps`, `MaxUpdates`, `MaxEvents`, `MaxCommits`, `MaxLogs`, `MaxRuns`, `MaxOf`) is a guard of the step
it bounds. `CHECK_DEADLOCK FALSE` appears where a behaviour really ends: a
bounded provider, a finished call, the last event, the last process.

### Fairness

- `coordinator` assumes, for `CatchesUp`, that announcements are delivered and that a call
  with a next step takes one (`FairSpec`): RPC calls return or fail
  (every call has the caller's context) and `RunLive` is a loop over a `select`.
  Failures are not assumed to be rare: `CatchesUp` allows the call to have exited.
- `range_backfill`: weak fairness of the loop: the provider answers, refuses or
  the context ends.
- `live_logs`: weak fairness of `Run`'s own steps: the goroutine is scheduled and
  `emit` returns. Nothing is assumed of the subscription, so `Returns` is
  conditional on its end or on the cancellation.
- `programs`: weak fairness of what each process of `cmd/bellwether` does by itself. Its RPC calls
  and waits have the signal's context, and file operations return; `Backfilled` or
  `RPCFails` is how such a call ends. `RunLive` waiting for heads is not assumed to
  end, so `CancelEnds` rests on the cancellation alone.

### Faulty variants

Every property of a passing run is broken by a variant of one definition, kept
next to the definition it would replace: a dropped guard, an off-by-one, a
missing reset, data read by number and not by hash.

| Property | Variant |
| --- | --- |
| `TypeOK`, `GapFree`, `FinalityIsPrefix` (store) | `AppendWithoutFinality`, `AppendAnyParent`, `RaiseOneBlock` |
| `StateIsReplay` | `RollbackWithoutRebuild` |
| `ReconcileSound`, `RejectedLeavesStore` | `ReconcileFromOldestShared`, `MarkCheckpointsInPlace` |
| `FinalizedKept`, `LogRefined` | `BelowFinalizedOffByOne`, `ReorgUnchecked` |
| `StoreIsCanonicalRun`, `FinalizedAreTheProviders` | `WalkEndsOneEarly`, `CheckpointOnlyStored` |
| `EventsBelongToBlock` | `FetchBranchByNumber`, `BelongByNumber` |
| `CheckpointsAccepted`, `CommitsAreWhole` | `CheckpointAlways`, `commitCandidateUnlinked` |
| `LogImplemented`, `ReorgBounded`, `CatchesUp` | `BelowFinalizedOffByOne`, `ReorgUnchecked`, `CatchUpSkipped` |
| `RequestsTile`, `EmittedInOrder` | `inclusiveEndWrapping`, `AdvanceOverlapping` |
| `DoneIsComplete`, `Terminates` | `AdvanceByGrownSize`, `RefusedForever` |
| `PointInTime`, `FlowIsExact`, `ConsumersAccept` | `ObserveLatestOnly`, `ImbalanceOverflowing`, `toParquetRowsAtUpdate` |
| `MarketLifecycle`, `RepliesConverted` | `OpenUntilResolved`, `unpackDataPrefix` |
| `ExportLoads` | `ValidMarketStrict`, `NonzeroFeatures` |
| `ExportIsReference`, `RowsAreStable` | `labelAtSchedule`, `ResolveMarketTwice` |
| `NoLeakage`, `FoldsAreAll` | `EvaluateFoldUnchecked`, `FoldFitsStrictly` |
| `RevealProvesForesight` | `computeCommitmentForAnyone` |
| `NothingLost`, `CancelStops`, `Returns` | `DrainSkipping`, `DrainUnchecked`, `LastErrorsAwaited` |
| `ErrorReported` | `TakeErrorForgetting`, `LastErrorsIgnored` |
| `WholeFiles`, `ArtifactsInOrder` | `WriteUnsynced`, `WriteFailsOverSkipping` |
| `NothingLeftBehind` | `RejectWebSocketUnclosed`, `AdoptWebSocketUndeferred` |
| `ExitTellsAll` | `RPCFailsAnyway`, `validateWithoutWindow` |
| `CancelEnds` | `FollowCancelledRequeued` |

## 4. What is proved

Every invariant and action property of a passing run is a theorem: TLAPS proves the
following for every value of the constants that satisfies the named assumptions
(`BlockAssumption`, `StoreAssumption`, `CoordinatorAssumption`, `BackfillAssumption`,
`LiveAssumption`, `FeatureAssumption`, `EngineAssumption`, `ConsumersAssumption`,
`ProgramsAssumption`, `WalkForwardAssumption`, `FixtureAssumption`, `ForecastAssumption`,
`ProjectionAssumption`, `ConversionAssumption`, `ColumnsAssumption`, `LoaderAssumption`, `DatasetAssumption`). Each inductive
invariant was checked by TLC on the instance of its module's run before it was proved.

**The store** (`ChainStoreProofs`, on the lemmas of `ChainProofs`).
`TypeCorrect`, `AlwaysGapFree`, `AlwaysFinalityPrefix`, `AlwaysReplay`,
`AlwaysReconcilesSoundly` and `RejectionsLeaveStore` hold of `Spec`, direct rollbacks
included; `IngestKeepsFinalized` and `ImplementsLog` of `IngestSpec`. None of the
invariants is inductive alone: that a reorg replaces exactly what lies above the
ancestor needs consecutive heights (`GapFree`), that the state of a cut store is the
fold of what is left needs `StateIsReplay` before it, and that no finalized block is
cut needs `FinalityIsPrefix`, since `checkpointIndex` looks only at the newest
finalized block. `WellFormed` is their conjunction with the types. Each operator has a
lemma that it preserves `WellFormed` and keeps finalized blocks; the reorg path is
reduced to one shape (`Rewrites`: everything above an index that is not below the
newest finalized one is replaced; `RewriteShape` says what that leaves, `Rewritten`),
so one lemma serves reorg, reconcile, bounded reconcile and the coordinator's commits.
`ReconcileSound` follows from `WellFormed` with two facts about linked sequences:
the height finds a block by its hash (`StoredAt`), and two sequences that share a
block share its ancestors as far as both reach back (`CommonPast`, by a least
counterexample). So the newest shared block is the top of all that is shared: a
candidate is stored below it already and put above it, and nothing it agrees with
moves (`ReconcileAccepts`, `ReconcileLeaves`).

**The coordinator** (`CoordinatorProofs`), for any tree of blocks, any provider and
configuration: `StoreIsAlwaysARun`, `FinalizedStayCanonical`, `EventsStayWithTheirBlock`,
`CheckpointsAreMarked`, `EveryCommitIsWhole`, `ReorgsAreBounded`, `StoreImplementsLog`.
First the tree: `Branch` is a recursive function, and that it is defined everywhere
and closed under parents is proved (`BranchRecursive`) by exhibiting the function of
ancestors that satisfies its equation. Then a commit, the loop of `Append` and
`Reconcile` calls over what was fetched: it keeps `WellFormed`, drops nothing
finalized and nothing below the retained depth, and is one step of the abstract log,
because it leaves the store as it was, or appends to it or replaces one suffix within
reach, and then ends with the candidate's last block (`CommitShape`): a linked candidate
never fails after its first append (`Position`), which is `EveryCommitIsWhole`. The invariant `IInv` has four
parts. `Ours` joins the store to the provider: blocks of the tree, with their own
events, from `StartBlock` on, and whatever is marked finalized is an ancestor of the
provider's finalized block. `ProviderInv` is what makes that stable: the finalized
block never leaves the canonical branch. `JobInv` says what the values fetched by
earlier calls still mean when they are used after the provider has moved: a backfill
has staged one block for each height (`Staged`), a walk into an empty store does not
pass `StartBlock` (`Walking`), and a safe block read before the finalized one is known.
`CheckpointsAccepted` is part of it, since a checkpoint that validation let pass and
the store refused would end the run in a state the other parts do not describe. The
assumption asks that the blocks the provider can serve, with and without their events,
are in `Block`; in the code a block is whatever was fetched.

**The backfill** (`EdgesProofs`). `BackfillTypeCorrect`,
`BackfillTilesRange`, `BackfillEmitsInOrder` and `BackfillIsComplete`, for any
integer width and any logs. The invariant adds what links the loop's variables to its
history: the answered requests end right before `next` (or at `to` while
emitting), the emitted logs are the logs of the answered requests without the
pending ones, in order, and all lie before the pending ones. `EndBounds` and
`GrowBounds` are the two places where the arithmetic could wrap.

**The live subscriber** (`EdgesProofs`), for any buffer and any number of
logs: `EveryLogIsAccountedFor`, `CancellationStops`, `NoErrorIsMissed`. `Line` says that the
emitted logs, the one in Run's hands and the buffered ones are together all that was
sent, in order; `Ending` ties the number of logs `finishSubscription` still expects to
what is in the buffer, which only an ended subscription fixes; `Report` says where the
subscription's error is, in the channel or already received, so that a clean end implies
that no log and no error is left; `Lateness` that only an emission already past its
check can begin after the cancellation.

**The programs** (`ProgramsProofs`), for any configuration files and number of processes:
`PublishedFilesAreWhole`, `ArtifactsStayInOrder`, `ReturnsLeaveNothing`, `StatusTellsAll`.
`WholeFiles` alone is not inductive, because a power loss brings back what a rename
replaced: the invariant says that of both files of a path (`Kept`). A temporary file is
the process's own and is whole and synchronized where it is renamed (`FilesOk`). An
artifact is of the latest experiment that has written one, unless two of those
overlapped (`Authored`); that two experiments of which the earlier still runs do overlap
is part of the invariant. What is held at each point is deferred there, except a
connection that has not been adopted (`ReleaseOk`), so a return leaves nothing if the
one at that point closes it. `PlaceOk` says which points a program reaches with which
configuration, and `Told` what each status implies.

**The engine** (`FeatureEngineProofs`). `EngineIsPointInTime`, for any window,
updates, points and history of calls. The invariant says that the engine is the
replay of the accepted updates (the trimmed window is the last `FlowWindow` of
their trades: `LastOfAppend`), that they are ordered in position and time, and
that the frontier is not behind the kept snapshot in either; the last part is
what the variant that remembers only the latest snapshot breaks.
`FlowStaysExact` joins it with the formulas: whichever branch they take, with sums that
are floats or with scaled operands, the quotient is that of the exact sums of the window's
trades, which are positive unless there is no trade (`VolumesOf`, `ExactQuotients`). From
the same facts `ConsumersAcceptSnapshots`: every feature is in the range its consumer
checks, so that a model can refuse only the lag and the file only two snapshots at one
position or a time that has no nanoseconds. The assumptions say that amounts and reserves
are integers, that a count of seconds is a float64, and that a finality is unsigned.

**The data set** (`DatasetProofs`, on `FeaturesProofs`), for any callers, markets, block
times, windows and word sizes. `MarketsLiveOnce`: `MarketInv` ties each event to the
market's present state, so that a resolved market's log is closed and an open one still
carries its schedule. `LogInv` adds what the readers of the log rely on: events are in
chain order, their words fit their types, and the next log index of a block is free. Both
are preserved by every call, and the other three theorems follow from their conjunction.

- `RepliesStayConverted`. A decoded value is found again behind the decimal string
  (`NumeralTells`: different numbers have different digits), so an event survives encoding,
  decoding, storing and reading back (`EventReadsBack`), whatever its kind. Any
  rearrangement of a block's logs is put in order by the sort (`PutInOrder`), since the
  places of a log among distinct ones are distinct; a rotation of the list, forwards or
  backwards, is such a rearrangement (`GenuineShuffles`). Each falsified log fails one
  check, wherever the sort puts it (`BadLogFails`, `BadRefused`).
- `ExportsStayReference`. The loop over the events is replaced by what its state is after
  i of them (`StateAt`): an engine per market seen so far that holds that market's last
  update and the window of its trades, a label per resolved one, and a snapshot per change.
  `ReplayIsStateAt` proves it, one event at a time; that no call of the engine is
  refused, no schedule changes and no label conflicts needs that each market's part of
  the log is one life (`ValidLog`, `EventsValid`). The rows are then those at the changes
  of resolved markets (`ExportIsRows`), they pass the exporter's checks (`RowsValidate`),
  and they are what `ReferenceRows` reads off the events without engines.
- `ExportedRowsStay`. A row of a prefix is a row of the whole (`RowStays`): the features
  use only earlier events, the label only the one resolution a market can have.
- `ExportsStayLoadable`. No time in a written row wraps in nanoseconds, and what the
  exporter checks implies what the loader checks, although one groups rows by market
  and the other goes through them in order.

`DatasetAssumption` says that a nil differs from every value, that words are wide enough for
what callers pass, that a float64 holds any uint256, and that a block's time has
nanoseconds (until 2262); a resolution time has none of these limits but uint64, and the
projection converts it as the code does.

**Evaluation and forecasts** (`EdgesProofs`). `NoFoldLearnsFromTheFuture` and
`FoldsAreDisjointAndComplete`, for any data set the loader accepts and any split: the
invariant (`Folded`, `Separate`) adds that every window tested so far lies below the
next one. The loader compares neighbouring rows only; that times ascend over any
distance (`TimesGoUp`) is again a least counterexample, and with one label time per
market it puts no market on both sides (`MarketsApart`). The assumption only says that
times and configuration fields are integers; which are valid is what the code checks.
`RevealsProveForesight`: `RegistryInv` says that the
commitment an event was about is still as it was, since no call overwrites one.

The provers cannot instantiate an induction theorem over data. Where a recursive function
or a fold has to be known for every input (numerals, sums, the replay, linked
sequences), the proof takes the least index at which the claim fails (`LeastNatural`, from
the library's well-founded minimum) and refutes it with the equation of the step; that
a recursive function satisfies its equation is proved by exhibiting one that does
(`NumeralsExist`, `SumsExist`, `BranchRecursive`, `ReplayIsStateAt`). For that the data are
given in a form with an equation: a number's digits instead of a conversion to text, a
sort as ranks, a filter as a set of indices (`Selections`).

Only model-checked, and why:

- liveness (`Terminates`, `CatchesUp`, `Returns`, `CancelEnds`) is outside the prover;
- the two violated properties of section 5 are refuted, not proved.

## 5. Findings

1. **A backfill can lose events** (`backfill_lost_event`,
   `coordinator.go:166`). `buildBackfillRange` reads the logs of a range by
   number and then its headers. If the chain reorgs between the two to a block
   with fixture events, the header is stored without them: logs of a foreign
   block are detected, missing ones cannot be. Later calls skip the stored
   block. `README.md:84` promises a state "byte-for-byte identical to a clean
   replay of the final canonical chain".
2. **A duplicate head is not always harmless** (`duplicate_heads`,
   `coordinator.go:201-202`). A buffered head that was ingested and then
   orphaned is fetched again by hash, and `ReconcileBounded` takes a caught-up
   store back to the orphaned branch until the next head arrives.

Observations without a run:

- A head already stored below the tip only refreshes finality; the store is not
  rolled back to it. `CatchesUp` therefore promises that the provider's head is
  in the store, not that it is the tip.
- `experiment.py:36` says "atomically publish its three artifacts"; lines 77-79
  replace three files one after another. What a reader can rely on is
  `ArtifactsInOrder`: each file is whole, and unless power was lost or runs
  overlapped, no artifact is newer than the ones replaced before it.
- Two experiments may run on one output directory at once. Neither notices, and the
  directory may end up with the metrics of one and the model of the other.
- An export that a signal ends exits with 0, like one that finished
  (`main.go:74-76, 103-106, 118`); whoever sends the signal has to know.
- None of the writers synchronizes the directory: after a power loss a data set
  whose export was reported as done may be the previous one, though a whole one.
- The market-overlap check of `evaluation.py:103-105` cannot trigger for a data
  set the loader accepts (the first part of `NoLeakage`); it is a second line of defence.
- A snapshot file refuses two snapshots at one position, which the engine allows
  (`ConsumersAccept`); a caller that writes snapshots must not take two at one point.

## 6. Not modelled

- Cryptographic and numeric detail: hash bytes (the ids of `id.go` and `runs.py`
  included), keccak, float rounding, LightGBM's header and trees, scores, metrics, SVG.
- The Parquet format, its schema and null checks; TOML, URL and flag syntax; the
  wording of errors, and which of several faults is reported.
- `ethclient.go` beyond dialling and closing: it delegates in one line.
- A provider that leaves out a log of a block it answers for: nothing the indexer
  reads would tell, so nothing is claimed about it.
- The temporary file of a killed process stays on the disk, in the code as in the
  model's `Kill`, and `NothingLeftBehind` does not speak of it; no later run looks at it.
- `NewEthClient` refuses only a nil backend, which `ethclient.DialContext` does not
  return without an error; `RejectHTTP` and `RejectWebSocket` are for any dial function.
- The error paths of `ConvertEvent` (`convert.go:77-88, 100-107, 119, 123-125`): nil or
  negative amounts and event types that `Decode` never returns.
- Who the operator's signal is from, and flags that are refused before `Load`.
- Numeric libraries, scripts and deployment: no state of their own.

## 7. Plan

The order of work was: the store and its proofs (everything replays from it), the
coordinator (where the concurrency is), the backfiller, then the data path
(engine, contract, conversion, export, loader, evaluation, snapshot consumers),
the live subscriber, the programs around them, and proofs of all their safety properties.
Next:

1. A refinement of the composition: the exporter's fold over the store's events as the
   coordinator keeps it, where the runs now use the contract's events directly.
2. The rows that a fold trains on, taken from exported data sets instead of
   every data set the loader accepts, if a property needs that.
