------------------------- MODULE TrainingProjection -------------------------
(***************************************************************************)
(* internal/trainingdata: ProjectCanonical replays the canonical events    *)
(* through one feature engine per market, keeps the snapshots of resolved  *)
(* markets, and Assemble attaches the labels and validates the rows.  The  *)
(* result is [err, rows]; which row an error names is left out.            *)
(***************************************************************************)
EXTENDS Features

CONSTANTS
  MaxInt64,  \* a uint64 timestamp is at most 2 * MaxInt64 + 1
  NanoLimit  \* seconds whose nanoseconds do not fit an int64

ASSUME ProjectionAssumption == MaxInt64 \in Nat /\ NanoLimit \in Nat /\ NanoLimit <= MaxInt64

Int64(t) == IF t > MaxInt64 THEN t - 2 * (MaxInt64 + 1) ELSE t
unixNanoRepresentable(t) == t < NanoLimit /\ t > -NanoLimit

-----------------------------------------------------------------------------
(* ProjectCanonical's loop over blocks and events, with engines, labels    *)
(* and schedules as functions on the markets seen so far.                  *)

Nothing == [m \in {} |-> None]
With(f, m, v) == [x \in DOMAIN f \cup {m} |-> IF x = m THEN v ELSE f[x]]

StartState == [err |-> "ok", engines |-> Nothing, labels |-> Nothing, schedules |-> Nothing, snapshots |-> <<>>]

UpdateOf(e, finality) ==
  [market |-> e.market, block |-> e.block, log |-> e.log, time |-> Int64(e.time), yes |-> e.yes, no |-> e.no,
   trade |-> e.trade, resolution |-> Int64(e.resolution), finality |-> finality]

EngineOf(st, market, flowWindow) ==
  IF market \in DOMAIN st.engines THEN st.engines[market] ELSE NewEngine(market, flowWindow)

snapshotOf(st, u, engine) ==
  IF AllowsSnapshot(engine, u)
  THEN [st EXCEPT !.engines = With(@, u.market, observe(engine, u)),
                  !.snapshots = Append(@, Snapshot(engine, u)),
                  !.schedules = With(@, u.market, u.resolution)]
  ELSE [st EXCEPT !.err = "apply"]

applyUpdate(st, u, engine) ==
  IF AcceptsUpdate(engine, u) THEN snapshotOf(st, u, Apply(engine, u)) ELSE [st EXCEPT !.err = "apply"]

applyAndSnapshot(st, e, flowWindow, finality) ==
  applyUpdate(st, UpdateOf(e, finality), EngineOf(st, e.market, flowWindow))

\* Faulty variant of label: the schedule is taken for the time of the outcome.
labelAtSchedule(st, e) ==
  [st EXCEPT !.labels = With(@, e.market,
     [scheduled |-> st.schedules[e.market], available |-> st.schedules[e.market], outcome |-> e.outcome])]

label(st, e) ==
  [st EXCEPT !.labels = With(@, e.market,
     [scheduled |-> st.schedules[e.market], available |-> Int64(e.time), outcome |-> e.outcome])]

ReplayEvent(st, e, flowWindow, finality) ==
  IF st.err # "ok" THEN st
  ELSE IF e.kind # "MarketResolved" THEN applyAndSnapshot(st, e, flowWindow, finality)
  ELSE IF e.market \in DOMAIN st.schedules THEN label(st, e)
  ELSE st

-----------------------------------------------------------------------------
(* Assemble and validate                                                   *)

OrderedRow(row, previous) == After(row, previous) /\ row.time >= previous.time

ValidRow(row) ==
  /\ row.market # ""
  /\ row.finality <= FinalityFinalized
  /\ \A t \in {row.time, row.resolution, row.available} : unixNanoRepresentable(t)
  /\ row.probability # NaN /\ row.flow # NaN /\ Finite(row.depth) /\ Finite(row.seconds)
  /\ row.probability[1] >= 0 /\ row.probability[1] <= row.probability[2]
  /\ row.available >= row.resolution
  /\ row.available > row.time
  /\ row.resolution >= row.time

\* Rows of one market agree on the market's schedule and label.
SameLabel(row, other) ==
  row.market = other.market =>
    row.resolution = other.resolution /\ row.available = other.available /\ row.outcome = other.outcome

validate(rows) ==
  /\ rows # <<>>
  /\ \A i \in 1..Len(rows) : ValidRow(rows[i])
  /\ \A i \in 2..Len(rows) : OrderedRow(rows[i], rows[i-1])
  /\ \A i, j \in 1..Len(rows) : SameLabel(rows[i], rows[j])

LabelledRow(s, l) ==
  [market |-> s.market, block |-> s.block, log |-> s.log, time |-> s.time, resolution |-> s.resolution,
   finality |-> s.finality, probability |-> s.probability, flow |-> s.flow, depth |-> s.depth,
   seconds |-> s.seconds, lag |-> s.lag, available |-> l.available, outcome |-> l.outcome]

\* No empty market id (every snapshot's is that of a label), and a label for each
Matched(snapshots, labels) ==
  /\ "" \notin DOMAIN labels
  /\ \A i \in 1..Len(snapshots) :
       /\ snapshots[i].market \in DOMAIN labels
       /\ snapshots[i].resolution = labels[snapshots[i].market].scheduled
  /\ DOMAIN labels \subseteq {snapshots[i].market : i \in 1..Len(snapshots)}

Validated(rows) == IF validate(rows) THEN [err |-> "ok", rows |-> rows] ELSE [err |-> "invalid", rows |-> <<>>]

Assemble(snapshots, labels) ==
  IF snapshots = <<>> THEN [err |-> "empty", rows |-> <<>>]
  ELSE IF ~Matched(snapshots, labels) THEN [err |-> "labels", rows |-> <<>>]
  ELSE Validated([i \in 1..Len(snapshots) |-> LabelledRow(snapshots[i], labels[snapshots[i].market])])

\* The state after all events
Replay(events, flowWindow, finality) ==
  LET replayed[i \in 0..Len(events)] ==
        IF i = 0 THEN StartState
        ELSE ReplayEvent(replayed[i-1], events[i], flowWindow, finality[events[i].block])
  IN replayed[Len(events)]

\* Only the snapshots of markets with a label, and only the labels of those
AssembleResolved(snapshots, labels) ==
  Assemble(snapshots, [m \in {snapshots[i].market : i \in 1..Len(snapshots)} |-> labels[m]])

Projected(end) ==
  IF end.err # "ok" THEN [err |-> end.err, rows |-> <<>>]
  ELSE AssembleResolved(
         Select(end.snapshots, {i \in 1..Len(end.snapshots) : end.snapshots[i].market \in DOMAIN end.labels}),
         end.labels)

ProjectCanonical(events, flowWindow, finality) == Projected(Replay(events, flowWindow, finality))
=============================================================================
