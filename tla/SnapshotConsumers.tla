-------------------------- MODULE SnapshotConsumers --------------------------
(***************************************************************************)
(* What happens to a snapshot after the engine has returned it:            *)
(* internal/inference turns it into a model's input vector, and            *)
(* internal/snapshot writes a market's snapshots to a file and reads them  *)
(* back.  Both check again what they are given.                            *)
(***************************************************************************)
EXTENDS FeatureEngine

CONSTANTS
  MaxExactInteger,  \* 2^53
  NanoLimit         \* seconds whose nanoseconds do not fit an int64

\* A finality is unsigned.
ASSUME ConsumersAssumption ==
  /\ MaxExactInteger \in Nat /\ NanoLimit \in Nat \ {0}
  /\ \A u \in Update : u.resolution \in Int /\ u.finality \in Nat

-----------------------------------------------------------------------------
(* internal/inference/model.go                                             *)

finiteBetween(q, lower, upper) == q # NaN /\ lower * q[2] <= q[1] /\ q[1] <= upper * q[2]
finiteNonNegative(x) == x >= 0 /\ Finite(x)

\* SnapshotVector returns a vector, of the features in the order of training.
HasVector(s) ==
  /\ finiteBetween(s.probability, 0, 1)
  /\ finiteBetween(s.flow, -1, 1)
  /\ finiteNonNegative(s.depth)
  /\ finiteNonNegative(s.seconds)
  /\ s.lag <= MaxExactInteger

-----------------------------------------------------------------------------
(* internal/snapshot/rows.go, with seconds for times                       *)

\* time.UnixNano wraps outside the int64 range; time.Unix undoes it within.
UnixNano(t) == ((t + NanoLimit) % (2 * NanoLimit)) - NanoLimit
unixNanoRepresentable(t) == UnixNano(t) = t

validRow(row) ==
  /\ row.finality <= FinalityFinalized
  /\ unixNanoRepresentable(row.time) /\ unixNanoRepresentable(row.resolution)
  /\ row.probability # NaN /\ row.flow # NaN /\ Finite(row.depth) /\ Finite(row.seconds)

validate(rows) ==
  /\ rows # <<>>
  /\ \A i \in 1..Len(rows) : rows[i].market = rows[1].market /\ validRow(rows[i])
  /\ \A i \in 2..Len(rows) : After(rows[i], rows[i-1])

\* Faulty variants stand before the definitions they would replace.
toParquetRowsAtUpdate(rows) ==
  [i \in 1..Len(rows) |-> [rows[i] EXCEPT !.block = @ - rows[i].lag, !.time = UnixNano(@), !.resolution = UnixNano(@)]]

toParquetRows(rows) ==
  [i \in 1..Len(rows) |-> [rows[i] EXCEPT !.time = UnixNano(@), !.resolution = UnixNano(@)]]

\* time.Unix(0, n) is what n means; a finality outside the three is refused.
fromParquetRows(columns) ==
  IF \E i \in 1..Len(columns) : columns[i].finality \notin 0..FinalityFinalized THEN <<>> ELSE columns

\* WriteParquet and then ReadParquet: the rows, or nothing if either refuses.
WrittenAndRead(rows) ==
  IF ~validate(rows) THEN <<>>
  ELSE LET read == fromParquetRows(toParquetRows(rows)) IN IF validate(read) THEN read ELSE <<>>

-----------------------------------------------------------------------------
(* Whatever an engine returns is fit for both: a model refuses it only for *)
(* a lag no float64 holds, and two snapshots make a file that reads back   *)
(* as it was, unless they are at one position, which the engine allows, or *)
(* a time has no nanoseconds (model.go:59-85, rows.go:46-130).             *)
ConsumersAccept ==
  kept # None =>
    /\ HasVector(kept) <=> kept.lag <= MaxExactInteger
    /\ \A p \in Point : AllowsSnapshot(engine, p) /\ ~After(kept, p) =>
         \A rows \in {<<kept, Snapshot(engine, p)>>} :
           WrittenAndRead(rows) =
             IF /\ After(p, kept)
                /\ \A i \in 1..2 : {rows[i].time, rows[i].resolution} \subseteq -NanoLimit..NanoLimit - 1
             THEN rows ELSE <<>>
=============================================================================
