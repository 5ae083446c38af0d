--------------------------- MODULE TrainingParquet ---------------------------
(***************************************************************************)
(* internal/trainingdata/parquet.go: the columns of a data set.  The file  *)
(* itself is the concern of Programs.                                      *)
(***************************************************************************)
EXTENDS TrainingProjection

\* time.UnixNano, in seconds: it wraps outside the int64 range, and time.Unix
\* undoes it within.
UnixNano(t) == ((t + NanoLimit) % (2 * NanoLimit)) - NanoLimit

toParquetRows(rows) ==
  [i \in 1..Len(rows) |->
     [rows[i] EXCEPT !.time = UnixNano(@), !.resolution = UnixNano(@), !.available = UnixNano(@)]]

fromParquetRows(columns) ==
  IF \E i \in 1..Len(columns) : columns[i].finality \notin 0..FinalityFinalized
  THEN [err |-> "finality", rows |-> <<>>]
  ELSE [err |-> "ok", rows |-> columns]

\* ReadParquet of a file with the schema and without nulls
ReadParquet(columns) ==
  LET read == fromParquetRows(columns)
  IN IF read.err # "ok" THEN read ELSE Validated(read.rows)
=============================================================================
