--------------------------- MODULE LabeledDataset ---------------------------
(***************************************************************************)
(* python/src/bellwether_harness/dataset.py: the checks load_labeled_      *)
(* parquet makes on the values of a data set, written a second time, in    *)
(* another language, next to the exporter's.                               *)
(***************************************************************************)
EXTENDS Integers, Sequences

CONSTANTS MaxFloat  \* the largest finite float64

ASSUME LoaderAssumption == MaxFloat \in Nat \ {0}

\* Faulty variants stand before the definitions they would replace; this one is
\* features.all() without isfinite, which asks for numbers that are not 0.
NonzeroFeatures(row) == row.probability[1] # 0 /\ row.flow[1] # 0 /\ row.depth # 0 /\ row.seconds # 0 /\ row.lag # 0

\* numpy.isfinite of a row of the features array.  The two ratios are pairs, and
\* <<0, 0>> for a NaN.
FiniteFeatures(row) ==
  /\ <<0, 0>> \notin {row.probability, row.flow}
  /\ row.depth <= MaxFloat /\ row.seconds <= MaxFloat /\ row.lag <= MaxFloat

RowsOfMarket(rows, m) == {i \in 1..Len(rows) : rows[i].market = m}

OrderedPosition(row, previous) ==
  \/ row.block > previous.block
  \/ row.block = previous.block /\ row.log > previous.log

ValidMarketStrict(rows, m) ==
  \A i, j \in RowsOfMarket(rows, m) :
    /\ rows[i].resolution = rows[j].resolution /\ rows[i].available = rows[j].available
    /\ rows[i].outcome = rows[j].outcome
    /\ rows[i].available > rows[i].resolution
    /\ rows[i].available > rows[j].time

\* One schedule, label time and outcome per market, the label after every row
ValidMarket(rows, m) ==
  \A i, j \in RowsOfMarket(rows, m) :
    /\ rows[i].resolution = rows[j].resolution /\ rows[i].available = rows[j].available
    /\ rows[i].outcome = rows[j].outcome
    /\ rows[i].available >= rows[i].resolution
    /\ rows[i].available > rows[j].time

validate_values(rows) ==
  /\ rows # <<>>
  /\ \A i \in 1..Len(rows) :
       /\ FiniteFeatures(rows[i])
       /\ rows[i].market # ""
       /\ rows[i].probability[1] >= 0 /\ rows[i].probability[1] <= rows[i].probability[2]
       /\ rows[i].finality \in 0..2 /\ rows[i].outcome \in BOOLEAN
       /\ rows[i].resolution >= rows[i].time
  /\ \A m \in {rows[i].market : i \in 1..Len(rows)} : ValidMarket(rows, m)
  /\ \A i \in 2..Len(rows) : OrderedPosition(rows[i], rows[i-1]) /\ rows[i].time >= rows[i-1].time
=============================================================================
