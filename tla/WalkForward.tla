---------------------------- MODULE WalkForward ----------------------------
(***************************************************************************)
(* python/src/bellwether_harness: expanding_walk_forward_splits            *)
(* (splits.py) and evaluate_walk_forward (evaluation.py), one step per     *)
(* fold.  Rows are numbered from 1, so the half-open [a, b) of the code is *)
(* a+1..b.  The fitted models and their scores are left out: only which    *)
(* rows train and which are scored matters here.                           *)
(***************************************************************************)
EXTENDS LabeledDataset, FiniteSets

CONSTANTS
  Datasets,  \* data sets that may be loaded
  Configs    \* split configurations that may be given

\* Row counts and timestamps are integers; which of them are valid is checked.
ASSUME WalkForwardAssumption ==
  /\ \A c \in Configs : {c.initial, c.embargo, c.test, c.step} \subseteq Int
  /\ \A d \in Datasets : /\ Len(d) \in Nat
                         /\ \A i \in 1..Len(d) : {d[i].time, d[i].available} \subseteq Int

VARIABLES
  rows,      \* the data set
  config,    \* the WalkForwardConfig
  trainEnd,  \* the generator's train_end
  folds,     \* the folds evaluated so far
  status     \* "running", "done", or why evaluate_walk_forward raised

evaluationVars == <<rows, config, trainEnd, folds, status>>

\* WalkForwardConfig.__post_init__
ValidConfig(c) ==
  /\ c.initial > 0 /\ c.embargo > 0 /\ c.test > 0 /\ c.step > 0
  /\ c.step >= c.test

EvaluationInit ==
  /\ rows \in {d \in Datasets : validate_values(d)}
  /\ config \in {c \in Configs : ValidConfig(c)}
  /\ trainEnd = config.initial /\ folds = <<>> /\ status = "running"

-----------------------------------------------------------------------------
MarketsOf(S) == {rows[i].market : i \in S}

Cutoff == rows[trainEnd].time
TestStart == trainEnd + config.embargo

TestRows == TestStart + 1 .. TestStart + config.test

Eligible == {i \in 1..trainEnd : rows[i].available <= Cutoff}

\* Faulty variants stand before the definitions they would replace.
FoldFitsStrictly == TestStart + config.test < Len(rows)

FoldFits == TestStart + config.test <= Len(rows)

\* The checks of one fold, in the order they are made
TiedCutoff == Cutoff >= rows[trainEnd + 1].time
Overlap == MarketsOf(Eligible) \cap MarketsOf(TestRows) # {}
OneClass == Cardinality({rows[i].outcome : i \in Eligible}) < 2

Raise(why) ==
  /\ status' = why
  /\ UNCHANGED <<rows, config, trainEnd, folds>>

FoldRaises ==
  /\ status = "running" /\ FoldFits
  /\ \/ TiedCutoff /\ Raise("tied cutoff")
     \/ ~TiedCutoff /\ Overlap /\ Raise("overlap")
     \/ ~TiedCutoff /\ ~Overlap /\ OneClass /\ Raise("one class")

EvaluateFoldUnchecked ==
  /\ status = "running" /\ FoldFits /\ ~Overlap /\ ~OneClass
  /\ folds' = Append(folds, [cutoff |-> Cutoff, eligible |-> Eligible, test |-> TestRows])
  /\ trainEnd' = trainEnd + config.step
  /\ UNCHANGED <<rows, config, status>>

EvaluateFold ==
  /\ status = "running" /\ FoldFits
  /\ ~TiedCutoff /\ ~Overlap /\ ~OneClass
  /\ folds' = Append(folds, [cutoff |-> Cutoff, eligible |-> Eligible, test |-> TestRows])
  /\ trainEnd' = trainEnd + config.step
  /\ UNCHANGED <<rows, config, status>>

Finish ==
  /\ status = "running" /\ ~FoldFits
  /\ status' = IF folds = <<>> THEN "no folds" ELSE "done"
  /\ UNCHANGED <<rows, config, trainEnd, folds>>

EvaluationNext == FoldRaises \/ EvaluateFold \/ Finish

EvaluationSpec == EvaluationInit /\ [][EvaluationNext]_evaluationVars

-----------------------------------------------------------------------------
(* No fold learns from the future: the outcome of every training row was   *)
(* public by the cutoff, the cutoff precedes every tested decision, and no *)
(* market is on both sides; that holds by the loader's rules, so the check *)
(* for it (evaluation.py:103-105) never raises (evaluation.py:97-106).     *)
NoLeakage ==
  /\ status # "overlap"
  /\ \A k \in 1..Len(folds) :
       \A i \in folds[k].eligible, j \in folds[k].test :
         /\ rows[i].available <= folds[k].cutoff
         /\ rows[i].available < rows[j].time
         /\ rows[i].market # rows[j].market

(* The aggregate scores count every row at most once, and a finished       *)
(* evaluation left out no complete fold: one more step of the window would *)
(* pass the end of the data (splits.py:30-33, 60).                         *)
FoldsAreAll ==
  /\ \A k, l \in 1..Len(folds) : k # l => folds[k].test \cap folds[l].test = {}
  /\ status = "done" =>
       LET last == config.initial + (Len(folds) - 1) * config.step
       IN /\ last + config.embargo + config.test <= Len(rows)
          /\ last + config.step + config.embargo + config.test > Len(rows)
=============================================================================
