--------------------------- MODULE FixtureDataset ---------------------------
(***************************************************************************)
(* The contract and the exporter together: whatever the markets' callers   *)
(* do, the export of the chain from any start block (cmd/bellwether's      *)
(* one-shot export after a backfill) is a sound data set.  Checkpoints     *)
(* trail the head by one and by two blocks.  Between the two stand the     *)
(* provider's replies, which the indexer converts block by block.          *)
(***************************************************************************)
EXTENDS MarketFixture, TrainingParquet, LabeledDataset, EventConversion

CONSTANTS FlowWindow  \* settings.FlowWindow

Updates ==
  [market : MarketId, block : Nat, log : Nat, time : Int, yes : Nat, no : Nat, trade : Trades \cup {None},
   resolution : Int, finality : Nat]

\* A nil is told from every value; words are wide enough for what callers pass;
\* a float64 holds any uint256, and until 2262 an int64 the nanoseconds of a block.
ASSUME DatasetAssumption ==
  /\ FlowWindow \in Nat \ {0}
  /\ NoTrade = None /\ None \notin Trades \cup Updates
  /\ Trades \subseteq [direction: {TradeYES, TradeNO}, amount: 0..MaxUint256]
  /\ Reserves \subseteq (0..MaxUint256) \X (0..MaxUint256)
  /\ ResolutionTime \subseteq 0..MaxUint64 /\ MaxUint64 < MaxUint256 /\ MaxUint256 <= FloatMax
  /\ \A t \in Time : t < NanoLimit
  /\ Contract # "another"

\* Go's float64 is numpy's, and a market's id (canonicalMarketID) is never empty.
ASSUME ColumnsAssumption == MaxFloat = FloatMax /\ "" \notin MarketId

Finality == [b \in 1..block |-> IF b <= block - 2 THEN 2 ELSE IF b <= block - 1 THEN 1 ELSE 0]

\* The store after a backfill from a start block holds these events.
Indexed(start) == Select(events, {i \in 1..Len(events) : events[i].block >= start})

Elements(s) == {s[i] : i \in 1..Len(s)}

Export(start) == ProjectCanonical(Indexed(start), FlowWindow, Finality)

Starts == {1} \cup {e.block : e \in {events[i] : i \in 1..Len(events)}}

-----------------------------------------------------------------------------
(* The provider (external): the logs of a block, and what a reply may be.  *)

Header(b) == [number |-> b, hash |-> <<"canonical", b>>]

Args(e) ==
  CASE e.kind = "Trade" -> <<IF e.trade.direction = TradeYES THEN 1 ELSE 0, e.trade.amount, e.yes, e.no, e.resolution>>
    [] e.kind = "LiquidityChanged" -> <<e.yes, e.no, e.resolution>>
    [] e.kind = "MarketResolved" -> <<IF e.outcome THEN 1 ELSE 0>>

\* The log the contract writes for event e; other contracts' logs lie between.
RawLog(e) ==
  [address |-> Contract, removed |-> FALSE,
   topics |-> IF e.kind = "Trade" THEN <<e.kind, e.market, [padding |-> 0, address |-> "trader"]>>
              ELSE <<e.kind, e.market>>,
   data |-> Args(e), number |-> e.block, hash |-> Header(e.block).hash, tx |-> e.log \div 2, index |-> 2 * e.log]

RawLogs(log) == [i \in 1..Len(log) |-> RawLog(log[i])]

\* Logs that are not the block's, or not the contract's, or not canonical
BadTopics(topics) ==
  {<<>>, [topics EXCEPT ![1] = "Other"], Append(topics, "extra")}
    \cup {[topics EXCEPT ![i] = [padding |-> 1, address |-> "trader"]] : i \in 3..Len(topics)}

BadData(data) == {Append(data, 0), Tail(data), [data EXCEPT ![Len(data)] = MaxUint256]}

BadLogs(l) ==
  { [l EXCEPT !.hash = <<"orphaned", l.number>>], [l EXCEPT !.number = @ + 1], [l EXCEPT !.removed = TRUE],
    [l EXCEPT !.address = "another"] }
    \cup {[l EXCEPT !.topics = topics] : topics \in BadTopics(l.topics)}
    \cup {[l EXCEPT !.data = data] : data \in BadData(l.data)}

\* Any order of up to three logs; more are rotated, forwards and backwards.
Genuine(logs) ==
  { SubSeq(s, k + 1, Len(s)) \o SubSeq(s, 1, k) : s \in {logs, Reverse(logs)}, k \in 0..Len(logs) }

Bad(logs) ==
  {Append(logs, logs[i]) : i \in 1..Len(logs)}
    \cup UNION {{[logs EXCEPT ![i] = l] : l \in BadLogs(logs[i])} : i \in 1..Len(logs)}

\* What project.go reads off a stored event of a block
Received(stored, b, time) ==
  LET typed == DecodeEvent(stored.event).event
      arg(f, default) == IF f \in DOMAIN typed.args THEN typed.args[f] ELSE default
  IN [kind |-> typed.kind, market |-> typed.market, block |-> b, log |-> stored.index \div 2, time |-> time,
      yes |-> arg("yesReserve", 0), no |-> arg("noReserve", 0), resolution |-> arg("resolutionTime", 0),
      outcome |-> arg("outcome", FALSE),
      trade |-> IF typed.kind # "Trade" THEN NoTrade
                ELSE [direction |-> IF typed.args.yes THEN TradeYES ELSE TradeNO, amount |-> typed.args.amount]]

Converted(conversion, b, time) ==
  [i \in 1..Len(conversion.events) |-> Received(conversion.events[i], b, time)]

-----------------------------------------------------------------------------
(* Whatever order the provider lists a block's logs in, the events that    *)
(* are stored and read back are the contract's own, value for value and in *)
(* its order; a reply with a repeated log, a log of another branch or an   *)
(* encoding the contract never writes is refused whole (convert.go:262-304,*)
(* decoder.go:39-64, abi.go:143-185).                                      *)
RepliesConverted ==
  \A log \in {Select(events, {i \in 1..Len(events) : events[i].block = block})} : \A logs \in {RawLogs(log)} :
    /\ \A reply \in Genuine(logs) : \A c \in {convertBlock(Header(block), reply)} :
         c.err = "ok" /\ Converted(c, block, now) = log
    /\ \A reply \in Bad(logs) : convertBlock(Header(block), reply).err # "ok"

(* Every data set the exporter writes can be read: its columns pass the    *)
(* Python loader's checks (dataset.py:134-190), which were written         *)
(* separately, and the Go reader gives back the rows that were exported    *)
(* (parquet.go:72-129).                                                     *)
ExportLoads ==
  \A start \in Starts : \A e \in {Export(start)} : e.err = "ok" =>
    \A columns \in {toParquetRows(e.rows)} : validate_values(columns) /\ ReadParquet(columns) = e

\* The rows read off the events directly, without engines
ReferenceRows(start) ==
  LET log == Indexed(start)
      index == 1..Len(log)
      resolution(i) == {j \in index : log[j].market = log[i].market /\ log[j].kind = "MarketResolved"}
      past(i) == {j \in 1..i : log[j].market = log[i].market}
      trades(i) == Select([j \in index |-> log[j].trade], past(i))
      snapshot(i) == LET u == UpdateOf(log[i], Finality[log[i].block])
                     IN FeaturesAt(u, LastOf(FlowWindow, trades(i)), u)
      rowsOf(i) == { LabelledRow(snapshot(i), [available |-> log[j].time, outcome |-> log[j].outcome]) :
                       j \in resolution(i) }
  IN UNION {rowsOf(i) : i \in {j \in index : log[j].kind # "MarketResolved"}}

(* No history of the contract makes the exporter fail, from whichever      *)
(* block the indexer started, and a data set holds exactly one row per     *)
(* change of a resolved market, with the features of the market's own last *)
(* events up to that change and the outcome and time of its resolution     *)
(* event (project.go:28-75, rows.go:91-162).                               *)
ExportIsReference ==
  \A start \in Starts : \A e \in {Export(start)}, reference \in {ReferenceRows(start)} :
    /\ e.err \in {"ok", "empty"}
    /\ Elements(e.rows) = reference /\ Len(e.rows) = Cardinality(reference)

\* The rows of an export, without their finality, which rises with the checkpoints
RowsOf(log) == Elements(ProjectCanonical(log, FlowWindow, [b \in 1..block |-> 0]).rows)

(* A row that has been exported stays: every export made when the chain    *)
(* was shorter is contained in the export of today (engine.go:98-101).     *)
RowsAreStable ==
  \A start \in Starts : \A log \in {Indexed(start)} : \A today \in {RowsOf(log)}, n \in 1..Len(log) :
    RowsOf(SubSeq(log, 1, n)) \subseteq today
=============================================================================
