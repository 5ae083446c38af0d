--------------------------- MODULE EventConversion ---------------------------
(***************************************************************************)
(* internal/market (decoder.go, abi.go) and internal/indexer/convert.go:   *)
(* from the raw logs of a block to its stored events, and back from a      *)
(* stored event to a typed one.  A raw log is [address, topics, data,      *)
(* number, hash, tx, index, removed]; a data word is a natural number, an  *)
(* address topic a pair of its padding and the address.  Every result is a *)
(* record with err; which of several faults is named first is left out.    *)
(***************************************************************************)
EXTENDS Integers, Sequences, FiniteSets

CONSTANTS
  Contract,    \* the fixture contract's address
  MaxUint64,   \* the largest uint64 and the largest word
  MaxUint256

ASSUME ConversionAssumption == MaxUint64 \in Nat /\ MaxUint256 \in Nat /\ 1 <= MaxUint64 /\ MaxUint64 <= MaxUint256

-----------------------------------------------------------------------------
(* The ABI                                                                 *)

Fields ==
  [Trade |-> <<"yes", "amount", "yesReserve", "noReserve", "resolutionTime">>,
   LiquidityChanged |-> <<"yesReserve", "noReserve", "resolutionTime">>,
   MarketResolved |-> <<"outcome">>]

Type ==
  [yes |-> "bool", outcome |-> "bool", amount |-> "uint256", yesReserve |-> "uint256",
   noReserve |-> "uint256", resolutionTime |-> "uint64"]

\* marketId is indexed everywhere, trader in a trade only.
TopicCount == [Trade |-> 3, LiquidityChanged |-> 2, MarketResolved |-> 2]

Largest == [bool |-> 1, uint64 |-> MaxUint64, uint256 |-> MaxUint256]
Value(type, word) == IF type = "bool" THEN word = 1 ELSE word

\* Faulty variants stand before the definitions they would replace.
unpackDataPrefix(kind, data) ==
  /\ Len(data) >= Len(Fields[kind])
  /\ \A i \in 1..Len(Fields[kind]) : data[i] <= Largest[Type[Fields[kind][i]]]

\* unpackData succeeds: one word per argument and not a byte more, each the
\* encoding that packing its value gives back.
unpackData(kind, data) ==
  /\ Len(data) = Len(Fields[kind])
  /\ \A i \in 1..Len(data) : data[i] <= Largest[Type[Fields[kind][i]]]

unpackIndexed(kind, topics) == kind = "Trade" => topics[3].padding = 0

Typed(kind, topics, data) ==
  [kind |-> kind, market |-> topics[2],
   trader |-> IF kind = "Trade" THEN topics[3].address ELSE "none",
   args |-> [f \in {Fields[kind][i] : i \in 1..Len(Fields[kind])} |->
               Value(Type[f], data[CHOOSE i \in 1..Len(Fields[kind]) : Fields[kind][i] = f])]]

Failed(why) == [err |-> why, event |-> <<>>]

Decode(log) ==
  IF log.address # Contract THEN Failed("wrong contract")
  ELSE IF log.topics = <<>> \/ log.topics[1] \notin DOMAIN Fields THEN Failed("unknown event")
  ELSE IF \/ Len(log.topics) # TopicCount[log.topics[1]]
          \/ ~unpackIndexed(log.topics[1], log.topics)
          \/ ~unpackData(log.topics[1], log.data)
    THEN Failed("malformed")
  ELSE [err |-> "ok", event |-> Typed(log.topics[1], log.topics, log.data)]

-----------------------------------------------------------------------------
(* The stored form: a kind and a JSON payload                              *)

PayloadKind ==
  [Trade |-> "trade", LiquidityChanged |-> "liquidity_changed", MarketResolved |-> "market_resolved"]

\* A uint256 is written in decimal, a bool or a uint64 as it is.
numeral[n \in Nat] == IF n < 10 THEN <<n>> ELSE Append(numeral[n \div 10], n % 10)
uint256Decimal(n) == numeral[n]
JSONValue(f, v) == IF Type[f] = "uint256" THEN uint256Decimal(v) ELSE v

ConvertEvent(event) ==
  [kind |-> PayloadKind[event.kind], market |-> [hex |-> event.market], trader |-> [hex |-> event.trader],
   payload |-> [f \in DOMAIN event.args |-> JSONValue(f, event.args[f])]]

\* decimalUint256: a string is a number only if that number is written so.
isDecimalUint256(s) == \E n \in 0..MaxUint256 : uint256Decimal(n) = s
decimalUint256(s) == CHOOSE n \in 0..MaxUint256 : uint256Decimal(n) = s

\* A payload with these fields, none missing and none unknown, is readable.
Readable(kind, payload) ==
  /\ DOMAIN payload = {Fields[kind][i] : i \in 1..Len(Fields[kind])}
  /\ \A f \in DOMAIN payload : Type[f] = "uint256" => isDecimalUint256(payload[f])

DecodeEvent(stored) ==
  IF \A k \in DOMAIN PayloadKind : PayloadKind[k] # stored.kind THEN Failed("unsupported kind")
  ELSE LET kind == CHOOSE k \in DOMAIN PayloadKind : PayloadKind[k] = stored.kind
           args == [f \in DOMAIN stored.payload |->
                      IF Type[f] = "uint256" THEN decimalUint256(stored.payload[f]) ELSE stored.payload[f]]
       IN IF ~Readable(kind, stored.payload) THEN Failed("invalid event")
          ELSE [err |-> "ok", event |-> [kind |-> kind, market |-> stored.market.hex,
                                         trader |-> stored.trader.hex, args |-> args]]

-----------------------------------------------------------------------------
(* A block                                                                 *)

Before(a, b) == a.tx < b.tx \/ (a.tx = b.tx /\ a.index < b.index)

\* Log i comes before log j after the stable sort.
Precedes(logs, i, j) == Before(logs[i], logs[j]) \/ (~Before(logs[j], logs[i]) /\ i < j)

ordered(logs) ==
  [k \in 1..Len(logs) |->
     logs[CHOOSE j \in 1..Len(logs) : Cardinality({i \in 1..Len(logs) : Precedes(logs, i, j)}) = k - 1]]

Belongs(log, header) == log.number = header.number /\ log.hash = header.hash /\ ~log.removed

DistinctIndexes(logs) == \A i, j \in 1..Len(logs) : logs[i].index = logs[j].index => i = j

StoredEvent(log, decoded) == [index |-> log.index, event |-> ConvertEvent(decoded.event)]

convertOrdered(header, logs) ==
  IF ~(\A i \in 1..Len(logs) : Belongs(logs[i], header)) \/ ~DistinctIndexes(logs)
  THEN [err |-> "disconnected", events |-> <<>>]
  ELSE IF \E i \in 1..Len(logs) : Decode(logs[i]).err # "ok" THEN [err |-> "decode", events |-> <<>>]
  ELSE [err |-> "ok", events |-> [i \in 1..Len(logs) |-> StoredEvent(logs[i], Decode(logs[i]))]]

convertBlock(header, logs) == convertOrdered(header, ordered(logs))
=============================================================================
