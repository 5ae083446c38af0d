---------------------------- MODULE DatasetProofs ----------------------------
(***************************************************************************)
(* Theorems about the data set, from the contract to the file, for any     *)
(* markets, callers, times and word sizes: the log of a market is one      *)
(* life, a provider's reply is stored as the contract wrote it or refused, *)
(* and an export is the reference data set, only ever grows, and loads.    *)
(***************************************************************************)
EXTENDS FixtureDataset, FeaturesProofs

-----------------------------------------------------------------------------
(* BellwetherMarketFixture.                                                *)

Market == [exists: BOOLEAN, resolved: BOOLEAN, outcome: BOOLEAN,
           resolution: ResolutionTime \cup {0},
           yes: {r[1] : r \in Reserves} \cup {0}, no: {r[2] : r \in Reserves} \cup {0}]

ResolvedEvent(j) == events[j].kind = "MarketResolved"

\* An event is of a market that exists.  A change carries the market's schedule,
\* and came before it; a resolution is of a market that is resolved.
EventOk(j) ==
  LET e == events[j]  m == markets[e.market]
  IN  /\ e.market \in MarketId /\ m.exists
      /\ ResolvedEvent(j) => m.resolved
      /\ ~ResolvedEvent(j) => e.resolution = m.resolution /\ e.time < e.resolution

\* Whether or not the market is resolved by now, its log is one life: what is
\* not resolved yet may still go on.
MarketInv ==
  /\ markets \in [MarketId -> Market]
  /\ \A id \in MarketId : markets[id].resolved => markets[id].exists
  /\ DOMAIN events = 1..Len(events) /\ Len(events) \in Nat
  /\ \A j \in 1..Len(events) : EventOk(j)
  /\ MarketLifecycle

\* Append, whatever the elements are.
LEMMA AppendAny ==
  ASSUME NEW s, NEW x, Len(s) \in Nat, DOMAIN s = 1..Len(s)
  PROVE  /\ Len(Append(s, x)) = Len(s) + 1
         /\ DOMAIN Append(s, x) = 1..(Len(s) + 1)
         /\ \A j \in 1..Len(s) : Append(s, x)[j] = s[j]
         /\ Append(s, x)[Len(s) + 1] = x
OBVIOUS

LEMMA MarketInit == FixtureInit => MarketInv
<1> SUFFICES ASSUME FixtureInit PROVE MarketInv
  OBVIOUS
<1>1. NoMarket \in Market
  BY DEF NoMarket, Market
<1>2. markets \in [MarketId -> Market] /\ \A id \in MarketId : ~markets[id].resolved
  BY <1>1 DEF FixtureInit, NoMarket
<1>3. events = <<>> /\ Len(events) = 0 /\ DOMAIN events = 1..Len(events)
  BY DEF FixtureInit
<1> QED BY <1>2, <1>3 DEF MarketInv, MarketLifecycle

\* A transaction of market id leaves it as m and emits one event, of that market.
\* It was not resolved; if it existed it keeps its schedule.
LEMMA Transaction ==
  ASSUME MarketInv, NEW id \in MarketId, NEW m \in Market, NEW e,
         markets' = [markets EXCEPT ![id] = m], events' = Append(events, e),
         ~markets[id].resolved,
         m.exists, markets[id].exists => m.resolution = markets[id].resolution,
         e.market = id,
         IF e.kind = "MarketResolved"
           THEN m.resolved /\ markets[id].exists /\ e.time >= m.resolution
           ELSE e.resolution = m.resolution /\ e.time < e.resolution
  PROVE  MarketInv'
<1>0. PICK n \in Nat : n = Len(events)
  BY DEF MarketInv
<1>1. /\ Len(events) = n /\ Len(events') = n + 1 /\ DOMAIN events' = 1..(n + 1)
      /\ \A j \in 1..n : events'[j] = events[j]
      /\ events'[n + 1] = e
  BY <1>0, AppendAny DEF MarketInv
<1>2. /\ markets' \in [MarketId -> Market] /\ markets'[id] = m
      /\ \A k \in MarketId : k # id => markets'[k] = markets[k]
      /\ \A k \in MarketId : markets'[k].resolved => markets'[k].exists
  BY DEF MarketInv
<1>3. \A j \in 1..(n + 1) : j \in 1..n \/ j = n + 1
  BY <1>1
<1>4. ASSUME NEW j \in 1..n PROVE EventOk(j)' /\ (events[j].market = id => ~ResolvedEvent(j))
  <2>1. EventOk(j) /\ events'[j] = events[j]
    BY <1>1, <1>4 DEF MarketInv
  <2>2. CASE events[j].market = id
    <3>1. ~ResolvedEvent(j) /\ markets[id].exists
      BY <2>1, <2>2 DEF EventOk
    <3> QED BY <1>2, <2>1, <2>2, <3>1 DEF EventOk, ResolvedEvent
  <2>3. CASE events[j].market # id
    BY <1>2, <2>1, <2>3 DEF EventOk, ResolvedEvent
  <2> QED BY <2>2, <2>3
<1>5. EventOk(n + 1)'
  BY <1>1, <1>2 DEF EventOk, ResolvedEvent
<1>6. \A j \in 1..Len(events') : EventOk(j)'
  BY <1>1, <1>3, <1>4, <1>5
<1>7. ASSUME NEW i \in 1..(n + 1), NEW j \in 1..(n + 1), i <= j, events'[i].market = events'[j].market
      PROVE  /\ events'[i].kind = "MarketResolved" => i = j
             /\ events'[i].kind # "MarketResolved" =>
                  /\ events'[i].time < events'[i].resolution
                  /\ IF events'[j].kind = "MarketResolved" THEN events'[j].time >= events'[i].resolution
                     ELSE events'[j].resolution = events'[i].resolution
  <2>1. CASE j \in 1..n
    <3>1. i \in 1..n
      BY <1>1, <1>7, <2>1
    <3> QED BY <1>1, <1>7, <2>1, <3>1 DEF MarketInv, MarketLifecycle
  <2>2. CASE i \in 1..n /\ j = n + 1
    <3>1. events[i].market = id /\ events'[i] = events[i] /\ events'[j] = e
      BY <1>1, <1>7, <2>2
    <3>2. EventOk(i) /\ ~ResolvedEvent(i)
      BY <1>1, <1>4, <2>2, <3>1 DEF MarketInv
    <3>3. /\ markets[id].exists /\ events[i].resolution = markets[id].resolution
          /\ events[i].time < events[i].resolution /\ events[i].kind # "MarketResolved"
      BY <3>1, <3>2 DEF EventOk, ResolvedEvent
    <3> QED BY <3>1, <3>3
  <2>3. CASE i = n + 1 /\ j = n + 1
    BY <1>1, <2>3
  <2>4. i = n + 1 => j = n + 1
    BY <1>1, <1>7
  <2> QED BY <1>3, <2>1, <2>2, <2>3, <2>4
<1>8. MarketLifecycle'
  BY <1>1, <1>7 DEF MarketLifecycle
<1> QED BY <1>1, <1>2, <1>6, <1>8 DEF MarketInv

LEMMA MarketStep == MarketInv /\ [FixtureNext]_fixtureVars => MarketInv'
<1> SUFFICES ASSUME MarketInv, [FixtureNext]_fixtureVars PROVE MarketInv'
  OBVIOUS
<1>0. markets \in [MarketId -> Market]
  BY DEF MarketInv
<1>1. ASSUME NEW id \in MarketId \cup {ZeroId}, NEW t \in ResolutionTime, NEW r \in Reserves,
             CreateMarket(id, t, r)
      PROVE  MarketInv'
  <2> DEFINE m == [exists |-> TRUE, resolved |-> FALSE, outcome |-> FALSE,
                   resolution |-> t, yes |-> r[1], no |-> r[2]]
             e == [Changed(id, markets'[id], NoTrade)
                     EXCEPT !.block = block, !.log = LogIndex, !.time = now]
  <2>1. /\ id \in MarketId /\ t > now /\ ~markets[id].exists
        /\ markets' = [markets EXCEPT ![id] = m] /\ events' = Append(events, e)
    BY <1>1 DEF CreateMarket, Emit
  <2>2. m \in Market /\ m.exists /\ m.resolution = t
    BY DEF Market
  <2>3. markets'[id] = m
    BY <1>0, <2>1
  <2>4. e.market = id /\ e.kind # "MarketResolved" /\ e.resolution = t /\ e.time = now
    BY <2>3 DEF Changed
  <2>5. ~markets[id].resolved
    BY <2>1 DEF MarketInv
  <2> HIDE DEF m, e
  <2> QED BY <2>1, <2>2, <2>4, <2>5, Transaction
<1>2. ASSUME NEW id \in MarketId, NEW r \in Reserves, NEW trade, Open(id),
             markets' = [markets EXCEPT ![id].yes = r[1], ![id].no = r[2]],
             Emit(Changed(id, markets'[id], trade))
      PROVE  MarketInv'
  <2> DEFINE m == [markets[id] EXCEPT !.yes = r[1], !.no = r[2]]
             e == [Changed(id, markets'[id], trade)
                     EXCEPT !.block = block, !.log = LogIndex, !.time = now]
  <2>1. /\ now < markets[id].resolution /\ ~markets[id].resolved /\ markets[id].exists
        /\ events' = Append(events, e)
    BY <1>2 DEF Emit, Open, Exists
  <2>2. m \in Market /\ m.exists /\ m.resolution = markets[id].resolution
    BY <1>0, <2>1 DEF Market
  <2>3. markets' = [markets EXCEPT ![id] = m]
    BY <1>0, <1>2 DEF Market
  <2>4. markets'[id] = m
    BY <1>0, <2>3
  <2> HIDE DEF m
  <2>5. e.market = id /\ e.kind # "MarketResolved" /\ e.resolution = m.resolution /\ e.time = now
    BY <2>4 DEF Changed
  <2> HIDE DEF e
  <2> QED BY <2>1, <2>2, <2>3, <2>5, Transaction
<1>3. ASSUME NEW id \in MarketId, NEW outcome \in BOOLEAN, ResolveMarket(id, outcome)
      PROVE  MarketInv'
  <2> DEFINE m == [markets[id] EXCEPT !.resolved = TRUE, !.outcome = outcome]
             e == [Resolved(id, outcome)
                     EXCEPT !.block = block, !.log = LogIndex, !.time = now]
  <2>1. /\ now >= markets[id].resolution /\ ~markets[id].resolved /\ markets[id].exists
        /\ events' = Append(events, e)
        /\ markets' = [markets EXCEPT ![id].resolved = TRUE, ![id].outcome = outcome]
    BY <1>3 DEF ResolveMarket, Emit, Exists
  <2>2. m \in Market /\ m.exists /\ m.resolved /\ m.resolution = markets[id].resolution
    BY <1>0, <2>1 DEF Market
  <2>3. markets' = [markets EXCEPT ![id] = m]
    BY <1>0, <2>1 DEF Market
  <2>4. e.market = id /\ e.kind = "MarketResolved" /\ e.time = now
    BY DEF Resolved, Changed
  <2> HIDE DEF m, e
  <2> QED BY <2>1, <2>2, <2>3, <2>4, Transaction
<1>4. CASE Mine
  BY <1>4 DEF Mine, MarketInv, EventOk, ResolvedEvent, MarketLifecycle
<1>5. CASE UNCHANGED fixtureVars
  BY <1>5 DEF fixtureVars, MarketInv, EventOk, ResolvedEvent, MarketLifecycle
<1>6. ASSUME NEW id \in MarketId \cup {ZeroId},
             \/ \E r \in Reserves : SetLiquidity(id, r)
             \/ \E trade \in Trades, r \in Reserves : RecordTrade(id, trade, r)
             \/ \E outcome \in BOOLEAN : ResolveMarket(id, outcome)
      PROVE  MarketInv'
  <2>1. id \in MarketId
    BY <1>6 DEF SetLiquidity, RecordTrade, ResolveMarket, Open, Exists
  <2>2. CASE \E r \in Reserves : SetLiquidity(id, r)
    BY <1>2, <2>1, <2>2 DEF SetLiquidity
  <2>3. CASE \E trade \in Trades, r \in Reserves : RecordTrade(id, trade, r)
    BY <1>2, <2>1, <2>3 DEF RecordTrade
  <2>4. CASE \E outcome \in BOOLEAN : ResolveMarket(id, outcome)
    BY <1>3, <2>1, <2>4
  <2> QED BY <1>6, <2>2, <2>3, <2>4
<1> QED BY <1>1, <1>4, <1>5, <1>6 DEF FixtureNext

\* Whoever calls with whatever arguments, the log of a market is one life: one
\* schedule, changes before it, and at most one resolution, last and not before it.
THEOREM MarketsLiveOnce == FixtureSpec => []MarketLifecycle
<1>1. MarketInv => MarketLifecycle
  BY DEF MarketInv
<1> QED BY <1>1, MarketInit, MarketStep, PTL DEF FixtureSpec

-----------------------------------------------------------------------------
(* The events the contract writes.                                         *)

Kinds == {"Trade", "LiquidityChanged", "MarketResolved"}

Event ==
  [kind: Kinds, market: MarketId, yes: Nat, no: Nat, resolution: ResolutionTime \cup {0},
   trade: Trades \cup {NoTrade}, outcome: BOOLEAN, block: Nat, log: Nat, time: Time]

\* What the contract's functions emit
Written(e) ==
  /\ e \in Event
  /\ e.kind # "MarketResolved" => <<e.yes, e.no>> \in Reserves /\ e.yes > 0 /\ e.no > 0 /\ ~e.outcome
  /\ e.kind = "MarketResolved" => e.yes = 0 /\ e.no = 0 /\ e.resolution = 0
  /\ IF e.kind = "Trade" THEN e.trade \in Trades /\ e.trade.amount > 0 ELSE e.trade = NoTrade

\* The data callers pass, as the exporter sees it
LEMMA DataFits ==
  /\ \A t \in Trades : t.direction \in {TradeYES, TradeNO} /\ t.amount \in Nat /\ Finite(t.amount)
       /\ t.amount \in 0..MaxUint256
  /\ \A r \in Reserves : r[1] \in Nat /\ r[2] \in Nat /\ Finite(r[1]) /\ Finite(r[2]) /\ r[1] \in 0..MaxUint256
       /\ r[2] \in 0..MaxUint256
  /\ \A t \in ResolutionTime : t \in 0..MaxUint64
<1>1. MaxUint256 \in Nat /\ FloatMax \in Nat /\ MaxUint256 <= FloatMax
  BY ConversionAssumption, FeatureAssumption, DatasetAssumption
<1>2. \A n \in 0..MaxUint256 : n \in Nat /\ Finite(n)
  BY <1>1 DEF Finite
<1>3. \A t \in Trades : t.direction \in {TradeYES, TradeNO} /\ t.amount \in 0..MaxUint256
  BY DatasetAssumption
<1>4. \A r \in Reserves : r[1] \in 0..MaxUint256 /\ r[2] \in 0..MaxUint256
  BY DatasetAssumption
<1>5. \A t \in ResolutionTime : t \in 0..MaxUint64
  BY DatasetAssumption
<1> QED BY <1>2, <1>3, <1>4, <1>5

(* The events are in the order of blocks and of logs in a block; those of  *)
(* the current block have indices below the next one's.                    *)
LogInv ==
  /\ block \in Nat \ {0} /\ now \in Time /\ LogIndex \in Nat
  /\ DOMAIN events = 1..Len(events) /\ Len(events) \in Nat
  /\ \A j \in 1..Len(events) :
       /\ Written(events[j]) /\ events[j].block \in 1..block /\ events[j].time <= now
       /\ events[j].block = block => events[j].log < LogIndex /\ events[j].time = now
  /\ \A i, j \in 1..Len(events) : i < j => After(events[j], events[i]) /\ events[j].time >= events[i].time

LEMMA LogInit == FixtureInit => LogInv
<1> SUFFICES ASSUME FixtureInit PROVE LogInv
  OBVIOUS
<1>1. events = <<>> /\ Len(events) = 0 /\ DOMAIN events = 1..Len(events) /\ block = 1 /\ now \in Time
  BY DEF FixtureInit
<1>2. LogIndex = 0
  <2>1. {i \in 1..Len(events) : events[i].block = block} = {}
    BY <1>1
  <2> QED BY <2>1, FS_EmptySet DEF LogIndex
<1> QED BY <1>1, <1>2 DEF LogInv

\* One event more in the current block
LEMMA LogGrows ==
  ASSUME LogInv, NEW e, Written(e), e.block = block, e.log = LogIndex, e.time = now,
         events' = Append(events, e), UNCHANGED <<block, now>>
  PROVE  LogInv'
<1>0. PICK n \in Nat : n = Len(events)
  BY DEF LogInv
<1>1. /\ Len(events) = n /\ Len(events') = n + 1 /\ DOMAIN events' = 1..(n + 1)
      /\ \A j \in 1..n : events'[j] = events[j]
      /\ events'[n + 1] = e
  BY <1>0, AppendAny DEF LogInv
<1> DEFINE B == {i \in 1..n : events[i].block = block}
<1>2. IsFiniteSet(B) /\ LogIndex = Cardinality(B) /\ Cardinality(B) \in Nat
  <2>1. B \in SUBSET (1..n)
    OBVIOUS
  <2>2. LogIndex = Cardinality(B)
    BY <1>1 DEF LogIndex
  <2> HIDE DEF B
  <2> QED BY <2>1, <2>2, Indices
<1>3. LogIndex' = LogIndex + 1
  <2>1. {i \in 1..Len(events') : events'[i].block = block'} = B \cup {n + 1} /\ n + 1 \notin B
    BY <1>1
  <2> HIDE DEF B
  <2>2. Cardinality(B \cup {n + 1}) = Cardinality(B) + 1
    BY <1>2, <2>1, FS_AddElement
  <2> QED BY <1>2, <2>1, <2>2 DEF LogIndex
<1>4. \A j \in 1..(n + 1) : j \in 1..n \/ j = n + 1
  BY <1>1
<1>5. block \in Nat \ {0} /\ now \in Time /\ LogIndex \in Nat /\ block' = block /\ now' = now
  BY DEF LogInv
<1>6. \A j \in 1..n : /\ Written(events[j]) /\ events[j].block \in 1..block /\ events[j].time <= now
                      /\ events[j].block = block => events[j].log < LogIndex /\ events[j].time = now
  BY <1>1 DEF LogInv
<1>7. \A j \in 1..n : events[j].block \in Nat /\ events[j].log \in Nat /\ events[j].time \in Nat
  <2> TAKE j \in 1..n
  <2>1. Written(events[j])
    BY <1>6
  <2> QED BY <2>1, FixtureAssumption DEF Written, Event
<1> HIDE DEF B
<1>8. \A j \in 1..(n + 1) :
        /\ Written(events'[j]) /\ events'[j].block \in 1..block /\ events'[j].time <= now
        /\ events'[j].block = block => events'[j].log < LogIndex + 1 /\ events'[j].time = now
  <2> TAKE j \in 1..(n + 1)
  <2>1. CASE j \in 1..n
    BY <1>1, <1>5, <1>6, <1>7, <2>1
  <2>2. CASE j = n + 1
    BY <1>1, <1>5, <2>2, FixtureAssumption
  <2> QED BY <1>4, <2>1, <2>2
<1>9. \A i, j \in 1..(n + 1) : i < j => After(events'[j], events'[i]) /\ events'[j].time >= events'[i].time
  <2> SUFFICES ASSUME NEW i \in 1..(n + 1), NEW j \in 1..(n + 1), i < j
               PROVE  After(events'[j], events'[i]) /\ events'[j].time >= events'[i].time
    OBVIOUS
  <2>1. i \in 1..n
    BY <1>1
  <2>2. CASE j \in 1..n
    BY <1>1, <2>1, <2>2 DEF LogInv
  <2>3. CASE j = n + 1
    <3>1. events'[i] = events[i] /\ events'[j] = e
      BY <1>1, <2>1, <2>3
    <3>2. events[i].block \in 1..block /\ events[i].time <= now /\ (events[i].block = block => events[i].log < LogIndex)
      BY <1>6, <2>1
    <3>3. events[i].block < block \/ events[i].block = block
      BY <1>5, <3>2
    <3>4. events[i].log \in Nat /\ events[i].time \in Nat /\ now \in Nat
      BY <1>5, <1>7, <2>1, FixtureAssumption
    <3> QED BY <1>5, <3>1, <3>2, <3>3, <3>4 DEF After
  <2> QED BY <1>4, <2>2, <2>3
<1>10. LogIndex' \in Nat
  BY <1>3, <1>5
<1> QED BY <1>1, <1>3, <1>5, <1>8, <1>9, <1>10 DEF LogInv

\* Emit fills in where and when.
LEMMA Stamped ==
  ASSUME NEW c \in [kind: Kinds, market: MarketId, yes: Nat, no: Nat, resolution: ResolutionTime \cup {0},
                    trade: Trades \cup {NoTrade}, outcome: BOOLEAN, block: Nat, log: Nat, time: Nat],
         NEW b \in Nat, NEW l \in Nat, NEW w \in Time
  PROVE  LET e == [c EXCEPT !.block = b, !.log = l, !.time = w] IN
         /\ e \in Event /\ e.block = b /\ e.log = l /\ e.time = w
         /\ e.kind = c.kind /\ e.market = c.market /\ e.yes = c.yes /\ e.no = c.no /\ e.resolution = c.resolution
         /\ e.trade = c.trade /\ e.outcome = c.outcome
<1> DEFINE e == [c EXCEPT !.block = b, !.log = l, !.time = w]
<1>1. /\ e.block = b /\ e.log = l /\ e.time = w
      /\ e.kind = c.kind /\ e.market = c.market /\ e.yes = c.yes /\ e.no = c.no /\ e.resolution = c.resolution
      /\ e.trade = c.trade /\ e.outcome = c.outcome
  OBVIOUS
<1>2. e \in Event
  BY DEF Event
<1> QED BY <1>1, <1>2

LEMMA LogStep == LogInv /\ MarketInv /\ [FixtureNext]_fixtureVars => LogInv'
<1> SUFFICES ASSUME LogInv, MarketInv, [FixtureNext]_fixtureVars PROVE LogInv'
  OBVIOUS
<1>0. /\ markets \in [MarketId -> Market] /\ now \in Time /\ now \in Nat /\ block \in Nat \ {0} /\ LogIndex \in Nat
  BY FixtureAssumption DEF MarketInv, LogInv
<1>1. ASSUME NEW id \in MarketId, NEW m \in Market, NEW r \in Reserves, NEW trade \in Trades \cup {NoTrade},
             Positive(r), m.yes = r[1], m.no = r[2], trade # NoTrade => trade.amount > 0,
             Emit(Changed(id, m, trade)), UNCHANGED <<block, now>>
      PROVE  LogInv'
  <2> DEFINE c == Changed(id, m, trade)  e == [c EXCEPT !.block = block, !.log = LogIndex, !.time = now]
             k == IF trade = NoTrade THEN "LiquidityChanged" ELSE "Trade"
  <2>1. events' = Append(events, e)
    BY <1>1 DEF Emit
  <2>2. m.yes \in Nat /\ m.no \in Nat /\ <<m.yes, m.no>> = r /\ m.yes > 0 /\ m.no > 0
    BY <1>1, FixtureAssumption DEF Positive
  <2>3. m.resolution \in ResolutionTime \cup {0}
    BY DEF Market
  <2>4. /\ k \in Kinds /\ k # "MarketResolved"
        /\ IF k = "Trade" THEN trade \in Trades /\ trade.amount > 0 ELSE trade = NoTrade
    BY <1>1 DEF Kinds
  <2>5. c = [kind |-> k, market |-> id,
             yes |-> m.yes, no |-> m.no, resolution |-> m.resolution, trade |-> trade, outcome |-> FALSE,
             block |-> 0, log |-> 0, time |-> 0]
    BY DEF Changed
  <2> HIDE DEF k, c
  <2>6. c \in [kind: Kinds, market: MarketId, yes: Nat, no: Nat, resolution: ResolutionTime \cup {0},
               trade: Trades \cup {NoTrade}, outcome: BOOLEAN, block: Nat, log: Nat, time: Nat]
    BY <2>2, <2>3, <2>4, <2>5
  <2>7. c.kind = k /\ c.yes = m.yes /\ c.no = m.no /\ c.trade = trade /\ c.outcome = FALSE
    BY <2>5
  <2>8. /\ e \in Event /\ e.block = block /\ e.log = LogIndex /\ e.time = now
        /\ e.kind = c.kind /\ e.market = c.market /\ e.yes = c.yes /\ e.no = c.no /\ e.resolution = c.resolution
        /\ e.trade = c.trade /\ e.outcome = c.outcome
    <3>1. block \in Nat
      BY <1>0
    <3> QED BY <1>0, <2>6, <3>1, Stamped
  <2> HIDE DEF e
  <2>9. Written(e)
    BY <1>1, <2>2, <2>4, <2>7, <2>8 DEF Written
  <2> QED BY <1>1, <2>1, <2>8, <2>9, LogGrows
<1>2. ASSUME NEW id \in MarketId \cup {ZeroId}, NEW t \in ResolutionTime, NEW r \in Reserves, CreateMarket(id, t, r)
      PROVE  LogInv'
  <2> DEFINE m == [exists |-> TRUE, resolved |-> FALSE, outcome |-> FALSE, resolution |-> t, yes |-> r[1], no |-> r[2]]
  <2>1. id \in MarketId /\ Positive(r) /\ UNCHANGED <<block, now>>
    BY <1>2 DEF CreateMarket
  <2>2. markets'[id] = m
    BY <1>0, <1>2, <2>1 DEF CreateMarket
  <2>3. m \in Market /\ m.yes = r[1] /\ m.no = r[2]
    BY DEF Market
  <2>4. Emit(Changed(id, m, NoTrade))
    BY <1>2, <2>2 DEF CreateMarket
  <2> HIDE DEF m
  <2> QED BY <1>1, <2>1, <2>3, <2>4
<1>3. ASSUME NEW id, NEW r \in Reserves, NEW trade \in Trades \cup {NoTrade}, trade # NoTrade => trade.amount > 0,
             Open(id), id \in MarketId \cup {ZeroId}, Positive(r),
             markets' = [markets EXCEPT ![id].yes = r[1], ![id].no = r[2]],
             Emit(Changed(id, markets'[id], trade)), UNCHANGED <<block, now>>
      PROVE  LogInv'
  <2> DEFINE m == [markets[id] EXCEPT !.yes = r[1], !.no = r[2]]
  <2>1. id \in MarketId /\ markets[id] \in Market
    BY <1>0, <1>3 DEF Open, Exists
  <2>2. markets' = [markets EXCEPT ![id] = m]
    BY <1>0, <1>3, <2>1 DEF Market
  <2>3. markets'[id] = m
    BY <1>0, <2>1, <2>2
  <2>4. m \in Market /\ m.yes = r[1] /\ m.no = r[2]
    BY <2>1 DEF Market
  <2>5. Emit(Changed(id, m, trade))
    BY <1>3, <2>3
  <2> HIDE DEF m
  <2> QED BY <1>1, <1>3, <2>1, <2>4, <2>5
<1>4. ASSUME NEW id \in MarketId \cup {ZeroId}, NEW outcome \in BOOLEAN, ResolveMarket(id, outcome)
      PROVE  LogInv'
  <2> DEFINE c == Resolved(id, outcome)  d == Changed(id, NoMarket, NoTrade)
             e == [c EXCEPT !.block = block, !.log = LogIndex, !.time = now]
  <2>1. id \in MarketId /\ Emit(c) /\ UNCHANGED <<block, now>>
    BY <1>4 DEF ResolveMarket, Exists
  <2>2. events' = Append(events, e)
    BY <2>1 DEF Emit
  <2>3. d = [kind |-> "LiquidityChanged", market |-> id,
             yes |-> 0, no |-> 0, resolution |-> 0, trade |-> NoTrade, outcome |-> FALSE,
             block |-> 0, log |-> 0, time |-> 0]
    BY DEF Changed, NoMarket
  <2>4. c = [d EXCEPT !.kind = "MarketResolved", !.outcome = outcome]
    BY DEF Resolved
  <2> HIDE DEF d
  <2>5. c = [kind |-> "MarketResolved", market |-> id,
             yes |-> 0, no |-> 0, resolution |-> 0, trade |-> NoTrade, outcome |-> outcome,
             block |-> 0, log |-> 0, time |-> 0]
    BY <2>3, <2>4
  <2> HIDE DEF c
  <2>6. c \in [kind: Kinds, market: MarketId, yes: Nat, no: Nat, resolution: ResolutionTime \cup {0},
               trade: Trades \cup {NoTrade}, outcome: BOOLEAN, block: Nat, log: Nat, time: Nat]
    BY <2>1, <2>5 DEF Kinds
  <2>7. c.kind = "MarketResolved" /\ c.yes = 0 /\ c.no = 0 /\ c.resolution = 0 /\ c.trade = NoTrade
    BY <2>5
  <2>8. /\ e \in Event /\ e.block = block /\ e.log = LogIndex /\ e.time = now
        /\ e.kind = c.kind /\ e.market = c.market /\ e.yes = c.yes /\ e.no = c.no /\ e.resolution = c.resolution
        /\ e.trade = c.trade /\ e.outcome = c.outcome
    <3>1. block \in Nat
      BY <1>0
    <3> QED BY <1>0, <2>6, <3>1, Stamped
  <2> HIDE DEF e
  <2>9. Written(e)
    BY <2>7, <2>8 DEF Written
  <2> QED BY <2>1, <2>2, <2>8, <2>9, LogGrows
<1>5. CASE Mine
  <2>1. /\ block' = block + 1 /\ now' \in Time /\ now' > now /\ events' = events /\ now' \in Nat
    BY <1>5, FixtureAssumption DEF Mine
  <2>2. LogIndex' = 0
    <3>1. {i \in 1..Len(events') : events'[i].block = block'} = {}
      BY <1>0, <2>1 DEF LogInv
    <3> QED BY <3>1, FS_EmptySet DEF LogIndex
  <2>3. \A j \in 1..Len(events) : events[j].block \in 1..block' /\ events[j].block # block' /\ events[j].time <= now'
    <3> TAKE j \in 1..Len(events)
    <3>1. events[j].block \in 1..block /\ events[j].time <= now /\ Written(events[j])
      BY DEF LogInv
    <3>2. events[j].time \in Nat
      BY <3>1, FixtureAssumption DEF Written, Event
    <3> QED BY <1>0, <2>1, <3>1, <3>2
  <2>4. \A i, j \in 1..Len(events') : i < j => After(events'[j], events'[i]) /\ events'[j].time >= events'[i].time
    BY <2>1 DEF LogInv
  <2>5. DOMAIN events' = 1..Len(events') /\ Len(events') \in Nat /\ block' \in Nat \ {0}
    BY <1>0, <2>1 DEF LogInv
  <2>6. \A j \in 1..Len(events') : /\ Written(events'[j]) /\ events'[j].block \in 1..block' /\ events'[j].time <= now'
                                   /\ events'[j].block # block'
    BY <2>1, <2>3 DEF LogInv
  <2> QED BY <2>1, <2>2, <2>4, <2>5, <2>6 DEF LogInv
<1>6. CASE UNCHANGED fixtureVars
  <2>1. events' = events /\ block' = block /\ now' = now
    BY <1>6 DEF fixtureVars
  <2>2. LogIndex' = LogIndex
    BY <2>1 DEF LogIndex
  <2> QED BY <2>1, <2>2 DEF LogInv
<1>7. ASSUME NEW id \in MarketId \cup {ZeroId}, NEW r \in Reserves, SetLiquidity(id, r) PROVE LogInv'
  BY <1>3, <1>7 DEF SetLiquidity
<1>8. ASSUME NEW id \in MarketId \cup {ZeroId}, NEW trade \in Trades, NEW r \in Reserves,
            RecordTrade(id, trade, r)
     PROVE  LogInv'
  BY <1>3, <1>8 DEF RecordTrade
<1> QED BY <1>2, <1>4, <1>5, <1>6, <1>7, <1>8 DEF FixtureNext

-----------------------------------------------------------------------------
(* Conversion of replies.                                                  *)

\* A table of the numerals up to N
Numerals(g, N) == g = [n \in 0..N |-> IF n < 10 THEN <<n>> ELSE Append(g[n \div 10], n % 10)]

LEMMA Tenth == \A n \in Nat : n \div 10 \in Nat /\ n % 10 \in 0..9 /\ n = 10 * (n \div 10) + (n % 10)
     /\ n \div 10 <= n /\ (n >= 10 => n \div 10 < n)
OBVIOUS

LEMMA NumeralsExist == \A N \in Nat : \E g : Numerals(g, N)
<1> DEFINE S == {N \in Nat : \A g : ~Numerals(g, N)}
<1> SUFFICES ASSUME S # {} PROVE FALSE
  OBVIOUS
<1>1. PICK N \in S : \A M \in S : N <= M
  <2>1. S \in SUBSET Nat
    OBVIOUS
  <2> HIDE DEF S
  <2> QED BY <2>1, LeastNatural
<1>2. N \in Nat /\ \A g : ~Numerals(g, N)
  OBVIOUS
<1>3. CASE N = 0
  <2> DEFINE g == [n \in 0..0 |-> <<n>>]
  <2>1. g = [n \in 0..0 |-> IF n < 10 THEN <<n>> ELSE Append(g[n \div 10], n % 10)]
    <3> HIDE DEF g
    <3>1. \A n \in 0..0 : n < 10
      OBVIOUS
    <3>2. [n \in 0..0 |-> IF n < 10 THEN <<n>> ELSE Append(g[n \div 10], n % 10)] = [n \in 0..0 |-> <<n>>]
      BY <3>1
    <3> QED BY <3>2 DEF g
  <2> HIDE DEF g
  <2> QED BY <1>2, <1>3, <2>1 DEF Numerals
<1>4. CASE N # 0
  <2>1. N - 1 \in Nat /\ N - 1 \notin S
    <3> HIDE DEF S
    <3> QED BY <1>1, <1>2, <1>4
  <2>2. PICK h : Numerals(h, N - 1)
    BY <2>1
  <2> DEFINE g == [n \in 0..N |-> IF n < 10 THEN <<n>> ELSE Append(h[n \div 10], n % 10)]
  <2>3. \A n \in 0..(N - 1) : g[n] = h[n]
    <3> TAKE n \in 0..(N - 1)
    <3>1. n \in 0..N
      BY <1>2
    <3>2. h[n] = IF n < 10 THEN <<n>> ELSE Append(h[n \div 10], n % 10)
      BY <2>2 DEF Numerals
    <3>3. g[n] = IF n < 10 THEN <<n>> ELSE Append(h[n \div 10], n % 10)
      BY <3>1
    <3> HIDE DEF g
    <3> QED BY <3>2, <3>3
  <2>4. \A n \in 0..N : n \div 10 \in 0..(N - 1)
    <3> TAKE n \in 0..N
    <3>1. n \div 10 \in Nat /\ n \div 10 <= n /\ (n >= 10 => n \div 10 < n) /\ (n < 10 => n \div 10 = 0)
      BY <1>2
    <3> QED BY <1>2, <1>4, <3>1
  <2>5. g = [n \in 0..N |-> IF n < 10 THEN <<n>> ELSE Append(g[n \div 10], n % 10)]
    <3> DEFINE x == [n \in 0..N |-> g[n \div 10]]
    <3>1. \A n \in 0..N : g[n \div 10] = h[n \div 10]
      <4> HIDE DEF g
      <4> QED BY <2>3, <2>4
    <3> HIDE DEF g
    <3>2. [n \in 0..N |-> IF n < 10 THEN <<n>> ELSE Append(g[n \div 10], n % 10)] =
          [n \in 0..N |-> IF n < 10 THEN <<n>> ELSE Append(h[n \div 10], n % 10)]
      BY <3>1
    <3> QED BY <3>2 DEF g
  <2> HIDE DEF g
  <2> QED BY <1>2, <2>5 DEF Numerals
<1> QED BY <1>3, <1>4

LEMMA NumeralsAgree ==
  ASSUME NEW M \in Nat, NEW N \in Nat, NEW g, NEW h, Numerals(g, M), Numerals(h, N)
  PROVE  \A n \in Nat : n <= M /\ n <= N => g[n] = h[n]
<1> DEFINE S == {n \in Nat : n <= M /\ n <= N /\ g[n] # h[n]}
<1> SUFFICES ASSUME S # {} PROVE FALSE
  OBVIOUS
<1>1. PICK n \in S : \A m \in S : n <= m
  <2>1. S \in SUBSET Nat
    OBVIOUS
  <2> HIDE DEF S
  <2> QED BY <2>1, LeastNatural
<1>2. n \in Nat /\ n <= M /\ n <= N /\ g[n] # h[n]
  OBVIOUS
<1>3. n \in 0..M /\ n \in 0..N
  BY <1>2
<1>4. g[n] = (IF n < 10 THEN <<n>> ELSE Append(g[n \div 10], n % 10))
  BY <1>3 DEF Numerals
<1>5. h[n] = (IF n < 10 THEN <<n>> ELSE Append(h[n \div 10], n % 10))
  BY <1>3 DEF Numerals
<1>6. n >= 10
  BY <1>2, <1>4, <1>5
<1>7. n \div 10 \in Nat /\ n \div 10 < n
  BY <1>2, <1>6
<1>8. g[n \div 10] = h[n \div 10]
  BY <1>1, <1>2, <1>7
<1> QED BY <1>2, <1>4, <1>5, <1>6, <1>8

\* The recursion of numeral has a solution, so numeral is one.
LEMMA NumeralOf ==
  \A n \in Nat : numeral[n] = IF n < 10 THEN <<n>> ELSE Append(numeral[n \div 10], n % 10)
<1> DEFINE G(N) == CHOOSE g : Numerals(g, N)  f == [n \in Nat |-> G(n)[n]]
           Rec(h) == h = [n \in Nat |-> IF n < 10 THEN <<n>> ELSE Append(h[n \div 10], n % 10)]
<1>1. \A N \in Nat : Numerals(G(N), N)
  BY NumeralsExist
<1>2. \A n \in Nat : f[n] = IF n < 10 THEN <<n>> ELSE Append(f[n \div 10], n % 10)
  <2> TAKE n \in Nat
  <2>1. f[n] = G(n)[n]
    OBVIOUS
  <2>2. n \div 10 \in Nat /\ n \div 10 <= n /\ n \in 0..n
    OBVIOUS
  <2>3. f[n \div 10] = G(n \div 10)[n \div 10]
    BY <2>2
  <2> HIDE DEF G, f
  <2>4. G(n)[n] = IF n < 10 THEN <<n>> ELSE Append(G(n)[n \div 10], n % 10)
    BY <1>1, <2>2 DEF Numerals
  <2>5. G(n)[n \div 10] = G(n \div 10)[n \div 10]
    BY <1>1, <2>2, NumeralsAgree
  <2> QED BY <2>1, <2>3, <2>4, <2>5
<1>3. Rec(f)
  <2> HIDE DEF G
  <2>1. f = [n \in Nat |-> f[n]]
    OBVIOUS
  <2> HIDE DEF f
  <2> QED BY <1>2, <2>1
<1>4. numeral = CHOOSE h : Rec(h)
  BY DEF numeral
<1>5. Rec(numeral)
  <2> HIDE DEF f, Rec
  <2> QED BY <1>3, <1>4
<1> QED BY <1>5

\* What was appended to what can be told.
LEMMA SameAppend ==
  \A s, u \in Seq(Nat), a, b \in Nat : Append(s, a) = Append(u, b) => s = u /\ a = b
<1> SUFFICES ASSUME NEW s \in Seq(Nat), NEW u \in Seq(Nat), NEW a \in Nat, NEW b \in Nat, Append(s, a) = Append(u, b)
             PROVE  s = u /\ a = b
  OBVIOUS
<1> QED BY AppendInjective

\* Different numbers are written differently.
LEMMA NumeralTells ==
  \A m, n \in Nat : numeral[m] = numeral[n] => m = n
<1>1. \A n \in Nat : numeral[n] \in Seq(Nat) /\ Len(numeral[n]) > 0
  <2> DEFINE S == {n \in Nat : ~(numeral[n] \in Seq(Nat) /\ Len(numeral[n]) > 0)}
  <2> SUFFICES ASSUME S # {} PROVE FALSE
    OBVIOUS
  <2>1. PICK n \in S : \A m \in S : n <= m
    <3>1. S \in SUBSET Nat
      OBVIOUS
    <3> HIDE DEF S
    <3> QED BY <3>1, LeastNatural
  <2>2. n \in Nat /\ ~(numeral[n] \in Seq(Nat) /\ Len(numeral[n]) > 0)
    OBVIOUS
  <2>0. n \in Nat
    BY <2>2
  <2>3. n >= 10
    <3> SUFFICES ASSUME n < 10 PROVE FALSE
      BY <2>0
    <3>1. numeral[n] = <<n>>
      BY <2>0, NumeralOf
    <3>2. <<n>> \in Seq(Nat) /\ Len(<<n>>) = 1
      BY <2>0
    <3> QED BY <2>2, <3>1, <3>2
  <2>4. n \div 10 \in Nat /\ n \div 10 < n /\ n % 10 \in Nat
    BY <2>2, <2>3
  <2>5. numeral[n \div 10] \in Seq(Nat)
    BY <2>1, <2>2, <2>4
  <2>6. numeral[n] = Append(numeral[n \div 10], n % 10)
    <3>1. ~(n < 10)
      BY <2>0, <2>3
    <3> HIDE DEF S
    <3> QED BY <2>0, <3>1, NumeralOf
  <2>7. numeral[n] \in Seq(Nat) /\ Len(numeral[n]) = Len(numeral[n \div 10]) + 1 /\ Len(numeral[n \div 10]) \in Nat
    BY <2>4, <2>5, <2>6, AppendProperties, LenProperties
  <2> QED BY <2>2, <2>7
<1> DEFINE S == {n \in Nat : \E m \in Nat : m # n /\ numeral[m] = numeral[n]}
<1> SUFFICES ASSUME S # {} PROVE FALSE
  OBVIOUS
<1>2. PICK n \in S : \A m \in S : n <= m
  <2>1. S \in SUBSET Nat
    OBVIOUS
  <2> HIDE DEF S
  <2> QED BY <2>1, LeastNatural
<1>3. n \in Nat /\ \E m \in Nat : m # n /\ numeral[m] = numeral[n]
  OBVIOUS
<1>4. PICK m \in Nat : m # n /\ numeral[m] = numeral[n]
  BY <1>3
<1>5. \A k \in Nat : k < 10 => numeral[k] = <<k>> /\ Len(numeral[k]) = 1
  <2> SUFFICES ASSUME NEW k \in Nat, k < 10 PROVE numeral[k] = <<k>> /\ Len(numeral[k]) = 1
    OBVIOUS
  <2>1. numeral[k] = <<k>>
    BY NumeralOf
  <2> QED BY <2>1
<1>8. \A k \in Nat : ~(k < 10) => numeral[k] = Append(numeral[k \div 10], k % 10) /\ Len(numeral[k]) > 1
  <2> SUFFICES ASSUME NEW k \in Nat, ~(k < 10)
               PROVE  numeral[k] = Append(numeral[k \div 10], k % 10) /\ Len(numeral[k]) > 1
    OBVIOUS
  <2>1. numeral[k] = Append(numeral[k \div 10], k % 10)
    BY NumeralOf
  <2>2. k \div 10 \in Nat /\ k % 10 \in Nat
    OBVIOUS
  <2>3. numeral[k \div 10] \in Seq(Nat) /\ Len(numeral[k \div 10]) > 0
    BY <1>1, <2>2
  <2>4. Len(numeral[k]) = Len(numeral[k \div 10]) + 1 /\ Len(numeral[k \div 10]) \in Nat
    BY <2>1, <2>2, <2>3, AppendProperties, LenProperties
  <2> QED BY <2>1, <2>3, <2>4
<1>6. CASE n < 10
  <2>1. numeral[n] = <<n>> /\ Len(numeral[n]) = 1
    BY <1>3, <1>5, <1>6
  <2>2. m < 10
    <3>1. ~(Len(numeral[m]) > 1)
      BY <1>4, <2>1
    <3> QED BY <1>4, <1>8, <3>1
  <2>3. numeral[m] = <<m>>
    BY <1>5, <2>2
  <2>4. <<m>>[1] = <<n>>[1]
    BY <1>4, <2>1, <2>3
  <2> QED BY <1>4, <2>4
<1>7. CASE ~(n < 10)
  <2>1. ~(m < 10)
    <3>1. Len(numeral[n]) > 1
      BY <1>3, <1>7, <1>8
    <3>2. Len(numeral[m]) > 1
      BY <1>4, <3>1
    <3> SUFFICES ASSUME m < 10 PROVE FALSE
      OBVIOUS
    <3>3. Len(numeral[m]) = 1
      BY <1>5
    <3> QED BY <3>2, <3>3
  <2>2. n \div 10 \in Nat /\ m \div 10 \in Nat /\ n \div 10 < n /\ n % 10 \in Nat /\ m % 10 \in Nat
    BY <1>3, <1>7
  <2>3. numeral[n \div 10] = numeral[m \div 10] /\ n % 10 = m % 10
    <3>1. Append(numeral[n \div 10], n % 10) = Append(numeral[m \div 10], m % 10)
      <4>1. numeral[n] = Append(numeral[n \div 10], n % 10)
        BY <1>3, <1>7, <1>8
      <4>2. numeral[m] = Append(numeral[m \div 10], m % 10)
        BY <1>8, <2>1
      <4> QED BY <1>4, <4>1, <4>2
    <3>2. numeral[n \div 10] \in Seq(Nat) /\ numeral[m \div 10] \in Seq(Nat)
      BY <1>1, <2>2
    <3> DEFINE s == numeral[n \div 10]  u == numeral[m \div 10]  a == n % 10  b == m % 10
    <3>3. a \in Nat /\ b \in Nat
      BY <2>2
    <3> HIDE DEF s, u, a, b
    <3>4. Append(s, a) = Append(u, b) /\ s \in Seq(Nat) /\ u \in Seq(Nat)
      BY <3>1, <3>2 DEF s, u, a, b
    <3>5. Append(s, a) = Append(u, b) => s = u /\ a = b
      <4>1. s \in Seq(Nat) /\ u \in Seq(Nat) /\ a \in Nat /\ b \in Nat
        BY <3>3, <3>4
      <4> QED BY <4>1, SameAppend
    <3>6. s = u /\ a = b
      BY <3>4, <3>5
    <3> QED BY <3>6 DEF s, u, a, b
  <2>4. n \div 10 = m \div 10
    <3>1. n \div 10 \notin S
      <4> HIDE DEF S
      <4> QED BY <1>2, <1>3, <2>2
    <3> QED BY <2>2, <2>3, <3>1
  <2>5. n = 10 * (n \div 10) + (n % 10) /\ m = 10 * (m \div 10) + (m % 10)
    BY <1>3, Tenth
  <2> QED BY <1>4, <2>3, <2>4, <2>5
<1> QED BY <1>6, <1>7

\* A uint256 is read back from what is written.
LEMMA DecimalReads ==
  \A v \in 0..MaxUint256 : isDecimalUint256(uint256Decimal(v)) /\ decimalUint256(uint256Decimal(v)) = v
<1>1. MaxUint256 \in Nat
  BY ConversionAssumption
<1>2. \A v \in 0..MaxUint256 : v \in Nat
  BY <1>1
<1> TAKE v \in 0..MaxUint256
<1>3. \A n \in 0..MaxUint256 : uint256Decimal(n) = uint256Decimal(v) => n = v
  BY <1>2, NumeralTells DEF uint256Decimal
<1>4. isDecimalUint256(uint256Decimal(v))
  BY DEF isDecimalUint256
<1>5. decimalUint256(uint256Decimal(v)) = v
  BY <1>3 DEF decimalUint256
<1> QED BY <1>4, <1>5

-----------------------------------------------------------------------------
(* The stored form of an event.                                            *)

FieldSet(k) == {Fields[k][i] : i \in 1..Len(Fields[k])}

\* The tables, entry by entry
LEMMA Tables ==
  /\ DOMAIN Fields = Kinds /\ DOMAIN PayloadKind = Kinds
  /\ Fields["Trade"] = <<"yes", "amount", "yesReserve", "noReserve", "resolutionTime">>
  /\ Fields["LiquidityChanged"] = <<"yesReserve", "noReserve", "resolutionTime">>
  /\ Fields["MarketResolved"] = <<"outcome">>
  /\ TopicCount["Trade"] = 3 /\ TopicCount["LiquidityChanged"] = 2 /\ TopicCount["MarketResolved"] = 2
  /\ Type["yes"] = "bool" /\ Type["outcome"] = "bool" /\ Type["amount"] = "uint256"
  /\ Type["yesReserve"] = "uint256" /\ Type["noReserve"] = "uint256" /\ Type["resolutionTime"] = "uint64"
  /\ Largest["bool"] = 1 /\ Largest["uint64"] = MaxUint64 /\ Largest["uint256"] = MaxUint256
  /\ \A k, l \in Kinds : PayloadKind[k] = PayloadKind[l] => k = l
<1>1. DOMAIN Fields = Kinds /\ DOMAIN PayloadKind = Kinds
  BY DEF Fields, PayloadKind, Kinds
<1>2. /\ Fields["Trade"] = <<"yes", "amount", "yesReserve", "noReserve", "resolutionTime">>
      /\ Fields["LiquidityChanged"] = <<"yesReserve", "noReserve", "resolutionTime">>
      /\ Fields["MarketResolved"] = <<"outcome">>
  BY DEF Fields
<1>3. TopicCount["Trade"] = 3 /\ TopicCount["LiquidityChanged"] = 2 /\ TopicCount["MarketResolved"] = 2
  BY DEF TopicCount
<1>4. /\ Type["yes"] = "bool" /\ Type["outcome"] = "bool" /\ Type["amount"] = "uint256"
      /\ Type["yesReserve"] = "uint256" /\ Type["noReserve"] = "uint256" /\ Type["resolutionTime"] = "uint64"
  BY DEF Type
<1>5. Largest["bool"] = 1 /\ Largest["uint64"] = MaxUint64 /\ Largest["uint256"] = MaxUint256
  BY DEF Largest
<1>6. \A k, l \in Kinds : PayloadKind[k] = PayloadKind[l] => k = l
  BY DEF PayloadKind, Kinds
<1> QED BY <1>1, <1>2, <1>3, <1>4, <1>5, <1>6

\* A field has one place.
LEMMA FieldPlaces ==
  ASSUME NEW k \in Kinds
  PROVE  /\ Len(Fields[k]) \in {1, 3, 5}
         /\ \A i, j \in 1..Len(Fields[k]) : Fields[k][i] = Fields[k][j] => i = j
<1>1. CASE k = "Trade"
  <2> DEFINE s == <<"yes", "amount", "yesReserve", "noReserve", "resolutionTime">>
  <2>1. Fields[k] = s
    BY <1>1, Tables
  <2>2. Len(s) = 5 /\ \A i, j \in 1..5 : s[i] = s[j] => i = j
    OBVIOUS
  <2> HIDE DEF s
  <2> QED BY <2>1, <2>2
<1>2. CASE k = "LiquidityChanged"
  <2> DEFINE s == <<"yesReserve", "noReserve", "resolutionTime">>
  <2>1. Fields[k] = s
    BY <1>2, Tables
  <2>2. Len(s) = 3 /\ \A i, j \in 1..3 : s[i] = s[j] => i = j
    OBVIOUS
  <2> HIDE DEF s
  <2> QED BY <2>1, <2>2
<1>3. CASE k = "MarketResolved"
  <2> DEFINE s == <<"outcome">>
  <2>1. Fields[k] = s
    BY <1>3, Tables
  <2>2. Len(s) = 1 /\ \A i, j \in 1..1 : s[i] = s[j] => i = j
    OBVIOUS
  <2> HIDE DEF s
  <2> QED BY <2>1, <2>2
<1> QED BY <1>1, <1>2, <1>3 DEF Kinds

\* A typed event, whatever its arguments, is read back as it was converted.
LEMMA StoredReadsBack ==
  ASSUME NEW k \in Kinds, NEW m, NEW a, NEW args, args = [f \in FieldSet(k) |-> args[f]],
         \A f \in FieldSet(k) : Type[f] = "uint256" => args[f] \in 0..MaxUint256
  PROVE  DecodeEvent(ConvertEvent([kind |-> k, market |-> m, trader |-> a, args |-> args])) =
           [err |-> "ok", event |-> [kind |-> k, market |-> m, trader |-> a, args |-> args]]
<1> DEFINE ev == [kind |-> k, market |-> m, trader |-> a, args |-> args]
           p == [f \in FieldSet(k) |-> JSONValue(f, args[f])]
           stored == [kind |-> PayloadKind[k], market |-> [hex |-> m], trader |-> [hex |-> a], payload |-> p]
           back == [f \in DOMAIN p |-> IF Type[f] = "uint256" THEN decimalUint256(p[f]) ELSE p[f]]
<1>1. DOMAIN args = FieldSet(k)
  <2> DEFINE g == [f \in FieldSet(k) |-> args[f]]
  <2>1. DOMAIN g = FieldSet(k)
    OBVIOUS
  <2>2. args = g
    OBVIOUS
  <2> HIDE DEF g
  <2> QED BY <2>1, <2>2
<1>2. ConvertEvent(ev) = stored
  BY <1>1 DEF ConvertEvent
<1>3. \A f \in FieldSet(k) : /\ Type[f] = "uint256" => isDecimalUint256(p[f]) /\ decimalUint256(p[f]) = args[f]
                             /\ Type[f] # "uint256" => p[f] = args[f]
  <2> TAKE f \in FieldSet(k)
  <2>1. p[f] = JSONValue(f, args[f])
    OBVIOUS
  <2> HIDE DEF p
  <2> QED BY <2>1, DecimalReads DEF JSONValue
<1>4. DOMAIN p = FieldSet(k)
  OBVIOUS
<1>5. back = args
  <2>1. \A f \in FieldSet(k) : (IF Type[f] = "uint256" THEN decimalUint256(p[f]) ELSE p[f]) = args[f]
    <3> HIDE DEF p
    <3> QED BY <1>3
  <2> HIDE DEF p
  <2> QED BY <1>4, <2>1
<1>6. Readable(k, p)
  <2> HIDE DEF p
  <2>1. DOMAIN p = {Fields[k][i] : i \in 1..Len(Fields[k])}
    BY <1>4 DEF FieldSet
  <2>2. \A f \in DOMAIN p : Type[f] = "uint256" => isDecimalUint256(p[f])
    BY <1>3, <1>4
  <2> QED BY <2>1, <2>2 DEF Readable
<1>7. /\ ~(\A l \in DOMAIN PayloadKind : PayloadKind[l] # stored.kind)
      /\ (CHOOSE l \in DOMAIN PayloadKind : PayloadKind[l] = stored.kind) = k
  <2>1. stored.kind = PayloadKind[k]
    OBVIOUS
  <2> HIDE DEF stored
  <2> QED BY <2>1, Tables
<1>8. stored.payload = p /\ stored.market.hex = m /\ stored.trader.hex = a
  OBVIOUS
<1> HIDE DEF stored, p, ev
<1>9. DecodeEvent(stored) = [err |-> "ok", event |-> [kind |-> k, market |-> stored.market.hex,
     trader |-> stored.trader.hex, args |-> back]]
  BY <1>6, <1>7, <1>8 DEF DecodeEvent
<1> HIDE DEF back
<1>10. DecodeEvent(stored) = [err |-> "ok", event |-> [kind |-> k, market |-> m, trader |-> a, args |-> args]]
  BY <1>5, <1>8, <1>9
<1> QED BY <1>2, <1>10 DEF ev


-----------------------------------------------------------------------------
\* The words of an event fit their types.
LEMMA WordsFit ==
  ASSUME NEW e, Written(e)
  PROVE  /\ e.kind \in Kinds /\ e.block \in Nat /\ e.log \in Nat
         /\ e.yes \in 0..MaxUint256 /\ e.no \in 0..MaxUint256 /\ e.resolution \in 0..MaxUint64
         /\ e.kind = "Trade" => e.trade.amount \in 0..MaxUint256
<1>1. /\ e.kind \in Kinds /\ e.block \in Nat /\ e.log \in Nat /\ e.resolution \in ResolutionTime \cup {0}
  BY DEF Written, Event
<1>2. 0 \in 0..MaxUint64 /\ 0 \in 0..MaxUint256
  BY ConversionAssumption
<1>3. e.resolution \in 0..MaxUint64
  <2>1. \A t \in ResolutionTime : t \in 0..MaxUint64
    BY DataFits
  <2> QED BY <1>1, <1>2, <2>1
<1>4. e.yes \in 0..MaxUint256 /\ e.no \in 0..MaxUint256
  <2>1. CASE e.kind = "MarketResolved"
    BY <1>2, <2>1 DEF Written
  <2>2. CASE e.kind # "MarketResolved"
    <3> DEFINE pair == <<e.yes, e.no>>
    <3>1. pair[1] = e.yes /\ pair[2] = e.no
      OBVIOUS
    <3>2. pair \in Reserves
      BY <2>2 DEF Written
    <3> HIDE DEF pair
    <3>3. pair[1] \in 0..MaxUint256 /\ pair[2] \in 0..MaxUint256
      BY <3>2, DataFits
    <3> QED BY <3>1, <3>3
  <2> QED BY <2>1, <2>2
<1>5. e.kind = "Trade" => e.trade.amount \in 0..MaxUint256
  <2> SUFFICES ASSUME e.kind = "Trade" PROVE e.trade.amount \in 0..MaxUint256
    OBVIOUS
  <2>1. e.trade \in Trades
    BY DEF Written
  <2> QED BY <2>1, DataFits
<1> QED BY <1>1, <1>3, <1>4, <1>5

\* One word per field, within its type
DataOk(k, data) ==
  /\ data \in Seq(Nat) /\ Len(data) = Len(Fields[k])
  /\ \A i \in 1..Len(data) : data[i] <= Largest[Type[Fields[k][i]]]

LEMMA ArgsFit ==
  ASSUME NEW e, Written(e)
  PROVE  /\ DataOk(e.kind, Args(e))
         /\ LET d == Args(e) IN
            /\ e.kind = "Trade" => /\ (d[1] = 1 <=> e.trade.direction = TradeYES)
                                   /\ d[2] = e.trade.amount /\ d[3] = e.yes /\ d[4] = e.no /\ d[5] = e.resolution
            /\ e.kind = "LiquidityChanged" => d[1] = e.yes /\ d[2] = e.no /\ d[3] = e.resolution
            /\ e.kind = "MarketResolved" => (d[1] = 1 <=> e.outcome)
<1>0. /\ MaxUint64 \in Nat /\ MaxUint256 \in Nat /\ 1 <= MaxUint64 /\ MaxUint64 <= MaxUint256
  BY ConversionAssumption
<1>1. /\ e.kind \in Kinds
      /\ e.yes \in 0..MaxUint256 /\ e.no \in 0..MaxUint256 /\ e.resolution \in 0..MaxUint64
      /\ e.kind = "Trade" => e.trade.amount \in 0..MaxUint256
  BY WordsFit
<1>2. CASE e.kind = "Trade"
  <2> DEFINE b == IF e.trade.direction = TradeYES THEN 1 ELSE 0
             s == <<"yes", "amount", "yesReserve", "noReserve", "resolutionTime">>
             d == <<b, e.trade.amount, e.yes, e.no, e.resolution>>
  <2>1. Args(e) = d
    BY <1>2 DEF Args
  <2>2. b \in 0..1
    OBVIOUS
  <2>3. b = 1 <=> e.trade.direction = TradeYES
    OBVIOUS
  <2> HIDE DEF b
  <2>4. /\ d \in Seq(Nat) /\ Len(d) = 5
        /\ d[1] = b /\ d[2] = e.trade.amount /\ d[3] = e.yes /\ d[4] = e.no /\ d[5] = e.resolution
    BY <1>0, <1>1, <1>2, <2>2
  <2>5. Len(s) = 5 /\ s[1] = "yes" /\ s[2] = "amount" /\ s[3] = "yesReserve" /\ s[4] = "noReserve"
       /\ s[5] = "resolutionTime"
    OBVIOUS
  <2>6. Fields[e.kind] = s
    BY <1>2, Tables
  <2> HIDE DEF d, s
  <2>7. /\ Largest[Type[s[1]]] = 1 /\ Largest[Type[s[2]]] = MaxUint256 /\ Largest[Type[s[3]]] = MaxUint256
        /\ Largest[Type[s[4]]] = MaxUint256 /\ Largest[Type[s[5]]] = MaxUint64
    BY <2>5, Tables
  <2>8. \A i \in 1..5 : d[i] <= Largest[Type[s[i]]]
    <3>1. /\ d[1] <= 1 /\ d[2] <= MaxUint256 /\ d[3] <= MaxUint256 /\ d[4] <= MaxUint256 /\ d[5] <= MaxUint64
      BY <1>0, <1>1, <1>2, <2>2, <2>4
    <3>2. \A i \in 1..5 : i = 1 \/ i = 2 \/ i = 3 \/ i = 4 \/ i = 5
      OBVIOUS
    <3> QED BY <2>7, <3>1, <3>2
  <2>9. DataOk(e.kind, d)
    BY <2>4, <2>5, <2>6, <2>8 DEF DataOk
  <2> QED BY <1>2, <2>1, <2>3, <2>4, <2>9
<1>3. CASE e.kind = "LiquidityChanged"
  <2> DEFINE s == <<"yesReserve", "noReserve", "resolutionTime">>  d == <<e.yes, e.no, e.resolution>>
  <2>1. Args(e) = d
    BY <1>3 DEF Args
  <2>4. /\ d \in Seq(Nat) /\ Len(d) = 3 /\ d[1] = e.yes /\ d[2] = e.no /\ d[3] = e.resolution
    BY <1>0, <1>1
  <2>5. Len(s) = 3 /\ s[1] = "yesReserve" /\ s[2] = "noReserve" /\ s[3] = "resolutionTime"
    OBVIOUS
  <2>6. Fields[e.kind] = s
    BY <1>3, Tables
  <2> HIDE DEF d, s
  <2>7. Largest[Type[s[1]]] = MaxUint256 /\ Largest[Type[s[2]]] = MaxUint256 /\ Largest[Type[s[3]]] = MaxUint64
    BY <2>5, Tables
  <2>8. \A i \in 1..3 : d[i] <= Largest[Type[s[i]]]
    <3>1. d[1] <= MaxUint256 /\ d[2] <= MaxUint256 /\ d[3] <= MaxUint64
      BY <1>0, <1>1, <2>4
    <3>2. \A i \in 1..3 : i = 1 \/ i = 2 \/ i = 3
      OBVIOUS
    <3> QED BY <2>7, <3>1, <3>2
  <2>9. DataOk(e.kind, d)
    BY <2>4, <2>5, <2>6, <2>8 DEF DataOk
  <2> QED BY <1>3, <2>1, <2>4, <2>9
<1>4. CASE e.kind = "MarketResolved"
  <2> DEFINE b == IF e.outcome THEN 1 ELSE 0  s == <<"outcome">>  d == <<b>>
  <2>1. Args(e) = d
    BY <1>4 DEF Args
  <2>2. b \in 0..1
    OBVIOUS
  <2>3. b = 1 <=> e.outcome
    OBVIOUS
  <2> HIDE DEF b
  <2>4. d \in Seq(Nat) /\ Len(d) = 1 /\ d[1] = b
    BY <2>2
  <2>5. Len(s) = 1 /\ s[1] = "outcome"
    OBVIOUS
  <2>6. Fields[e.kind] = s
    BY <1>4, Tables
  <2> HIDE DEF d, s
  <2>7. Largest[Type[s[1]]] = 1
    BY <2>5, Tables
  <2>8. \A i \in 1..1 : d[i] <= Largest[Type[s[i]]]
    BY <2>2, <2>4, <2>7
  <2>9. DataOk(e.kind, d)
    BY <2>4, <2>5, <2>6, <2>8 DEF DataOk
  <2> QED BY <1>4, <2>1, <2>3, <2>4, <2>9
<1> QED BY <1>1, <1>2, <1>3, <1>4 DEF Kinds

\* The topics of an event of kind k
TopicsOk(k, topics) ==
  /\ Len(topics) = TopicCount[k] /\ DOMAIN topics = 1..Len(topics) /\ topics[1] = k
  /\ k = "Trade" => topics[3].padding = 0

LEMMA RawLogFits ==
  ASSUME NEW e, Written(e)
  PROVE  LET l == RawLog(e) IN
         /\ l = [address |-> l.address, removed |-> l.removed, topics |-> l.topics, data |-> l.data,
                 number |-> l.number, hash |-> l.hash, tx |-> l.tx, index |-> l.index]
         /\ l.address = Contract /\ l.removed = FALSE /\ l.data = Args(e)
         /\ l.number = e.block /\ l.hash = <<"canonical", e.block>> /\ l.tx = e.log \div 2 /\ l.index = 2 * e.log
         /\ TopicsOk(e.kind, l.topics) /\ l.topics[2] = e.market
<1> DEFINE l == RawLog(e)
           topics == IF e.kind = "Trade" THEN <<e.kind, e.market, [padding |-> 0, address |-> "trader"]>>
                     ELSE <<e.kind, e.market>>
           hash == Header(e.block).hash  data == Args(e)
<1>1. l = [address |-> Contract, removed |-> FALSE, topics |-> topics, data |-> data,
           number |-> e.block, hash |-> hash, tx |-> e.log \div 2, index |-> 2 * e.log]
  BY DEF RawLog
<1>2. hash = <<"canonical", e.block>>
  BY DEF Header
<1>3. TopicsOk(e.kind, topics) /\ topics[2] = e.market
  <2>1. e.kind \in Kinds
    BY WordsFit
  <2>2. CASE e.kind = "Trade"
    <3> DEFINE s == <<e.kind, e.market, [padding |-> 0, address |-> "trader"]>>
    <3>1. topics = s
      BY <2>2
    <3>2. Len(s) = 3 /\ DOMAIN s = 1..3 /\ s[1] = e.kind /\ s[2] = e.market /\ s[3].padding = 0
      OBVIOUS
    <3> HIDE DEF s, topics
    <3> QED BY <2>2, <3>1, <3>2, Tables DEF TopicsOk
  <2>3. CASE e.kind # "Trade"
    <3> DEFINE s == <<e.kind, e.market>>
    <3>1. topics = s
      BY <2>3
    <3>2. Len(s) = 2 /\ DOMAIN s = 1..2 /\ s[1] = e.kind /\ s[2] = e.market
      OBVIOUS
    <3>3. TopicCount[e.kind] = 2
      BY <2>1, <2>3, Tables DEF Kinds
    <3> HIDE DEF s, topics
    <3> QED BY <2>3, <3>1, <3>2, <3>3 DEF TopicsOk
  <2> QED BY <2>2, <2>3
<1> HIDE DEF l, topics, hash, data
<1>4. /\ l = [address |-> l.address, removed |-> l.removed, topics |-> l.topics, data |-> l.data,
              number |-> l.number, hash |-> l.hash, tx |-> l.tx, index |-> l.index]
      /\ l.address = Contract /\ l.removed = FALSE /\ l.topics = topics /\ l.data = data
      /\ l.number = e.block /\ l.hash = hash /\ l.tx = e.log \div 2 /\ l.index = 2 * e.log
  BY <1>1
<1> QED BY <1>2, <1>3, <1>4 DEF l, data

\* A log with such topics and words is decoded.
LEMMA Decodes ==
  ASSUME NEW k \in Kinds, NEW l, l.address = Contract, TopicsOk(k, l.topics), DataOk(k, l.data)
  PROVE  Decode(l) = [err |-> "ok", event |-> Typed(k, l.topics, l.data)]
<1>1. TopicCount[k] \in {2, 3}
  BY Tables DEF Kinds
<1>2. l.topics # <<>> /\ l.topics[1] = k /\ k \in DOMAIN Fields
  BY <1>1, Tables DEF TopicsOk
<1>3. unpackIndexed(k, l.topics) /\ Len(l.topics) = TopicCount[k]
  BY DEF unpackIndexed, TopicsOk
<1>4. unpackData(k, l.data)
  BY DEF unpackData, DataOk
<1> QED BY <1>2, <1>3, <1>4 DEF Decode


\* The arguments of a typed event, by field
LEMMA TypedArgs ==
  ASSUME NEW k \in Kinds, NEW topics, NEW data
  PROVE  LET a == Typed(k, topics, data).args IN
         /\ a = [f \in FieldSet(k) |-> a[f]]
         /\ \A i \in 1..Len(Fields[k]) : Fields[k][i] \in FieldSet(k)
              /\ a[Fields[k][i]] = Value(Type[Fields[k][i]], data[i])
<1> DEFINE a == [f \in FieldSet(k) |-> Value(Type[f], data[CHOOSE i \in 1..Len(Fields[k]) : Fields[k][i] = f])]
<1>1. Typed(k, topics, data).args = a
  BY DEF Typed, FieldSet
<1>2. a = [f \in FieldSet(k) |-> a[f]]
  OBVIOUS
<1>3. ASSUME NEW i \in 1..Len(Fields[k])
      PROVE  Fields[k][i] \in FieldSet(k) /\ a[Fields[k][i]] = Value(Type[Fields[k][i]], data[i])
  <2> DEFINE f == Fields[k][i]
  <2>1. f \in FieldSet(k)
    BY DEF FieldSet
  <2>2. (CHOOSE j \in 1..Len(Fields[k]) : Fields[k][j] = f) = i
    BY FieldPlaces
  <2>3. a[f] = Value(Type[f], data[CHOOSE j \in 1..Len(Fields[k]) : Fields[k][j] = f])
    BY <2>1
  <2> HIDE DEF a, f
  <2>4. a[f] = Value(Type[f], data[i])
    BY <2>2, <2>3
  <2> QED BY <2>1, <2>4 DEF f
<1> HIDE DEF a
<1> QED BY <1>1, <1>2, <1>3

\* An event is stored and read back as the contract wrote it.
LEMMA EventReadsBack ==
  ASSUME NEW e, Written(e)
  PROVE  LET l == RawLog(e) IN
         Decode(l).err = "ok" /\ Received(StoredEvent(l, Decode(l)), e.block, e.time) = e
<1> DEFINE l == RawLog(e)  k == e.kind  d == Args(e)  ty == Typed(k, l.topics, d)  a == ty.args
           stored == StoredEvent(l, Decode(l))  trader == ty.trader
           arg(f, default) == IF f \in DOMAIN a THEN a[f] ELSE default
<1>1. /\ l.address = Contract /\ l.data = d /\ l.index = 2 * e.log /\ TopicsOk(k, l.topics) /\ l.topics[2] = e.market
  BY RawLogFits
<1>2. /\ k \in Kinds /\ e.block \in Nat /\ e.log \in Nat
      /\ e.yes \in 0..MaxUint256 /\ e.no \in 0..MaxUint256 /\ e.resolution \in 0..MaxUint64
      /\ k = "Trade" => e.trade.amount \in 0..MaxUint256
  BY WordsFit
<1>3. /\ DataOk(k, d)
      /\ k = "Trade" => /\ (d[1] = 1 <=> e.trade.direction = TradeYES)
                        /\ d[2] = e.trade.amount /\ d[3] = e.yes /\ d[4] = e.no /\ d[5] = e.resolution
      /\ k = "LiquidityChanged" => d[1] = e.yes /\ d[2] = e.no /\ d[3] = e.resolution
      /\ k = "MarketResolved" => (d[1] = 1 <=> e.outcome)
  BY ArgsFit
<1> HIDE DEF l, k, d
<1>4. Decode(l) = [err |-> "ok", event |-> ty]
  BY <1>1, <1>2, <1>3, Decodes
<1>5. /\ a = [f \in FieldSet(k) |-> a[f]]
      /\ \A i \in 1..Len(Fields[k]) : Fields[k][i] \in FieldSet(k) /\ a[Fields[k][i]] = Value(Type[Fields[k][i]], d[i])
  BY <1>2, TypedArgs
<1>6. ty = [kind |-> k, market |-> e.market, trader |-> trader, args |-> a]
  BY <1>1 DEF Typed
<1> HIDE DEF ty, a, trader
<1>7. stored = [index |-> l.index, event |-> ConvertEvent(ty)]
  BY <1>4 DEF StoredEvent
<1>8. \A f \in FieldSet(k) : Type[f] = "uint256" => a[f] \in 0..MaxUint256
  <2> SUFFICES ASSUME NEW i \in 1..Len(Fields[k]), Type[Fields[k][i]] = "uint256"
       PROVE a[Fields[k][i]] \in 0..MaxUint256
    BY DEF FieldSet
  <2>1. a[Fields[k][i]] = d[i]
    BY <1>5 DEF Value
  <2>2. d[i] \in Nat /\ d[i] <= MaxUint256
    <3>1. i \in 1..Len(d) /\ d \in Seq(Nat)
      BY <1>3 DEF DataOk
    <3>2. d[i] <= Largest["uint256"]
      BY <1>3, <3>1 DEF DataOk
    <3> QED BY <3>1, <3>2, ElementOfSeq, Tables
  <2>3. MaxUint256 \in Nat
    BY ConversionAssumption
  <2> QED BY <2>1, <2>2, <2>3
<1>9. DecodeEvent(stored.event) = [err |-> "ok", event |-> ty]
  <2>1. DecodeEvent(ConvertEvent([kind |-> k, market |-> e.market, trader |-> trader, args |-> a])) =
          [err |-> "ok", event |-> [kind |-> k, market |-> e.market, trader |-> trader, args |-> a]]
    BY <1>2, <1>5, <1>8, StoredReadsBack
  <2>2. stored.event = ConvertEvent(ty)
    BY <1>7
  <2> HIDE DEF stored
  <2> QED BY <1>6, <2>1, <2>2
<1>10. stored.index \div 2 = e.log
  <2>1. stored.index = 2 * e.log
    BY <1>1, <1>7
  <2> HIDE DEF stored
  <2> QED BY <1>2, <2>1
<1>11. DOMAIN a = FieldSet(k)
  <2> DEFINE g == [f \in FieldSet(k) |-> a[f]]
  <2>1. DOMAIN g = FieldSet(k)
    OBVIOUS
  <2>2. a = g
    BY <1>5
  <2> HIDE DEF g
  <2> QED BY <2>1, <2>2
<1> DEFINE r == Received(stored, e.block, e.time)
           tr == IF k # "Trade" THEN NoTrade
                  ELSE [direction |-> IF a.yes THEN TradeYES ELSE TradeNO, amount |-> a.amount]
<1>12. r = [kind |-> k, market |-> e.market, block |-> e.block, log |-> e.log, time |-> e.time,
            yes |-> arg("yesReserve", 0), no |-> arg("noReserve", 0), resolution |-> arg("resolutionTime", 0),
            outcome |-> arg("outcome", FALSE), trade |-> tr]
  <2>1. DecodeEvent(stored.event).event = ty
    BY <1>9
  <2>2. ty.kind = k /\ ty.market = e.market /\ ty.args = a
    BY <1>6
  <2> HIDE DEF stored
  <2> QED BY <1>10, <2>1, <2>2 DEF Received
<1>13. /\ arg("yesReserve", 0) = e.yes /\ arg("noReserve", 0) = e.no /\ arg("resolutionTime", 0) = e.resolution
       /\ arg("outcome", FALSE) = e.outcome /\ tr = e.trade
  <2>1. CASE k = "Trade"
    <3> DEFINE s == <<"yes", "amount", "yesReserve", "noReserve", "resolutionTime">>
    <3>1. Fields[k] = s
      BY <2>1, Tables
    <3>2. Len(s) = 5 /\ s[1] = "yes" /\ s[2] = "amount" /\ s[3] = "yesReserve" /\ s[4] = "noReserve"
         /\ s[5] = "resolutionTime"
      OBVIOUS
    <3>3. FieldSet(k) = {"yes", "amount", "yesReserve", "noReserve", "resolutionTime"}
      <4>1. FieldSet(k) = {s[i] : i \in 1..5}
        BY <3>1, <3>2 DEF FieldSet
      <4>2. 1..5 = {1, 2, 3, 4, 5}
        OBVIOUS
      <4> HIDE DEF s
      <4> QED BY <3>2, <4>1, <4>2
    <3> HIDE DEF s
    <3>4. \A i \in 1..5 : a[s[i]] = Value(Type[s[i]], d[i])
      BY <1>5, <3>1, <3>2
    <3>5. /\ a["yes"] = (d[1] = 1) /\ a["amount"] = d[2] /\ a["yesReserve"] = d[3] /\ a["noReserve"] = d[4]
          /\ a["resolutionTime"] = d[5]
      BY <3>2, <3>4, Tables DEF Value
    <3>6. /\ arg("yesReserve", 0) = e.yes /\ arg("noReserve", 0) = e.no /\ arg("resolutionTime", 0) = e.resolution
          /\ arg("outcome", FALSE) = FALSE
      BY <1>3, <1>11, <2>1, <3>3, <3>5
    <3>7. e.outcome = FALSE
      <4>1. e.outcome \in BOOLEAN /\ ~e.outcome
        BY <2>1 DEF Written, Event, k
      <4> QED BY <4>1
    <3>8. tr = e.trade
      <4>1. e.trade \in Trades
        BY <2>1 DEF Written, k
      <4>2. e.trade \in [direction: {TradeYES, TradeNO}, amount: 0..MaxUint256]
        BY <4>1, DatasetAssumption
      <4>3. e.trade = [direction |-> e.trade.direction, amount |-> e.trade.amount]
        BY <4>2
      <4>4. (IF a.yes THEN TradeYES ELSE TradeNO) = e.trade.direction
        <5>1. a.yes <=> e.trade.direction = TradeYES
          BY <1>3, <2>1, <3>5
        <5>2. e.trade.direction \in {TradeYES, TradeNO}
          BY <4>2
        <5> QED BY <5>1, <5>2
      <4>5. a.amount = e.trade.amount
        BY <1>3, <2>1, <3>5
      <4> QED BY <2>1, <4>3, <4>4, <4>5
    <3> QED BY <3>6, <3>7, <3>8
  <2>2. CASE k = "LiquidityChanged"
    <3> DEFINE s == <<"yesReserve", "noReserve", "resolutionTime">>
    <3>1. Fields[k] = s
      BY <2>2, Tables
    <3>2. Len(s) = 3 /\ s[1] = "yesReserve" /\ s[2] = "noReserve" /\ s[3] = "resolutionTime"
      OBVIOUS
    <3>3. FieldSet(k) = {"yesReserve", "noReserve", "resolutionTime"}
      <4>1. FieldSet(k) = {s[i] : i \in 1..3}
        BY <3>1, <3>2 DEF FieldSet
      <4>2. 1..3 = {1, 2, 3}
        OBVIOUS
      <4> HIDE DEF s
      <4> QED BY <3>2, <4>1, <4>2
    <3> HIDE DEF s
    <3>4. \A i \in 1..3 : a[s[i]] = Value(Type[s[i]], d[i])
      BY <1>5, <3>1, <3>2
    <3>5. a["yesReserve"] = d[1] /\ a["noReserve"] = d[2] /\ a["resolutionTime"] = d[3]
      BY <3>2, <3>4, Tables DEF Value
    <3>6. /\ arg("yesReserve", 0) = e.yes /\ arg("noReserve", 0) = e.no /\ arg("resolutionTime", 0) = e.resolution
          /\ arg("outcome", FALSE) = FALSE
      BY <1>3, <1>11, <2>2, <3>3, <3>5
    <3>7. e.outcome = FALSE
      <4>1. e.outcome \in BOOLEAN /\ ~e.outcome
        BY <2>2 DEF Written, Event, k
      <4> QED BY <4>1
    <3>8. tr = e.trade
      BY <2>2 DEF Written, k
    <3> QED BY <3>6, <3>7, <3>8
  <2>3. CASE k = "MarketResolved"
    <3> DEFINE s == <<"outcome">>
    <3>1. Fields[k] = s
      BY <2>3, Tables
    <3>2. Len(s) = 1 /\ s[1] = "outcome"
      OBVIOUS
    <3>3. FieldSet(k) = {"outcome"}
      <4>1. FieldSet(k) = {s[i] : i \in 1..1}
        BY <3>1, <3>2 DEF FieldSet
      <4>2. 1..1 = {1}
        OBVIOUS
      <4> HIDE DEF s
      <4> QED BY <3>2, <4>1, <4>2
    <3> HIDE DEF s
    <3>4. a[s[1]] = Value(Type[s[1]], d[1])
      BY <1>5, <3>1, <3>2
    <3>5. a["outcome"] = (d[1] = 1)
      BY <3>2, <3>4, Tables DEF Value
    <3>6. arg("yesReserve", 0) = 0 /\ arg("noReserve", 0) = 0 /\ arg("resolutionTime", 0) = 0
         /\ arg("outcome", FALSE) = a["outcome"]
      BY <1>11, <3>3
    <3>7. a["outcome"] = e.outcome
      <4>1. e.outcome \in BOOLEAN
        BY DEF Written, Event
      <4>2. e.outcome = TRUE \/ e.outcome = FALSE
        BY <4>1
      <4>3. e.outcome = (d[1] = 1)
        BY <1>3, <2>3, <4>2
      <4> QED BY <3>5, <4>3
    <3>8. e.yes = 0 /\ e.no = 0 /\ e.resolution = 0 /\ tr = e.trade
      BY <2>3 DEF Written, k
    <3> QED BY <3>6, <3>7, <3>8
  <2> QED BY <1>2, <2>1, <2>2, <2>3 DEF Kinds
<1>14. e = [kind |-> k, market |-> e.market, block |-> e.block, log |-> e.log, time |-> e.time,
            yes |-> e.yes, no |-> e.no, resolution |-> e.resolution, outcome |-> e.outcome, trade |-> e.trade]
  BY DEF Written, Event, k
<1> HIDE DEF r, arg, tr
<1>15. r = e
  BY <1>12, <1>13, <1>14
<1>16. Decode(l).err = "ok"
  BY <1>4
<1> HIDE DEF stored
<1> QED BY <1>15, <1>16 DEF r, stored, l


-----------------------------------------------------------------------------
(* Replies that are refused.                                               *)

LEMMA BadTopicsFail ==
  ASSUME NEW k \in Kinds, NEW topics, TopicsOk(k, topics), NEW bad \in BadTopics(topics), NEW l, l.topics = bad
  PROVE  Decode(l).err # "ok"
<1>1. TopicCount[k] \in {2, 3} /\ (k # "Trade" => TopicCount[k] = 2) /\ (k = "Trade" => TopicCount[k] = 3)
     /\ DOMAIN Fields = Kinds
  BY Tables DEF Kinds
<1>2. Len(topics) \in {2, 3} /\ DOMAIN topics = 1..Len(topics) /\ topics[1] = k /\ Len(topics) = TopicCount[k]
  BY <1>1 DEF TopicsOk
<1>3. \/ l.topics = <<>> \/ l.topics[1] \notin Kinds
      \/ l.topics[1] = k /\ (Len(l.topics) # TopicCount[k] \/ ~unpackIndexed(k, l.topics))
  <2>1. CASE bad = <<>>
    BY <2>1
  <2>2. CASE bad = [topics EXCEPT ![1] = "Other"]
    <3>1. bad[1] = "Other"
      BY <1>2, <2>2
    <3> QED BY <3>1 DEF Kinds
  <2>3. CASE bad = Append(topics, "extra")
    <3>1. Len(bad) = Len(topics) + 1 /\ bad[1] = topics[1]
      <4>1. 1 \in 1..Len(topics) /\ Len(topics) \in Nat
        BY <1>2
      <4> QED BY <1>2, <2>3, <4>1, AppendAny
    <3>2. Len(bad) # TopicCount[k]
      BY <1>2, <3>1
    <3> QED BY <1>2, <3>1, <3>2
  <2>4. ASSUME NEW i \in 3..Len(topics), bad = [topics EXCEPT ![i] = [padding |-> 1, address |-> "trader"]]
        PROVE  l.topics[1] = k /\ ~unpackIndexed(k, l.topics)
    <3>1. i = 3 /\ Len(topics) = 3
      BY <1>2
    <3>2. k = "Trade"
      BY <1>1, <1>2, <3>1
    <3>3. bad[1] = k /\ bad[3] = [padding |-> 1, address |-> "trader"]
      BY <1>2, <2>4, <3>1
    <3>4. bad[3].padding = 1
      BY <3>3
    <3> QED BY <3>2, <3>3, <3>4 DEF unpackIndexed
  <2> QED BY <2>1, <2>2, <2>3, <2>4 DEF BadTopics
<1> QED BY <1>1, <1>3 DEF Decode, Failed

LEMMA BadDataFails ==
  ASSUME NEW k \in Kinds, NEW data, DataOk(k, data), NEW bad \in BadData(data), NEW l, l.data = bad, l.topics[1] = k
  PROVE  Decode(l).err # "ok"
<1>1. /\ MaxUint64 \in Nat /\ MaxUint256 \in Nat /\ 1 < MaxUint256 /\ MaxUint64 < MaxUint256
  BY ConversionAssumption, DatasetAssumption
<1> DEFINE n == Len(data)
<1>2. data \in Seq(Nat) /\ n = Len(Fields[k]) /\ n \in {1, 3, 5}
  BY FieldPlaces DEF DataOk
<1>3. Largest[Type[Fields[k][n]]] \in Nat /\ Largest[Type[Fields[k][n]]] < MaxUint256
  <2>1. CASE k = "Trade"
    <3>1. Len(<<"yes", "amount", "yesReserve", "noReserve", "resolutionTime">>) = 5
      OBVIOUS
    <3>2. <<"yes", "amount", "yesReserve", "noReserve", "resolutionTime">>[5] = "resolutionTime"
      OBVIOUS
    <3> QED BY <1>1, <1>2, <2>1, <3>1, <3>2, Tables
  <2>2. CASE k = "LiquidityChanged"
    <3>1. Len(<<"yesReserve", "noReserve", "resolutionTime">>) = 3
      OBVIOUS
    <3>2. <<"yesReserve", "noReserve", "resolutionTime">>[3] = "resolutionTime"
      OBVIOUS
    <3> QED BY <1>1, <1>2, <2>2, <3>1, <3>2, Tables
  <2>3. CASE k = "MarketResolved"
    <3>1. Len(<<"outcome">>) = 1 /\ <<"outcome">>[1] = "outcome"
      OBVIOUS
    <3> QED BY <1>1, <1>2, <2>3, <3>1, Tables
  <2> QED BY <2>1, <2>2, <2>3 DEF Kinds
<1>4. ~unpackData(k, bad)
  <2>1. CASE bad = Append(data, 0)
    <3>1. Len(bad) = n + 1
      BY <1>2, <2>1
    <3>2. Len(bad) # Len(Fields[k])
      BY <1>2, <3>1
    <3> QED BY <3>2 DEF unpackData
  <2>2. CASE bad = Tail(data)
    <3>1. Len(bad) = n - 1
      <4>1. Len(<<>>) = 0
        OBVIOUS
      <4>2. data # <<>>
        <5>1. n \in {1, 3, 5}
          BY <1>2
        <5> HIDE DEF n
        <5>2. n # 0
          BY <5>1
        <5> QED BY <4>1, <5>2, Zenon DEF n
      <4>3. Len(Tail(data)) = Len(data) - 1
        BY <1>2, <4>2, HeadTailProperties
      <4> QED BY <2>2, <4>3
    <3>2. Len(bad) # Len(Fields[k])
      BY <1>2, <3>1
    <3> QED BY <3>2 DEF unpackData
  <2>3. CASE bad = [data EXCEPT ![n] = MaxUint256]
    <3>1. bad[n] = MaxUint256 /\ Len(bad) = n /\ n \in 1..n
      BY <1>2, <2>3
    <3>2. ~(bad[n] <= Largest[Type[Fields[k][n]]])
      <4> DEFINE m == Largest[Type[Fields[k][n]]]
      <4>1. m \in Nat /\ m < MaxUint256
        BY <1>3
      <4> HIDE DEF m
      <4> QED BY <1>1, <3>1, <4>1 DEF m
    <3> QED BY <3>1, <3>2 DEF unpackData
  <2> QED BY <2>1, <2>2, <2>3 DEF BadData
<1> QED BY <1>4 DEF Decode, Failed

\* A log that is not the block's, not the contract's or not as it writes them
LEMMA BadLogFails ==
  ASSUME NEW e, Written(e), NEW l \in BadLogs(RawLog(e))
  PROVE  /\ l.tx = e.log \div 2 /\ l.index = 2 * e.log
         /\ ~Belongs(l, Header(e.block)) \/ Decode(l).err # "ok"
<1> DEFINE g == RawLog(e)
<1>1. /\ g = [address |-> g.address, removed |-> g.removed, topics |-> g.topics, data |-> g.data,
              number |-> g.number, hash |-> g.hash, tx |-> g.tx, index |-> g.index]
      /\ g.address = Contract /\ g.removed = FALSE /\ g.data = Args(e)
      /\ g.number = e.block /\ g.hash = <<"canonical", e.block>> /\ g.tx = e.log \div 2 /\ g.index = 2 * e.log
      /\ TopicsOk(e.kind, g.topics)
  BY RawLogFits
<1>2. e.kind \in Kinds /\ e.block \in Nat
  BY WordsFit
<1>3. DataOk(e.kind, g.data)
  BY <1>1, ArgsFit
<1>4. Header(e.block).number = e.block /\ Header(e.block).hash = <<"canonical", e.block>>
  BY DEF Header
<1> HIDE DEF g
<1>5. CASE l = [g EXCEPT !.hash = <<"orphaned", g.number>>]
  <2>1. l.hash = <<"orphaned", g.number>> /\ l.tx = g.tx /\ l.index = g.index
    BY <1>1, <1>5
  <2>2. <<"orphaned", g.number>> # <<"canonical", e.block>>
    OBVIOUS
  <2> QED BY <1>1, <1>4, <2>1, <2>2 DEF Belongs
<1>6. CASE l = [g EXCEPT !.number = @ + 1]
  <2>1. l.number = g.number + 1 /\ l.tx = g.tx /\ l.index = g.index
    BY <1>1, <1>6
  <2>2. l.number # e.block
    BY <1>1, <1>2, <2>1
  <2> QED BY <1>1, <1>4, <2>1, <2>2 DEF Belongs
<1>7. CASE l = [g EXCEPT !.removed = TRUE]
  <2>1. l.removed = TRUE /\ l.tx = g.tx /\ l.index = g.index
    BY <1>1, <1>7
  <2> QED BY <1>1, <2>1 DEF Belongs
<1>8. CASE l = [g EXCEPT !.address = "another"]
  <2>1. l.address = "another" /\ l.tx = g.tx /\ l.index = g.index
    BY <1>1, <1>8
  <2>2. "another" # Contract
    BY DatasetAssumption
  <2>3. Decode(l).err # "ok"
    BY <2>1, <2>2 DEF Decode, Failed
  <2> QED BY <1>1, <2>1, <2>3
<1>9. ASSUME NEW bad \in BadTopics(g.topics), l = [g EXCEPT !.topics = bad]
      PROVE  l.tx = g.tx /\ l.index = g.index /\ Decode(l).err # "ok"
  <2>1. l.topics = bad /\ l.tx = g.tx /\ l.index = g.index
    BY <1>1, <1>9
  <2> QED BY <1>1, <1>2, <2>1, BadTopicsFail
<1>10. ASSUME NEW bad \in BadData(g.data), l = [g EXCEPT !.data = bad]
       PROVE  l.tx = g.tx /\ l.index = g.index /\ Decode(l).err # "ok"
  <2>1. l.data = bad /\ l.topics = g.topics /\ l.tx = g.tx /\ l.index = g.index
    BY <1>1, <1>10
  <2>2. l.topics[1] = e.kind
    BY <1>1, <2>1 DEF TopicsOk
  <2> QED BY <1>2, <1>3, <2>1, <2>2, BadDataFails
<1>11. \/ l = [g EXCEPT !.hash = <<"orphaned", g.number>>] \/ l = [g EXCEPT !.number = @ + 1]
       \/ l = [g EXCEPT !.removed = TRUE] \/ l = [g EXCEPT !.address = "another"]
       \/ \E bad \in BadTopics(g.topics) : l = [g EXCEPT !.topics = bad]
       \/ \E bad \in BadData(g.data) : l = [g EXCEPT !.data = bad]
  BY DEF BadLogs, g
<1> QED BY <1>1, <1>5, <1>6, <1>7, <1>8, <1>9, <1>10, <1>11

-----------------------------------------------------------------------------
(* The order of a block's logs.                                            *)

Numbered(s) == \A i \in 1..Len(s) : s[i].tx \in Int /\ s[i].index \in Int

\* The elements of s in some order
Rearrangement(o, s, n) ==
  /\ Len(o) = n /\ DOMAIN o = 1..n
  /\ \E q \in [1..n -> 1..n] : /\ \A k \in 1..n : o[k] = s[q[k]]
                               /\ \A j \in 1..n : \E k \in 1..n : q[k] = j

\* The sort gives every log a place.
LEMMA Rearranged ==
  ASSUME NEW s, NEW n \in Nat, Len(s) = n, Numbered(s)
  PROVE  Rearrangement(ordered(s), s, n)
<1> DEFINE I == 1..n  R == {x \in I \X I : Precedes(s, x[1], x[2])}
           before(j) == {i \in 1..n : Precedes(s, i, j)}
           c(j) == Cardinality(before(j))  q == [k \in 1..n |-> CHOOSE j \in 1..n : c(j) = k - 1]
<1>1. /\ \A i \in I : ~Precedes(s, i, i)
      /\ \A i, j \in I : i # j => Precedes(s, i, j) \/ Precedes(s, j, i)
      /\ \A i, j, k \in I : Precedes(s, i, j) /\ Precedes(s, j, k) => Precedes(s, i, k)
  <2>1. \A i \in I : s[i].tx \in Int /\ s[i].index \in Int
    BY DEF Numbered
  <2>2. \A i \in I : ~Precedes(s, i, i)
    BY <2>1 DEF Precedes, Before
  <2>3. \A i, j \in I : i # j => Precedes(s, i, j) \/ Precedes(s, j, i)
    BY <2>1 DEF Precedes, Before
  <2>4. \A i, j, k \in I : Precedes(s, i, j) /\ Precedes(s, j, k) => Precedes(s, i, k)
    BY <2>1 DEF Precedes, Before
  <2> QED BY <2>2, <2>3, <2>4
<1>2. \A i, j \in I : <<i, j>> \in R <=> Precedes(s, i, j)
  OBVIOUS
<1> HIDE DEF R
<1>3. StrictTotal(I, R)
  BY <1>1, <1>2 DEF StrictTotal
<1>4. \A j \in I : Earlier(I, R, j) = before(j)
  BY <1>2 DEF Earlier
<1>5. IsFiniteSet(I) /\ Cardinality(I) = n
  <2>1. 1 \in Int /\ n \in Int /\ (IF 1 > n THEN 0 ELSE n - 1 + 1) = n
    OBVIOUS
  <2> QED BY <2>1, FS_Interval
<1> HIDE DEF before
<1>6. /\ \A i \in I : c(i) \in 0..n - 1
      /\ \A i, j \in I : <<i, j>> \in R => c(i) < c(j)
      /\ \A k \in 0..n - 1 : \E i \in I : c(i) = k
  <2> DEFINE e(j) == Cardinality(Earlier(I, R, j))
  <2>1. /\ \A i \in I : e(i) \in 0..n - 1
        /\ \A i, j \in I : <<i, j>> \in R => e(i) < e(j)
        /\ \A k \in 0..n - 1 : \E i \in I : e(i) = k
    <3> HIDE DEF I
    <3> QED BY <1>3, <1>5, Places
  <2>2. \A i \in I : e(i) = c(i)
    BY <1>4
  <2> HIDE DEF e, c, I
  <2> QED BY <2>1, <2>2
<1> HIDE DEF c
<1>7. \A i, j \in I : c(i) = c(j) => i = j
  <2> SUFFICES ASSUME NEW i \in I, NEW j \in I, i # j PROVE c(i) # c(j)
    OBVIOUS
  <2>1. c(i) < c(j) \/ c(j) < c(i)
    BY <1>1, <1>2, <1>6
  <2>2. c(i) \in Int /\ c(j) \in Int
    BY <1>6
  <2> QED BY <2>1, <2>2
<1>8. \A k \in 1..n : q[k] \in 1..n /\ c(q[k]) = k - 1
  <2> TAKE k \in 1..n
  <2>1. k - 1 \in 0..n - 1
    OBVIOUS
  <2>2. \E j \in 1..n : c(j) = k - 1
    BY <1>6, <2>1
  <2> QED BY <2>2
<1>9. ordered(s) = [k \in 1..n |-> s[q[k]]]
  <2> DEFINE pick(k) == CHOOSE j \in 1..Len(s) : Cardinality({i \in 1..Len(s) : Precedes(s, i, j)}) = k - 1
  <2>1. ordered(s) = [k \in 1..Len(s) |-> s[pick(k)]]
    BY DEF ordered
  <2>2. \A k \in 1..n : q[k] = pick(k)
    BY DEF c, before
  <2> HIDE DEF pick, q
  <2>3. [k \in 1..Len(s) |-> s[pick(k)]] = [k \in 1..n |-> s[q[k]]]
    BY <2>2
  <2> QED BY <2>1, <2>3
<1>10. \A j \in 1..n : \E k \in 1..n : q[k] = j
  <2> TAKE j \in 1..n
  <2>1. PICK k \in 1..n : k = c(j) + 1
    BY <1>6
  <2>2. c(j) \in Int
    BY <1>6
  <2> HIDE DEF q
  <2>3. c(q[k]) = c(j) /\ q[k] \in I
    BY <1>8, <2>1, <2>2
  <2>4. q[k] = j
    BY <1>7, <2>3
  <2> QED BY <2>4
<1>11. q \in [1..n -> 1..n]
  BY <1>8
<1> HIDE DEF q
<1>12. Len(ordered(s)) = n /\ DOMAIN ordered(s) = 1..n /\ \A k \in 1..n : ordered(s)[k] = s[q[k]]
  BY <1>9
<1> QED BY <1>10, <1>11, <1>12 DEF Rearrangement

\* The places of a sequence that was shuffled
Shuffle(p, n) ==
  /\ p \in [1..n -> 1..n]
  /\ \A i, j \in 1..n : p[i] = p[j] => i = j
  /\ \A k \in 1..n : \E i \in 1..n : p[i] = k

\* The sort puts a shuffled sequence back in order.
LEMMA PutInOrder ==
  ASSUME NEW s, NEW t, NEW n \in Nat, Len(s) = n, NEW p, Shuffle(p, n),
         \A i \in 1..n : s[i] = t[p[i]],
         \A i, j \in 1..n : Precedes(s, i, j) <=> p[i] < p[j]
  PROVE  ordered(s) = [k \in 1..n |-> t[k]]
<1> DEFINE before(j) == {i \in 1..n : Precedes(s, i, j)}  c(j) == Cardinality(before(j))
<1>0. p \in [1..n -> 1..n]
  BY DEF Shuffle
<1>1. ASSUME NEW j \in 1..n PROVE c(j) = p[j] - 1
  <2> DEFINE m == p[j] - 1  B == before(j)  f == [i \in B |-> p[i]]
  <2>1. p[j] \in 1..n /\ m \in Nat
    BY <1>0
  <2>2. \A i : i \in B <=> i \in 1..n /\ p[i] < p[j]
    OBVIOUS
  <2>3. IsFiniteSet(B)
    <3>1. B \in SUBSET (1..n)
      OBVIOUS
    <3> HIDE DEF B
    <3> QED BY <3>1, Indices
  <2> HIDE DEF B
  <2>4. f \in [B -> 1..m]
    <3>1. \A i \in B : p[i] \in 1..m
      <4> TAKE i \in B
      <4>1. p[i] \in 1..n /\ p[i] < p[j]
        BY <1>0, <2>2
      <4> QED BY <2>1, <4>1
    <3> HIDE DEF m
    <3> QED BY <3>1
  <2>5. \A x, y \in B : f[x] = f[y] => x = y
    BY <2>2 DEF Shuffle
  <2>6. \A k \in 1..m : \E x \in B : f[x] = k
    <3> TAKE k \in 1..m
    <3>1. k \in 1..n /\ k < p[j]
      BY <2>1
    <3>2. PICK i \in 1..n : p[i] = k
      BY <3>1 DEF Shuffle
    <3>3. i \in B
      BY <2>2, <3>1, <3>2
    <3> QED BY <3>2, <3>3
  <2>7. ExistsBijection(B, 1..m)
    <3> HIDE DEF m, f
    <3>1. f \in Bijection(B, 1..m)
      BY <2>4, <2>5, <2>6 DEF Bijection, Injection, Surjection, IsInjective
    <3> QED BY <3>1 DEF ExistsBijection
  <2>8. Cardinality(1..m) = Cardinality(B)
    <3> HIDE DEF m
    <3> QED BY <2>3, <2>7, FS_Bijection
  <2>9. Cardinality(1..m) = m
    <3> HIDE DEF m
    <3>1. 1 \in Int /\ m \in Int /\ (IF 1 > m THEN 0 ELSE m - 1 + 1) = m
      BY <2>1
    <3> QED BY <3>1, FS_Interval
  <2> QED BY <2>8, <2>9 DEF B
<1> DEFINE pick(k) == CHOOSE j \in 1..n : c(j) = k - 1
<1>2. ordered(s) = [k \in 1..n |-> s[pick(k)]]
  BY DEF ordered
<1> HIDE DEF c
<1>3. \A k \in 1..n : pick(k) \in 1..n /\ p[pick(k)] = k
  <2> TAKE k \in 1..n
  <2>1. PICK j \in 1..n : p[j] = k
    BY DEF Shuffle
  <2>2. c(j) = k - 1
    BY <1>1, <2>1
  <2>3. pick(k) \in 1..n /\ c(pick(k)) = k - 1
    BY <2>2
  <2> HIDE DEF pick
  <2>4. c(pick(k)) = p[pick(k)] - 1 /\ p[pick(k)] \in 1..n
    BY <1>0, <1>1, <2>3
  <2> QED BY <2>3, <2>4
<1> HIDE DEF pick
<1>4. \A k \in 1..n : s[pick(k)] = t[k]
  BY <1>3
<1> QED BY <1>2, <1>4

LEMMA GenuineShuffles ==
  ASSUME NEW S, NEW logs \in Seq(S), NEW reply \in Genuine(logs)
  PROVE  /\ Len(reply) = Len(logs) /\ DOMAIN reply = 1..Len(logs)
         /\ \E p : Shuffle(p, Len(logs)) /\ \A i \in 1..Len(logs) : reply[i] = logs[p[i]]
<1> DEFINE n == Len(logs)
<1>1. n \in Nat
  OBVIOUS
<1>2. PICK s \in {logs, Reverse(logs)}, k \in 0..n : reply = SubSeq(s, k + 1, Len(s)) \o SubSeq(s, 1, k)
  <2> DEFINE F(s, k) == SubSeq(s, k + 1, Len(s)) \o SubSeq(s, 1, k)  R == {logs, Reverse(logs)}
  <2>1. Genuine(logs) = {F(s, k) : s \in R, k \in 0..n}
    BY DEF Genuine
  <2>2. \E s \in R, k \in 0..n : reply = F(s, k)
    <3> HIDE DEF F, R, n
    <3> QED BY <2>1
  <2> QED BY <2>2
<1>3. k \in Nat /\ k <= n
  BY <1>1
<1>4. s \in Seq(S) /\ Len(s) = n
  <2>1. \A i \in 1..n : (n - i) + 1 \in 1..n
    BY <1>1
  <2>2. \A i \in 1..n : logs[i] \in S
    BY ElementOfSeq
  <2>3. Reverse(logs) = [i \in 1..n |-> logs[(n - i) + 1]]
    BY DEF Reverse
  <2> HIDE DEF n
  <2>4. Reverse(logs) \in [1..n -> S]
    BY <2>1, <2>2, <2>3
  <2>5. Reverse(logs) \in Seq(S) /\ Len(Reverse(logs)) = n
    BY <1>1, <2>4
  <2> QED BY <2>5 DEF n
<1> DEFINE a == SubSeq(s, k + 1, Len(s))  b == SubSeq(s, 1, k)  w == n - k
<1>5. w \in Nat /\ k + w = n
  BY <1>1, <1>3
<1>6. a \in Seq(S) /\ Len(a) = w /\ \A i \in 1..w : a[i] = s[k + i]
  <2>1. k + w <= Len(s)
    BY <1>4, <1>5
  <2>2. a = SubSeq(s, k + 1, k + w)
    BY <1>4, <1>5
  <2> HIDE DEF a, w
  <2> QED BY <1>3, <1>4, <1>5, <2>1, <2>2, Slice
<1>7. b \in Seq(S) /\ Len(b) = k /\ \A i \in 1..k : b[i] = s[i]
  <2>1. 0 + k <= Len(s) /\ 0 + 1 = 1 /\ 0 + k = k /\ 0 \in Nat /\ \A i \in 1..k : 0 + i = i
    BY <1>1, <1>3, <1>4
  <2>2. b = SubSeq(s, 0 + 1, 0 + k)
    BY <2>1
  <2>3. SubSeq(s, 0 + 1, 0 + k) \in Seq(S) /\ Len(SubSeq(s, 0 + 1, 0 + k)) = k
       /\ \A i \in 1..k : SubSeq(s, 0 + 1, 0 + k)[i] = s[0 + i]
    BY <1>3, <1>4, <2>1, Slice
  <2> HIDE DEF b
  <2> QED BY <2>1, <2>2, <2>3
<1> HIDE DEF a, b
<1>8. /\ reply \in Seq(S) /\ Len(reply) = w + k
      /\ \A i \in 1..w + k : reply[i] = IF i <= w THEN a[i] ELSE b[i - w]
  <2>1. reply = a \o b
    BY <1>2 DEF a, b
  <2> HIDE DEF w
  <2> QED BY <1>6, <1>7, <2>1, ConcatProperties
<1> DEFINE turn(i) == IF i <= w THEN k + i ELSE i - w
<1>9. \A i \in 1..n : turn(i) \in 1..n /\ reply[i] = s[turn(i)]
  <2> TAKE i \in 1..n
  <2>1. i \in 1..w + k /\ i \in Int
    BY <1>1, <1>3
  <2>2. CASE i <= w
    <3>1. i \in 1..w /\ k + i \in 1..n /\ turn(i) = k + i
      BY <1>1, <1>3, <2>1, <2>2
    <3> HIDE DEF turn, w
    <3> QED BY <1>6, <1>8, <2>1, <2>2, <3>1
  <2>3. CASE ~(i <= w)
    <3>1. i - w \in 1..k /\ i - w \in 1..n /\ turn(i) = i - w
      BY <1>1, <1>3, <2>1, <2>3
    <3> HIDE DEF turn, w
    <3> QED BY <1>7, <1>8, <2>1, <2>3, <3>1
  <2> QED BY <2>2, <2>3
<1>10. \A i, j \in 1..n : turn(i) = turn(j) => i = j
  BY <1>1, <1>3
<1>11. \A j \in 1..n : \E i \in 1..n : turn(i) = j
  <2> TAKE j \in 1..n
  <2>1. CASE j <= k
    <3>1. j + w \in 1..n /\ turn(j + w) = j
      BY <1>1, <1>3, <2>1
    <3> QED BY <3>1
  <2>2. CASE ~(j <= k)
    <3>1. j - k \in 1..n /\ turn(j - k) = j
      BY <1>1, <1>3, <2>2
    <3> QED BY <3>1
  <2> QED BY <2>1, <2>2
<1>12. Len(reply) = n /\ DOMAIN reply = 1..n
  <2>1. w + k = n
    BY <1>1, <1>3
  <2> HIDE DEF n, w
  <2> QED BY <1>8, <2>1
<1> HIDE DEF turn
<1>13. CASE s = logs
  <2> DEFINE p == [i \in 1..n |-> turn(i)]
  <2>1. Shuffle(p, n)
    BY <1>9, <1>10, <1>11 DEF Shuffle
  <2>2. \A i \in 1..n : reply[i] = logs[p[i]]
    BY <1>9, <1>13
  <2> QED BY <1>12, <2>1, <2>2
<1>14. CASE s = Reverse(logs)
  <2> DEFINE p == [i \in 1..n |-> (n - turn(i)) + 1]
  <2>1. p \in [1..n -> 1..n]
    <3>1. \A i \in 1..n : (n - turn(i)) + 1 \in 1..n
      <4> TAKE i \in 1..n
      <4>1. turn(i) \in 1..n
        BY <1>9
      <4> QED BY <1>1, <4>1
    <3> QED BY <3>1
  <2>2. \A i, j \in 1..n : p[i] = p[j] => i = j
    <3> TAKE i, j \in 1..n
    <3>1. turn(i) \in 1..n /\ turn(j) \in 1..n
      BY <1>9
    <3>2. (n - turn(i)) + 1 = (n - turn(j)) + 1 => turn(i) = turn(j)
      BY <1>1, <3>1
    <3> QED BY <1>10, <3>2
  <2>3. \A j \in 1..n : \E i \in 1..n : p[i] = j
    <3> TAKE j \in 1..n
    <3>1. (n - j) + 1 \in 1..n
      BY <1>1
    <3>2. PICK i \in 1..n : turn(i) = (n - j) + 1
      BY <1>11, <3>1
    <3>3. (n - turn(i)) + 1 = j
      BY <1>1, <3>2
    <3> QED BY <3>3
  <2>4. \A i \in 1..n : reply[i] = logs[p[i]]
    <3> TAKE i \in 1..n
    <3>1. turn(i) \in 1..n /\ reply[i] = s[turn(i)]
      BY <1>9
    <3>2. s[turn(i)] = logs[(n - turn(i)) + 1]
      BY <1>14, <3>1 DEF Reverse
    <3> QED BY <3>1, <3>2
  <2> HIDE DEF p
  <2>5. Shuffle(p, n)
    BY <2>1, <2>2, <2>3 DEF Shuffle
  <2> QED BY <1>12, <2>4, <2>5
<1> QED BY <1>13, <1>14

-----------------------------------------------------------------------------
(* The logs of one block.                                                  *)

\* A block's events, in its order of logs
OneBlock(log, b, time) ==
  /\ Len(log) \in Nat /\ log = [i \in 1..Len(log) |-> log[i]]
  /\ \A i \in 1..Len(log) : Written(log[i]) /\ log[i].block = b /\ log[i].time = time
  /\ \A i, j \in 1..Len(log) : i < j => log[i].log < log[j].log

LEMMA PlaceOfLog ==
  ASSUME NEW e, Written(e)
  PROVE  e.log \in Nat /\ RawLog(e).tx = e.log \div 2 /\ RawLog(e).index = 2 * e.log
<1>1. e.log \in Nat
  BY WordsFit
<1> QED BY <1>1, RawLogFits

\* A shuffled block's logs are sorted by their places.
LEMMA SortedByPlace ==
  ASSUME NEW log, NEW b, NEW time, OneBlock(log, b, time), NEW s, NEW p, Shuffle(p, Len(log)),
         \A i \in 1..Len(log) : s[i] = RawLog(log[p[i]])
  PROVE  \A i, j \in 1..Len(log) : Precedes(s, i, j) <=> p[i] < p[j]
<1>1. \A x, y \in Nat : x < y <=> (x \div 2 < y \div 2 \/ (x \div 2 = y \div 2 /\ 2 * x < 2 * y))
  OBVIOUS
<1> TAKE i, j \in 1..Len(log)
<1>2. PICK n \in Nat : n = Len(log)
  BY DEF OneBlock
<1>3. p[i] \in 1..n /\ p[j] \in 1..n /\ i \in 1..n /\ j \in 1..n /\ (p[i] = p[j] => i = j)
  BY <1>2 DEF Shuffle
<1>4. PICK x, y : x = log[p[i]] /\ y = log[p[j]]
  OBVIOUS
<1>5. Written(x) /\ Written(y)
  BY <1>2, <1>3, <1>4 DEF OneBlock
<1>6. PICK u \in Nat, v \in Nat : u = x.log /\ v = y.log
  BY <1>5, PlaceOfLog
<1>7. (p[i] < p[j] => u < v) /\ (p[j] < p[i] => v < u)
  BY <1>2, <1>3, <1>4, <1>6 DEF OneBlock
<1>8. s[i] = RawLog(x) /\ s[j] = RawLog(y)
  BY <1>4
<1>9. s[i].tx = u \div 2 /\ s[i].index = 2 * u /\ s[j].tx = v \div 2 /\ s[j].index = 2 * v
  BY <1>5, <1>6, <1>8, PlaceOfLog
<1>10. (Before(s[i], s[j]) <=> u < v) /\ (Before(s[j], s[i]) <=> v < u)
  BY <1>1, <1>9 DEF Before
<1>11. CASE p[i] = p[j]
  <2>1. i = j
    BY <1>3, <1>11
  <2>2. u = v
    BY <1>4, <1>6, <1>11
  <2> QED BY <1>3, <1>10, <1>11, <2>1, <2>2 DEF Precedes
<1>12. CASE p[i] < p[j]
  BY <1>3, <1>7, <1>10, <1>12 DEF Precedes
<1>13. CASE p[j] < p[i]
  <2>1. ~(u < v) /\ v < u /\ ~(p[i] < p[j])
    BY <1>3, <1>7, <1>13
  <2> QED BY <1>10, <2>1 DEF Precedes
<1> QED BY <1>3, <1>11, <1>12, <1>13

\* Whatever order they come in, the logs of a block are stored in its order.
LEMMA GenuineConverts ==
  ASSUME NEW log, NEW b, NEW time, OneBlock(log, b, time), NEW reply \in Genuine(RawLogs(log))
  PROVE  LET c == convertBlock(Header(b), reply) IN c.err = "ok" /\ Converted(c, b, time) = log
<1> DEFINE logs == RawLogs(log)  S == {RawLog(log[i]) : i \in 1..Len(log)}
<1>1. PICK n \in Nat : n = Len(log)
  BY DEF OneBlock
<1>2. logs = [i \in 1..n |-> RawLog(log[i])]
  BY <1>1 DEF RawLogs
<1>3. logs \in Seq(S) /\ Len(logs) = n
  BY <1>1, <1>2
<1>4. reply \in Genuine(logs)
  OBVIOUS
<1> HIDE DEF logs, S
<1>5. PICK p : Shuffle(p, n) /\ \A i \in 1..n : reply[i] = logs[p[i]]
  BY <1>3, <1>4, GenuineShuffles
<1>6. \A i \in 1..n : p[i] \in 1..n
  BY <1>5 DEF Shuffle
<1>7. Len(reply) = n
  BY <1>3, <1>4, GenuineShuffles
<1>8. \A i, j \in 1..n : Precedes(reply, i, j) <=> p[i] < p[j]
  <2>1. \A i \in 1..n : reply[i] = RawLog(log[p[i]])
    BY <1>2, <1>5, <1>6
  <2> QED BY <1>1, <1>5, <2>1, SortedByPlace
<1>9. ordered(reply) = [k \in 1..n |-> logs[k]]
  BY <1>5, <1>7, <1>8, PutInOrder
<1>10. ordered(reply) = logs
  BY <1>2, <1>9
<1>11. \A i \in 1..n : Written(log[i]) /\ log[i].block = b /\ log[i].time = time /\ logs[i] = RawLog(log[i])
  BY <1>1, <1>2 DEF OneBlock
<1>12. \A i \in 1..n : Belongs(logs[i], Header(b))
  <2> TAKE i \in 1..n
  <2>1. PICK e : e = log[i] /\ Written(e) /\ e.block = b /\ logs[i] = RawLog(e)
    BY <1>11
  <2>2. RawLog(e).removed = FALSE /\ RawLog(e).number = b /\ RawLog(e).hash = Header(b).hash /\ Header(b).number = b
    BY <2>1 DEF RawLog, Header
  <2> QED BY <2>1, <2>2 DEF Belongs
<1>13. DistinctIndexes(logs)
  <2> SUFFICES ASSUME NEW i \in 1..n, NEW j \in 1..n, logs[i].index = logs[j].index PROVE i = j
    BY <1>3 DEF DistinctIndexes
  <2>1. PICK u \in Nat, v \in Nat : u = log[i].log /\ v = log[j].log
    BY <1>11, PlaceOfLog
  <2>2. logs[i].index = 2 * u /\ logs[j].index = 2 * v
    BY <1>11, <2>1, PlaceOfLog
  <2>3. 2 * u = 2 * v
    BY <2>2
  <2>4. ~(u < v) /\ ~(v < u)
    BY <2>3
  <2>5. i < j => u < v
    BY <1>1, <2>1 DEF OneBlock
  <2>6. j < i => v < u
    BY <1>1, <2>1 DEF OneBlock
  <2> QED BY <2>4, <2>5, <2>6
<1>14. \A i \in 1..n : /\ Decode(logs[i]).err = "ok"
                       /\ Received(StoredEvent(logs[i], Decode(logs[i])), b, time) = log[i]
  BY <1>11, EventReadsBack
<1> DEFINE stored == [i \in 1..n |-> StoredEvent(logs[i], Decode(logs[i]))]
<1>15. convertBlock(Header(b), reply) = [err |-> "ok", events |-> stored]
  <2>1. convertBlock(Header(b), reply) = convertOrdered(Header(b), logs)
    BY <1>10 DEF convertBlock
  <2> QED BY <1>3, <1>12, <1>13, <1>14, <2>1 DEF convertOrdered
<1>16. Len(stored) = n /\ \A i \in 1..n : stored[i] = StoredEvent(logs[i], Decode(logs[i]))
  OBVIOUS
<1> HIDE DEF stored
<1>17. Converted([err |-> "ok", events |-> stored], b, time) = [i \in 1..n |-> Received(stored[i], b, time)]
  BY <1>16 DEF Converted
<1>18. [i \in 1..n |-> Received(stored[i], b, time)] = [i \in 1..n |-> log[i]]
  BY <1>14, <1>16
<1>19. log = [i \in 1..n |-> log[i]]
  BY <1>1 DEF OneBlock
<1>20. Converted([err |-> "ok", events |-> stored], b, time) = log
  BY <1>17, <1>18, <1>19
<1> QED BY <1>15, <1>20

\* One log that cannot be stored is enough to refuse a reply.
LEMMA OneIsEnough ==
  ASSUME NEW header, NEW o, NEW k \in 1..Len(o), ~Belongs(o[k], header) \/ Decode(o[k]).err # "ok"
  PROVE  convertOrdered(header, o).err # "ok"
BY DEF convertOrdered

\* A repeated log and a log that is not the contract's are refused.
LEMMA BadRefused ==
  ASSUME NEW log, NEW b, NEW time, OneBlock(log, b, time), NEW reply \in Bad(RawLogs(log))
  PROVE  convertBlock(Header(b), reply).err # "ok"
<1> DEFINE logs == RawLogs(log)  o == ordered(reply)
<1>1. PICK n \in Nat : n = Len(log)
  BY DEF OneBlock
<1>2. logs = [i \in 1..n |-> RawLog(log[i])]
  BY <1>1 DEF RawLogs
<1>3. Len(logs) = n /\ DOMAIN logs = 1..n
  BY <1>1, <1>2
<1>4. \A i \in 1..n : /\ Written(log[i]) /\ log[i].block = b /\ logs[i] = RawLog(log[i])
                      /\ logs[i].tx \in Int /\ logs[i].index \in Int
  <2> TAKE i \in 1..n
  <2>1. Written(log[i]) /\ log[i].block = b /\ logs[i] = RawLog(log[i])
    BY <1>1, <1>2 DEF OneBlock
  <2> HIDE DEF logs
  <2>2. PICK u \in Nat : u = log[i].log /\ logs[i].tx = u \div 2 /\ logs[i].index = 2 * u
    BY <2>1, PlaceOfLog
  <2> QED BY <2>1, <2>2
<1>5. \/ \E i \in 1..n : reply = Append(logs, logs[i])
      \/ \E i \in 1..n : \E l \in BadLogs(logs[i]) : reply = [logs EXCEPT ![i] = l]
  <2>1. reply \in Bad(logs)
    OBVIOUS
  <2> HIDE DEF logs
  <2> QED BY <1>3, <2>1 DEF Bad
<1>6. convertBlock(Header(b), reply) = convertOrdered(Header(b), o)
  BY DEF convertBlock
<1> HIDE DEF logs, o
<1>7. CASE \E i \in 1..n : reply = Append(logs, logs[i])
  <2>1. PICK i \in 1..n : reply = Append(logs, logs[i])
    BY <1>7
  <2>2. Len(reply) = n + 1 /\ reply[n + 1] = logs[i] /\ \A j \in 1..n : reply[j] = logs[j]
    BY <1>3, <2>1, AppendAny
  <2>3. Numbered(reply)
    <3>1. \A j \in 1..n + 1 : j = n + 1 \/ j \in 1..n
      OBVIOUS
    <3> QED BY <1>4, <2>2, <3>1 DEF Numbered
  <2>4. PICK q \in [1..n + 1 -> 1..n + 1] : /\ Len(o) = n + 1 /\ \A k \in 1..n + 1 : o[k] = reply[q[k]]
                                            /\ \A j \in 1..n + 1 : \E k \in 1..n + 1 : q[k] = j
    <3>1. n + 1 \in Nat /\ Len(reply) = n + 1
      BY <2>2
    <3>2. Rearrangement(o, reply, n + 1)
      BY <2>3, <3>1, Rearranged DEF o
    <3> QED BY <3>2 DEF Rearrangement
  <2>5. i \in 1..n + 1 /\ n + 1 \in 1..n + 1 /\ i # n + 1
    OBVIOUS
  <2>6. PICK k \in 1..n + 1, m \in 1..n + 1 : q[k] = i /\ q[m] = n + 1
    BY <2>4, <2>5
  <2>7. k # m /\ o[k] = o[m]
    BY <2>2, <2>4, <2>5, <2>6
  <2>8. ~DistinctIndexes(o)
    BY <2>4, <2>7 DEF DistinctIndexes
  <2> QED BY <1>6, <2>8 DEF convertOrdered
<1>8. CASE \E i \in 1..n : \E l \in BadLogs(logs[i]) : reply = [logs EXCEPT ![i] = l]
  <2>1. PICK i \in 1..n : \E l \in BadLogs(logs[i]) : reply = [logs EXCEPT ![i] = l]
    BY <1>8
  <2>a. PICK l \in BadLogs(logs[i]) : reply = [logs EXCEPT ![i] = l]
    BY <2>1
  <2>2. Len(reply) = n /\ reply[i] = l /\ \A j \in 1..n : j # i => reply[j] = logs[j]
    BY <1>2, <2>a
  <2>3. /\ l.tx \in Int /\ l.index \in Int
        /\ ~Belongs(l, Header(b)) \/ Decode(l).err # "ok"
    <3>1. PICK e : e = log[i] /\ Written(e) /\ e.block = b /\ logs[i] = RawLog(e)
      BY <1>4
    <3>2. /\ l.tx = e.log \div 2 /\ l.index = 2 * e.log
          /\ ~Belongs(l, Header(e.block)) \/ Decode(l).err # "ok"
      BY <3>1, BadLogFails
    <3>3. l.tx = logs[i].tx /\ l.index = logs[i].index
      BY <3>1, <3>2, PlaceOfLog
    <3> QED BY <1>4, <3>1, <3>2, <3>3
  <2>4. Numbered(reply)
    BY <1>4, <2>2, <2>3 DEF Numbered
  <2>5. PICK q \in [1..n -> 1..n] : /\ Len(o) = n /\ \A k \in 1..n : o[k] = reply[q[k]]
                                    /\ \A j \in 1..n : \E k \in 1..n : q[k] = j
    <3>1. Rearrangement(o, reply, n)
      BY <2>2, <2>4, Rearranged DEF o
    <3> QED BY <3>1 DEF Rearrangement
  <2>6. PICK k \in 1..n : q[k] = i
    BY <2>5
  <2>7. o[k] = l /\ k \in 1..Len(o)
    BY <2>2, <2>5, <2>6
  <2> QED BY <1>6, <2>3, <2>7, OneIsEnough
<1> QED BY <1>5, <1>7, <1>8

\* The events of the newest block are such a block.
LEMMA NewestBlock ==
  ASSUME LogInv
  PROVE  OneBlock(Select(events, {i \in 1..Len(events) : events[i].block = block}), block, now)
<1> DEFINE I == {i \in 1..Len(events) : events[i].block = block}  log == Select(events, I)
           S == {events[i] : i \in 1..Len(events)}
<1>1. PICK n \in Nat : n = Len(events)
  BY DEF LogInv
<1>2. IsFiniteSet(I) /\ I \in SUBSET Int /\ I \in SUBSET (1..n)
  <2>1. I \in SUBSET (1..n)
    BY <1>1
  <2> HIDE DEF I
  <2> QED BY <2>1, Indices
<1>3. \A i \in I : i \in 1..n /\ Written(events[i]) /\ events[i].block = block /\ events[i].time = now
     /\ events[i] \in S
  BY <1>1 DEF LogInv
<1>4. \A i, j \in I : i < j => events[i].log < events[j].log
  <2> SUFFICES ASSUME NEW i \in I, NEW j \in I, i < j PROVE events[i].log < events[j].log
    OBVIOUS
  <2>1. After(events[j], events[i])
    BY <1>1, <1>3 DEF LogInv
  <2>2. PICK u \in Nat, v \in Nat, b \in Nat : u = events[i].log /\ v = events[j].log /\ b = block
    <3>1. Written(events[i]) /\ Written(events[j]) /\ block \in Nat
      BY <1>3 DEF LogInv
    <3> QED BY <3>1, WordsFit
  <2>3. events[i].block = b /\ events[j].block = b
    BY <1>3, <2>2
  <2>4. v > u
    BY <2>1, <2>2, <2>3 DEF After
  <2> QED BY <2>2, <2>4
<1> HIDE DEF I, S
<1>5. PICK m \in Nat : m = Cardinality(I)
  BY <1>2, FS_CardinalityType
<1>6. log \in Seq(S) /\ Len(log) = m
  BY <1>2, <1>3, <1>5, Selected
<1>7. /\ \A k \in 1..m : Nth(I, k) \in I /\ log[k] = events[Nth(I, k)]
      /\ \A k, l \in 1..m : k < l => Nth(I, k) < Nth(I, l)
  <2>0. \A i \in I : events[i] \in S
    BY <1>3
  <2>1. \A k \in 1..Cardinality(I) : Nth(I, k) \in I
    BY <1>2, <2>0, Selected
  <2>2. \A k, l \in 1..Cardinality(I) : k < l => Nth(I, k) < Nth(I, l)
    BY <1>2, <2>0, Selected
  <2>3. \A k \in 1..Cardinality(I) : log[k] = events[Nth(I, k)]
    BY DEF Select
  <2> HIDE DEF log
  <2> QED BY <1>5, <2>1, <2>2, <2>3
<1> HIDE DEF log
<1>8. \A k \in 1..m : Written(log[k]) /\ log[k].block = block /\ log[k].time = now
  BY <1>3, <1>7
<1>9. \A k, l \in 1..m : k < l => log[k].log < log[l].log
  BY <1>4, <1>7
<1>10. log = [k \in 1..m |-> log[k]]
  BY <1>6
<1> QED BY <1>6, <1>8, <1>9, <1>10 DEF OneBlock, log, I

(* Whatever the callers did, and in whatever order a provider lists a      *)
(* block's logs, what is stored and read back is what the contract wrote,  *)
(* value for value and in its order; a reply with a repeated log, a log of *)
(* another branch or an encoding the contract never writes is refused.     *)
THEOREM RepliesStayConverted == FixtureSpec => []RepliesConverted
<1>1. ASSUME LogInv PROVE RepliesConverted
  <2> DEFINE log == Select(events, {i \in 1..Len(events) : events[i].block = block})  logs == RawLogs(log)
  <2>1. OneBlock(log, block, now)
    BY <1>1, NewestBlock
  <2> HIDE DEF log
  <2>2. \A reply \in Genuine(logs) : \A c \in {convertBlock(Header(block), reply)} :
          c.err = "ok" /\ Converted(c, block, now) = log
    <3> TAKE reply \in Genuine(logs)
    <3> QED BY <2>1, GenuineConverts
  <2>3. \A reply \in Bad(logs) : convertBlock(Header(block), reply).err # "ok"
    BY <2>1, BadRefused
  <2> QED BY <2>2, <2>3 DEF RepliesConverted, log
<1> QED BY <1>1, LogInit, LogStep, MarketInit, MarketStep, PTL DEF FixtureSpec

-----------------------------------------------------------------------------
(* The export of a log, in closed form.                                    *)

\* What the exporter may rely on in an event the contract wrote
ValidEvent(e) ==
  /\ Position(e) /\ e.time < NanoLimit /\ e.market \in MarketId /\ e.outcome \in BOOLEAN
  /\ e.kind # "MarketResolved" =>
       /\ e.yes \in Nat /\ e.no \in Nat /\ ValidReserves(e.yes, e.no)
       /\ e.resolution \in Nat /\ e.time < e.resolution
       /\ e.trade \in Trades \cup {None} /\ (e.trade # None => ValidTrade(e.trade))

\* A log in chain order, of which every market's part is one life
ValidLog(L) ==
  /\ Len(L) \in Nat /\ DOMAIN L = 1..Len(L)
  /\ \A i \in 1..Len(L) : ValidEvent(L[i])
  /\ \A i, j \in 1..Len(L) : i < j => After(L[j], L[i]) /\ L[j].time >= L[i].time
  /\ \A i, j \in 1..Len(L) : i < j /\ L[i].market = L[j].market =>
       /\ L[i].kind # "MarketResolved"
       /\ IF L[j].kind = "MarketResolved" THEN L[j].time >= L[i].resolution
          ELSE L[j].resolution = L[i].resolution

\* Of the first i events: the changes, those of one market, its resolutions
Changes(L, i) == {j \in 1..i : L[j].kind # "MarketResolved"}
Own(L, m, i) == {j \in Changes(L, i) : L[j].market = m}
Ends(L, m, i) == {j \in 1..i : L[j].market = m /\ L[j].kind = "MarketResolved"}
Seen(L, i) == {L[j].market : j \in Changes(L, i)}
Labelled(L, i) == {m \in Seen(L, i) : Ends(L, m, i) # {}}

At(L, F, j) == UpdateOf(L[j], F[L[j].block])
Flow(L, m, i) == LastOf(FlowWindow, Select([j \in 1..Len(L) |-> L[j].trade], Own(L, m, i)))
LastUpdate(L, F, m, i) == IF Own(L, m, i) = {} THEN None ELSE At(L, F, Max(Own(L, m, i)))
Ending(L, m, i) == L[Max(Ends(L, m, i))]
Snap(L, F, j) == FeaturesAt(At(L, F, j), Flow(L, L[j].market, j), At(L, F, j))

EngineAt(L, F, m, i) ==
  [market |-> m, flowWindow |-> FlowWindow, flowEvents |-> Flow(L, m, i),
   latest |-> LastUpdate(L, F, m, i), observed |-> LastUpdate(L, F, m, i)]

LabelAt(L, F, m, i) ==
  [scheduled |-> LastUpdate(L, F, m, i).resolution, available |-> Ending(L, m, i).time,
   outcome |-> Ending(L, m, i).outcome]

\* The replay's state after i events
StateAt(L, F, i) ==
  [err |-> "ok",
   engines |-> [m \in Seen(L, i) |-> EngineAt(L, F, m, i)],
   labels |-> [m \in Labelled(L, i) |-> LabelAt(L, F, m, i)],
   schedules |-> [m \in Seen(L, i) |-> LastUpdate(L, F, m, i).resolution],
   snapshots |-> Select([j \in 1..Len(L) |-> Snap(L, F, j)], Changes(L, i))]

\* A finality for every block of the log
Finalities(L, F) == \A i \in 1..Len(L) : F[L[i].block] \in 0..FinalityFinalized

-----------------------------------------------------------------------------
\* One index more, above the others
LEMMA NewLargest ==
  ASSUME NEW i \in Nat \ {0}, NEW T \in SUBSET (1..(i - 1))
  PROVE  Max(T \cup {i}) = i
<1>1. T \cup {i} \in SUBSET (1..i) /\ T \cup {i} # {}
  <2>1. 1..(i - 1) \subseteq 1..i /\ i \in 1..i
    OBVIOUS
  <2> QED BY <2>1
<1> DEFINE U == T \cup {i}
<1>2. Max(U) \in U /\ i <= Max(U)
  <2>1. i \in U
    OBVIOUS
  <2> HIDE DEF U
  <2>2. U \in SUBSET (1..i) /\ U # {}
    BY <1>1 DEF U
  <2> QED BY <2>1, <2>2, MaxIsLargest
<1>3. Max(U) \in 1..i
  BY <1>1, <1>2
<1> QED BY <1>2, <1>3

\* How the index sets grow with event i, and that nothing follows a resolution
LEMMA IndexStep ==
  ASSUME NEW L, ValidLog(L), NEW i \in 1..Len(L)
  PROVE  /\ i - 1 \in Nat /\ i \in Nat \ {0} /\ i - 1 <= Len(L)
         /\ \A m : Own(L, m, i - 1) \in SUBSET (1..(i - 1)) /\ Ends(L, m, i - 1) \in SUBSET (1..(i - 1))
         /\ Changes(L, i - 1) \in SUBSET (1..(i - 1))
         /\ \A m : m # L[i].market => Own(L, m, i) = Own(L, m, i - 1) /\ Ends(L, m, i) = Ends(L, m, i - 1)
         /\ L[i].kind # "MarketResolved" =>
              /\ Changes(L, i) = Changes(L, i - 1) \cup {i}
              /\ Own(L, L[i].market, i) = Own(L, L[i].market, i - 1) \cup {i}
              /\ \A m : Ends(L, m, i) = Ends(L, m, i - 1)
              /\ Ends(L, L[i].market, i) = {}
              /\ Seen(L, i) = Seen(L, i - 1) \cup {L[i].market}
         /\ L[i].kind = "MarketResolved" =>
              /\ Changes(L, i) = Changes(L, i - 1) /\ Seen(L, i) = Seen(L, i - 1)
              /\ \A m : Own(L, m, i) = Own(L, m, i - 1)
              /\ Ends(L, L[i].market, i) = Ends(L, L[i].market, i - 1) \cup {i}
<1>1. Len(L) \in Nat /\ i - 1 \in Nat /\ i \in Nat \ {0} /\ i - 1 <= Len(L)
  BY DEF ValidLog
<1>2. 1..i = 1..(i - 1) \cup {i}
  BY <1>1
<1>3. Changes(L, i) = Changes(L, i - 1) \cup (IF L[i].kind # "MarketResolved" THEN {i} ELSE {})
  BY <1>2 DEF Changes
<1>4. \A m : Own(L, m, i) = Own(L, m, i - 1) \cup (IF L[i].kind # "MarketResolved" /\ m = L[i].market THEN {i} ELSE {})
  BY <1>3 DEF Own
<1>5. \A m : Ends(L, m, i) = Ends(L, m, i - 1)
          \cup (IF L[i].kind = "MarketResolved" /\ m = L[i].market THEN {i} ELSE {})
  BY <1>2 DEF Ends
<1>6. \A m : Own(L, m, i - 1) \in SUBSET (1..(i - 1)) /\ Ends(L, m, i - 1) \in SUBSET (1..(i - 1))
  BY DEF Own, Ends, Changes
<1>7. Changes(L, i - 1) \in SUBSET (1..(i - 1))
  BY DEF Changes
<1>8. ASSUME L[i].kind # "MarketResolved" PROVE Ends(L, L[i].market, i - 1) = {}
  <2> SUFFICES ASSUME NEW j \in Ends(L, L[i].market, i - 1) PROVE FALSE
    OBVIOUS
  <2>1. j \in 1..Len(L) /\ j < i /\ L[j].market = L[i].market /\ L[j].kind = "MarketResolved"
    BY <1>1 DEF Ends
  <2> QED BY <2>1 DEF ValidLog
<1>9. Seen(L, i) = Seen(L, i - 1) \cup (IF L[i].kind # "MarketResolved" THEN {L[i].market} ELSE {})
  BY <1>3 DEF Seen
<1> QED BY <1>1, <1>3, <1>4, <1>5, <1>6, <1>7, <1>8, <1>9

-----------------------------------------------------------------------------
(* The replay of a log.                                                    *)

LEMMA WindowPositive == FlowWindow \in Nat \ {0}
  BY DatasetAssumption

\* An event's own time survives the conversion to int64.
LEMMA UpdateFields ==
  ASSUME NEW L, ValidLog(L), NEW F, Finalities(L, F), NEW j \in 1..Len(L)
  PROVE  /\ At(L, F, j) = [market |-> L[j].market, block |-> L[j].block, log |-> L[j].log, time |-> L[j].time,
                          yes |-> L[j].yes, no |-> L[j].no, trade |-> L[j].trade,
                          resolution |-> Int64(L[j].resolution), finality |-> F[L[j].block]]
         /\ Int64(L[j].time) = L[j].time /\ L[j].time \in Nat /\ L[j].block \in Nat /\ L[j].log \in Nat
         /\ F[L[j].block] \in 0..FinalityFinalized
<1>1. L[j].time \in Nat /\ L[j].time < NanoLimit /\ L[j].block \in Nat /\ L[j].log \in Nat
  BY DEF ValidLog, ValidEvent, Position
<1>2. Int64(L[j].time) = L[j].time
  BY <1>1, ProjectionAssumption DEF Int64
<1> QED BY <1>1, <1>2 DEF At, UpdateOf, Finalities

\* A market's last change is one of its changes.
LEMMA LastChange ==
  ASSUME NEW L, ValidLog(L), NEW i \in 0..Len(L), NEW m, Own(L, m, i) # {}
  PROVE  /\ Max(Own(L, m, i)) \in 1..i /\ Max(Own(L, m, i)) \in 1..Len(L)
         /\ L[Max(Own(L, m, i))].market = m /\ L[Max(Own(L, m, i))].kind # "MarketResolved"
<1>1. Own(L, m, i) \in SUBSET (1..i) /\ i \in Nat /\ Len(L) \in Nat
  BY DEF Own, Changes, ValidLog
<1>2. Max(Own(L, m, i)) \in Own(L, m, i)
  BY <1>1, MaxIsLargest
<1>3. 1..i \subseteq 1..Len(L)
  BY <1>1
<1> QED BY <1>1, <1>2, <1>3 DEF Own, Changes

\* The trades of one more event
LEMMA FlowStep ==
  ASSUME NEW L, ValidLog(L), NEW i \in 1..Len(L), L[i].kind # "MarketResolved"
  PROVE  Flow(L, L[i].market, i) = LastOf(FlowWindow, Append(Flow(L, L[i].market, i - 1), L[i].trade))
<1> DEFINE m == L[i].market  ts == [j \in 1..Len(L) |-> L[j].trade]  I == Own(L, m, i - 1)
           S == {L[j].trade : j \in 1..Len(L)}  q == Select(ts, I)
<1>1. I \in SUBSET (1..(i - 1)) /\ Own(L, m, i) = I \cup {i} /\ i - 1 \in Nat /\ i - 1 <= Len(L) /\ Len(L) \in Nat
  BY IndexStep DEF ValidLog
<1>2. IsFiniteSet(I) /\ I \in SUBSET Int /\ (\A j \in I : ts[j] \in S) /\ (\A j \in I : j < i) /\ i \in Int
     /\ ts[i] \in S
  <2>1. IsFiniteSet(I) /\ I \in SUBSET Int
    BY <1>1, Indices
  <2>2. \A j \in I : j \in 1..Len(L) /\ j < i
    BY <1>1
  <2> QED BY <2>1, <2>2
<1>3. Select(ts, I \cup {i}) = Append(q, ts[i]) /\ q \in Seq(S)
  <2> HIDE DEF I, S, ts
  <2>1. Select(ts, I \cup {i}) = Append(Select(ts, I), ts[i])
    BY <1>2, SelectAppend
  <2>2. Select(ts, I) \in Seq(S)
    BY <1>2, Selected
  <2> QED BY <2>1, <2>2
<1>4. LastOf(FlowWindow, Append(LastOf(FlowWindow, q), ts[i])) = LastOf(FlowWindow, Append(q, ts[i]))
  <2> HIDE DEF I, S, ts, q
  <2> QED BY <1>2, <1>3, LastOfAppend, WindowPositive
<1>5. ts[i] = L[i].trade
  OBVIOUS
<1> QED BY <1>1, <1>3, <1>4, <1>5 DEF Flow

\* An engine that has not been made yet is a new one.
LEMMA EngineFound ==
  ASSUME NEW L, ValidLog(L), NEW F, NEW i \in 0..Len(L), NEW m
  PROVE  EngineOf(StateAt(L, F, i), m, FlowWindow) = EngineAt(L, F, m, i)
<1>1. StateAt(L, F, i).engines = [x \in Seen(L, i) |-> EngineAt(L, F, x, i)]
  BY DEF StateAt
<1>2. CASE m \in Seen(L, i)
  BY <1>1, <1>2 DEF EngineOf
<1>3. CASE m \notin Seen(L, i)
  <2>1. Own(L, m, i) = {}
    BY <1>3 DEF Own, Seen
  <2>2. Select([j \in 1..Len(L) |-> L[j].trade], {}) = <<>>
    <3>1. Cardinality({}) = 0
      BY FS_EmptySet
    <3> QED BY <3>1 DEF Select
  <2>3. Flow(L, m, i) = <<>>
    BY <2>1, <2>2, WindowPositive DEF Flow, LastOf
  <2>4. LastUpdate(L, F, m, i) = None
    BY <2>1 DEF LastUpdate
  <2> QED BY <1>1, <1>3, <2>3, <2>4 DEF EngineOf, EngineAt, NewEngine
<1> QED BY <1>2, <1>3

\* The engine takes a change and a snapshot of it, and is then the closed form's.
LEMMA EngineStep ==
  ASSUME NEW L, ValidLog(L), NEW F, Finalities(L, F), NEW i \in 1..Len(L), L[i].kind # "MarketResolved"
  PROVE  LET u == At(L, F, i)
             e == EngineAt(L, F, L[i].market, i - 1)
             n == EngineAt(L, F, L[i].market, i)
         IN /\ AcceptsUpdate(e, u) /\ AllowsSnapshot(Apply(e, u), u)
            /\ observe(Apply(e, u), u) = n
            /\ Snapshot(Apply(e, u), u) = Snap(L, F, i)
            /\ n.latest = u
<1> DEFINE m == L[i].market  u == At(L, F, i)  e == EngineAt(L, F, m, i - 1)  n == EngineAt(L, F, m, i)
           l == LastUpdate(L, F, m, i - 1)  w == Flow(L, m, i - 1)  v == Flow(L, m, i)
<1>1. u = [market |-> L[i].market, block |-> L[i].block, log |-> L[i].log, time |-> L[i].time,
           yes |-> L[i].yes, no |-> L[i].no, trade |-> L[i].trade,
           resolution |-> Int64(L[i].resolution), finality |-> F[L[i].block]]
      /\ L[i].time \in Nat /\ L[i].block \in Nat /\ L[i].log \in Nat /\ F[L[i].block] \in 0..FinalityFinalized
  BY UpdateFields
<1>2. i - 1 \in 0..Len(L) /\ i \in Nat \ {0} /\ Own(L, m, i - 1) \in SUBSET (1..(i - 1))
     /\ Own(L, m, i) = Own(L, m, i - 1) \cup {i}
  <2>1. i - 1 \in Nat /\ i \in Nat \ {0} /\ i - 1 <= Len(L) /\ Len(L) \in Nat
    BY IndexStep DEF ValidLog
  <2>2. Own(L, m, i - 1) \in SUBSET (1..(i - 1)) /\ Own(L, m, i) = Own(L, m, i - 1) \cup {i}
    BY IndexStep
  <2> QED BY <2>1, <2>2
<1>3. l # None => /\ After(u, l) /\ u.time >= l.time /\ l.time \in Nat /\ l.market = m
  <2> SUFFICES ASSUME l # None PROVE After(u, l) /\ u.time >= l.time /\ l.time \in Nat /\ l.market = m
    OBVIOUS
  <2> DEFINE k == Max(Own(L, m, i - 1))
  <2>1. l = At(L, F, k) /\ Own(L, m, i - 1) # {}
    BY DEF LastUpdate
  <2>2. k \in 1..(i - 1) /\ k \in 1..Len(L) /\ L[k].market = m
    BY <1>2, <2>1, LastChange
  <2>3. k < i
    BY <1>2, <2>2
  <2>4. After(L[i], L[k]) /\ L[i].time >= L[k].time
    BY <2>2, <2>3 DEF ValidLog
  <2>5. l.market = m /\ l.block = L[k].block /\ l.log = L[k].log /\ l.time = L[k].time /\ L[k].time \in Nat
    BY <2>1, <2>2, UpdateFields
  <2>6. After(u, l)
    BY <1>1, <2>4, <2>5 DEF After
  <2> QED BY <1>1, <2>4, <2>5, <2>6
<1>4. ValidEvent(L[i])
  BY DEF ValidLog
<1>5. e = [market |-> m, flowWindow |-> FlowWindow, flowEvents |-> w, latest |-> l, observed |-> l]
  BY DEF EngineAt
<1>6. v = LastOf(FlowWindow, Append(w, L[i].trade))
  BY FlowStep
<1>7. LastUpdate(L, F, m, i) = u
  <2>1. Max(Own(L, m, i - 1) \cup {i}) = i
    BY <1>2, NewLargest
  <2> QED BY <1>2, <2>1 DEF LastUpdate
<1>8. n = [market |-> m, flowWindow |-> FlowWindow, flowEvents |-> v, latest |-> u, observed |-> u]
  BY <1>7 DEF EngineAt
<1>9. Snap(L, F, i) = FeaturesAt(u, v, u)
  BY DEF Snap
<1> HIDE DEF u, e, n, l, w, v
<1>10. AcceptsUpdate(e, u)
  <2>1. u.market = e.market /\ u.finality <= FinalityFinalized
    BY <1>1, <1>5 DEF FinalityFinalized
  <2>2. ValidReserves(u.yes, u.no) /\ (u.trade # None => ValidTrade(u.trade))
    BY <1>1, <1>4 DEF ValidEvent
  <2>3. Follows(u, e.latest) /\ Follows(u, e.observed)
    BY <1>3, <1>5 DEF Follows
  <2> QED BY <2>1, <2>2, <2>3 DEF AcceptsUpdate
<1>11. Apply(e, u) = [market |-> m, flowWindow |-> FlowWindow, flowEvents |-> v, latest |-> u, observed |-> l]
  <2> HIDE DEF m
  <2>1. u.trade = L[i].trade /\ e.flowWindow = FlowWindow /\ e.flowEvents = w
    BY <1>1, <1>5
  <2>2. Apply(e, u) = [e EXCEPT !.flowEvents = v, !.latest = u]
    BY <1>6, <2>1 DEF Apply
  <2> QED BY <1>5, <2>2
<1>12. AllowsSnapshot(Apply(e, u), u)
  <2>1. u # None /\ u.market = m
    <3>1. u \in Updates
      <4>1. Int64(L[i].resolution) \in Int
        BY <1>4, ProjectionAssumption DEF ValidEvent, Int64
      <4> QED BY <1>1, <1>4, <4>1 DEF Updates, ValidEvent, FinalityFinalized
    <3> QED BY <1>1, <3>1, DatasetAssumption
  <2>2. ~After(u, u) /\ u.time >= u.time
    BY <1>1 DEF After
  <2> QED BY <1>11, <2>1, <2>2 DEF AllowsSnapshot
<1>13. observe(Apply(e, u), u) = n
  <2> DEFINE a == Apply(e, u)
  <2>1. a.observed = l /\ [a EXCEPT !.observed = u] = n
    BY <1>8, <1>11
  <2> HIDE DEF a
  <2>2. ASSUME l = None PROVE observe(a, u) = n
    BY <2>1, <2>2 DEF observe
  <2>3. ASSUME l # None PROVE observe(a, u) = n
    <3>1. After(u, l) /\ (IF u.time > l.time THEN u.time ELSE l.time) = u.time
      BY <1>1, <1>3, <2>3
    <3>2. [u EXCEPT !.time = u.time] = u
      BY <1>1
    <3>3. observe(a, u) = [a EXCEPT !.observed = [u EXCEPT !.time = u.time]]
      BY <2>1, <2>3, <3>1 DEF observe
    <3> QED BY <2>1, <3>2, <3>3
  <2> QED BY <2>2, <2>3 DEF a
<1>14. Snapshot(Apply(e, u), u) = Snap(L, F, i)
  BY <1>9, <1>11 DEF Snapshot
<1>15. n.latest = u
  BY <1>8
<1> QED BY <1>10, <1>12, <1>13, <1>14, <1>15 DEF u, e, n

\* What an event of another market leaves as it is
LEMMA OthersStay ==
  ASSUME NEW L, ValidLog(L), NEW F, NEW i \in 1..Len(L), NEW m, m # L[i].market
  PROVE  /\ EngineAt(L, F, m, i) = EngineAt(L, F, m, i - 1)
         /\ LastUpdate(L, F, m, i) = LastUpdate(L, F, m, i - 1)
         /\ LabelAt(L, F, m, i) = LabelAt(L, F, m, i - 1)
<1>1. Own(L, m, i) = Own(L, m, i - 1) /\ Ends(L, m, i) = Ends(L, m, i - 1)
  BY IndexStep
<1>2. LastUpdate(L, F, m, i) = LastUpdate(L, F, m, i - 1) /\ Flow(L, m, i) = Flow(L, m, i - 1)
     /\ Ending(L, m, i) = Ending(L, m, i - 1)
  BY <1>1 DEF LastUpdate, Flow, Ending
<1> QED BY <1>2 DEF EngineAt, LabelAt

\* A change moves the state along.
LEMMA ChangeStep ==
  ASSUME NEW L, ValidLog(L), NEW F, Finalities(L, F), NEW i \in 1..Len(L), L[i].kind # "MarketResolved"
  PROVE  ReplayEvent(StateAt(L, F, i - 1), L[i], FlowWindow, F[L[i].block]) = StateAt(L, F, i)
<1> DEFINE m == L[i].market  u == At(L, F, i)  e == EngineAt(L, F, m, i - 1)  n == EngineAt(L, F, m, i)
           st == StateAt(L, F, i - 1)  snaps == [j \in 1..Len(L) |-> Snap(L, F, j)]
           D == Seen(L, i - 1)  E == Seen(L, i)
           eng == [x \in D |-> EngineAt(L, F, x, i - 1)]  eng2 == [x \in E |-> EngineAt(L, F, x, i)]
           sch == [x \in D |-> LastUpdate(L, F, x, i - 1).resolution]
           sch2 == [x \in E |-> LastUpdate(L, F, x, i).resolution]
           lab == [x \in Labelled(L, i - 1) |-> LabelAt(L, F, x, i - 1)]
           lab2 == [x \in Labelled(L, i) |-> LabelAt(L, F, x, i)]
           sn == Select(snaps, Changes(L, i - 1))  sn2 == Select(snaps, Changes(L, i))
<1>1. /\ AcceptsUpdate(e, u) /\ AllowsSnapshot(Apply(e, u), u) /\ observe(Apply(e, u), u) = n
      /\ Snapshot(Apply(e, u), u) = Snap(L, F, i) /\ n.latest = u
  BY EngineStep
<1>2. /\ st = [err |-> "ok", engines |-> eng, labels |-> lab, schedules |-> sch, snapshots |-> sn]
      /\ StateAt(L, F, i) = [err |-> "ok", engines |-> eng2, labels |-> lab2, schedules |-> sch2, snapshots |-> sn2]
  BY DEF StateAt
<1>3. EngineOf(st, m, FlowWindow) = e
  <2>1. i - 1 \in 0..Len(L)
    BY DEF ValidLog
  <2> QED BY <2>1, EngineFound
<1>4. u.market = m /\ At(L, F, i) = UpdateOf(L[i], F[L[i].block])
  <2>1. u.market = m
    <3> HIDE DEF m
    <3> QED BY UpdateFields DEF m
  <2>2. At(L, F, i) = UpdateOf(L[i], F[L[i].block])
    BY DEF At
  <2> QED BY <2>1, <2>2
<1>5. E = D \cup {m}
  BY IndexStep
<1>6. With(eng, m, n) = eng2
  <2>1. \A x \in E : EngineAt(L, F, x, i) = IF x = m THEN n ELSE EngineAt(L, F, x, i - 1)
    BY OthersStay
  <2>2. With(eng, m, n) = [x \in E |-> IF x = m THEN n ELSE eng[x]]
    BY <1>5 DEF With
  <2>3. \A x \in E : x # m => eng[x] = EngineAt(L, F, x, i - 1)
    BY <1>5
  <2> HIDE DEF E, m, n, eng
  <2> QED BY <2>1, <2>2, <2>3
<1>7. With(sch, m, u.resolution) = sch2
  <2>1. \A x \in E : LastUpdate(L, F, x, i).resolution
                          = IF x = m THEN u.resolution ELSE LastUpdate(L, F, x, i - 1).resolution
    <3>1. LastUpdate(L, F, m, i) = u
      BY <1>1 DEF EngineAt
    <3> HIDE DEF u
    <3> QED BY <3>1, OthersStay
  <2>2. With(sch, m, u.resolution) = [x \in E |-> IF x = m THEN u.resolution ELSE sch[x]]
    BY <1>5 DEF With
  <2>3. \A x \in E : x # m => sch[x] = LastUpdate(L, F, x, i - 1).resolution
    BY <1>5
  <2> HIDE DEF E, m, u, sch
  <2> QED BY <2>1, <2>2, <2>3
<1>8. lab = lab2
  <2>1. \A x : Ends(L, x, i) = Ends(L, x, i - 1)
    BY IndexStep
  <2>2. Ends(L, m, i) = {}
    BY IndexStep
  <2>3. Labelled(L, i) = Labelled(L, i - 1) /\ m \notin Labelled(L, i)
    BY <1>5, <2>1, <2>2 DEF Labelled
  <2>4. \A x \in Labelled(L, i) : LabelAt(L, F, x, i) = LabelAt(L, F, x, i - 1)
    BY <2>3, OthersStay
  <2> QED BY <2>3, <2>4
<1>9. Append(sn, Snap(L, F, i)) = sn2
  <2> DEFINE I == Changes(L, i - 1)
  <2>1. I \in SUBSET (1..(i - 1)) /\ Changes(L, i) = I \cup {i} /\ i \in Int /\ i - 1 \in Nat
    BY IndexStep
  <2>2. IsFiniteSet(I) /\ I \in SUBSET Int /\ \A j \in I : j < i
    <3>1. IsFiniteSet(I) /\ I \in SUBSET Int
      BY <2>1, Indices
    <3> QED BY <2>1, <3>1
  <2>3. snaps[i] = Snap(L, F, i)
    OBVIOUS
  <2> HIDE DEF I, snaps
  <2>4. Select(snaps, I \cup {i}) = Append(Select(snaps, I), snaps[i])
    BY <2>1, <2>2, SelectAppend
  <2> QED BY <2>1, <2>3, <2>4 DEF I
<1> HIDE DEF e, u, n, st, eng, eng2, sch, sch2, lab, lab2, sn, sn2
<1>10. ReplayEvent(st, L[i], FlowWindow, F[L[i].block]) = applyUpdate(st, u, e)
  <2>1. st.err = "ok"
    BY <1>2
  <2> QED BY <1>3, <1>4, <2>1 DEF ReplayEvent, applyAndSnapshot, u
<1>11. applyUpdate(st, u, e) = [err |-> "ok", engines |-> eng2, labels |-> lab, schedules |-> sch2, snapshots |-> sn2]
  <2> DEFINE a == Apply(e, u)  s == Snapshot(a, u)  o == observe(a, u)
  <2>1. applyUpdate(st, u, e) = snapshotOf(st, u, a)
    BY <1>1 DEF applyUpdate
  <2>2. snapshotOf(st, u, a) = [st EXCEPT !.engines = With(@, u.market, o), !.snapshots = Append(@, s),
                                          !.schedules = With(@, u.market, u.resolution)]
    BY <1>1 DEF snapshotOf
  <2> HIDE DEF a, s, o
  <2>3. o = n /\ s = Snap(L, F, i)
    BY <1>1 DEF o, s, a
  <2>4. With(st.engines, u.market, o) = eng2 /\ Append(st.snapshots, s) = sn2
       /\ With(st.schedules, u.market, u.resolution) = sch2
    BY <1>2, <1>4, <1>6, <1>7, <1>9, <2>3
  <2>5. snapshotOf(st, u, a) = [st EXCEPT !.engines = eng2, !.snapshots = sn2, !.schedules = sch2]
    BY <2>2, <2>4
  <2> QED BY <1>2, <2>1, <2>5
<1> QED BY <1>2, <1>8, <1>10, <1>11 DEF st

\* A market keeps its schedule.
LEMMA SameSchedule ==
  ASSUME NEW L, ValidLog(L), NEW F, Finalities(L, F), NEW i \in 1..Len(L), NEW j \in 1..Len(L),
         L[i].market = L[j].market, L[i].kind # "MarketResolved", L[j].kind # "MarketResolved"
  PROVE  L[i].resolution = L[j].resolution /\ At(L, F, i).resolution = At(L, F, j).resolution
<1>1. i \in Int /\ j \in Int
  BY DEF ValidLog
<1>2. L[i].resolution = L[j].resolution
  <2>1. CASE i < j
    BY <2>1 DEF ValidLog
  <2>2. CASE j < i
    BY <2>2 DEF ValidLog
  <2> QED BY <1>1, <2>1, <2>2
<1> QED BY <1>2, UpdateFields

\* A resolution labels a market that is known and changes nothing else.
LEMMA ResolutionStep ==
  ASSUME NEW L, ValidLog(L), NEW F, Finalities(L, F), NEW i \in 1..Len(L), L[i].kind = "MarketResolved"
  PROVE  ReplayEvent(StateAt(L, F, i - 1), L[i], FlowWindow, F[L[i].block]) = StateAt(L, F, i)
<1> DEFINE m == L[i].market  st == StateAt(L, F, i - 1)
           D == Seen(L, i - 1)  A == Labelled(L, i - 1)  B == Labelled(L, i)
           eng == [x \in D |-> EngineAt(L, F, x, i - 1)]
           sch == [x \in D |-> LastUpdate(L, F, x, i - 1).resolution]
           lab == [x \in A |-> LabelAt(L, F, x, i - 1)]  lab2 == [x \in B |-> LabelAt(L, F, x, i)]
           sn == Select([j \in 1..Len(L) |-> Snap(L, F, j)], Changes(L, i - 1))
           l == [scheduled |-> sch[m], available |-> Int64(L[i].time), outcome |-> L[i].outcome]
<1>1. /\ i - 1 \in Nat /\ i \in Nat \ {0} /\ Ends(L, m, i - 1) \in SUBSET (1..(i - 1))
      /\ Changes(L, i) = Changes(L, i - 1) /\ Seen(L, i) = D
      /\ Ends(L, m, i) = Ends(L, m, i - 1) \cup {i}
  <2>1. i - 1 \in Nat /\ i \in Nat \ {0}
    BY IndexStep
  <2>2. Ends(L, m, i - 1) \in SUBSET (1..(i - 1))
    BY IndexStep
  <2>3. Changes(L, i) = Changes(L, i - 1) /\ Seen(L, i) = D
    BY IndexStep
  <2>4. Ends(L, m, i) = Ends(L, m, i - 1) \cup {i}
    BY IndexStep
  <2> QED BY <2>1, <2>2, <2>3, <2>4
<1>2. \A x : Own(L, x, i) = Own(L, x, i - 1)
  BY IndexStep
<1>3. \A x : x # m => Ends(L, x, i) = Ends(L, x, i - 1)
  BY IndexStep
<1>4. \A x : EngineAt(L, F, x, i) = EngineAt(L, F, x, i - 1) /\ LastUpdate(L, F, x, i) = LastUpdate(L, F, x, i - 1)
  BY <1>2 DEF EngineAt, LastUpdate, Flow
<1>5. StateAt(L, F, i) = [err |-> "ok", engines |-> eng, labels |-> lab2, schedules |-> sch, snapshots |-> sn]
  <2>1. [x \in Seen(L, i) |-> EngineAt(L, F, x, i)] = eng
    BY <1>1, <1>4
  <2>2. [x \in Seen(L, i) |-> LastUpdate(L, F, x, i).resolution] = sch
    BY <1>1, <1>4
  <2>3. Select([j \in 1..Len(L) |-> Snap(L, F, j)], Changes(L, i)) = sn
    BY <1>1
  <2> HIDE DEF eng, sch, sn
  <2> QED BY <2>1, <2>2, <2>3 DEF StateAt
<1>6. st = [err |-> "ok", engines |-> eng, labels |-> lab, schedules |-> sch, snapshots |-> sn]
  BY DEF StateAt
<1>7. B = A \cup (IF m \in D THEN {m} ELSE {})
  <2>1. Ends(L, m, i) # {}
    BY <1>1
  <2>2. \A x : x \in B <=> x \in D /\ Ends(L, x, i) # {}
    BY <1>1 DEF Labelled
  <2>3. \A x : x \in A <=> x \in D /\ Ends(L, x, i - 1) # {}
    BY DEF Labelled
  <2> HIDE DEF A, B, D
  <2>4. \A x : x \in B <=> x \in A \/ (x = m /\ m \in D)
    BY <1>3, <2>1, <2>2, <2>3
  <2> QED BY <2>4
<1>8. \A x \in A : x # m => LabelAt(L, F, x, i) = LabelAt(L, F, x, i - 1)
  BY OthersStay
<1>9. m \notin A
  <2> SUFFICES ASSUME NEW j \in Ends(L, m, i - 1) PROVE FALSE
    BY DEF Labelled
  <2>1. j \in 1..Len(L) /\ j < i /\ L[j].market = m /\ L[j].kind = "MarketResolved"
    <3>1. Len(L) \in Nat
      BY DEF ValidLog
    <3> QED BY <3>1 DEF Ends
  <2> QED BY <2>1 DEF ValidLog
<1>10. CASE m \in D
  <2>1. LabelAt(L, F, m, i) = l
    <3>1. Max(Ends(L, m, i - 1) \cup {i}) = i
      BY <1>1, NewLargest
    <3>2. Ending(L, m, i) = L[i]
      BY <1>1, <3>1 DEF Ending
    <3>3. Int64(L[i].time) = L[i].time
      BY UpdateFields
    <3>4. sch[m] = LastUpdate(L, F, m, i).resolution
      BY <1>4, <1>10
    <3> HIDE DEF sch
    <3> QED BY <3>2, <3>3, <3>4 DEF LabelAt
  <2>2. With(lab, m, l) = lab2
    <3>1. DOMAIN lab = A /\ \A x \in A : lab[x] = LabelAt(L, F, x, i - 1)
      OBVIOUS
    <3>2. With(lab, m, l) = [x \in A \cup {m} |-> IF x = m THEN l ELSE lab[x]]
      BY <3>1 DEF With
    <3>3. B = A \cup {m}
      BY <1>7, <1>10
    <3> HIDE DEF lab, l, A, B, m
    <3>4. \A x \in B : (IF x = m THEN l ELSE lab[x]) = LabelAt(L, F, x, i)
      BY <1>8, <2>1, <3>1, <3>3
    <3> QED BY <3>2, <3>3, <3>4
  <2>3. m \in DOMAIN st.schedules /\ st.schedules = sch /\ st.err = "ok" /\ st.labels = lab
    BY <1>6, <1>10
  <2> HIDE DEF st, lab, lab2, sch, eng, sn
  <2>4. ReplayEvent(st, L[i], FlowWindow, F[L[i].block]) = [st EXCEPT !.labels = With(@, m, l)]
    BY <2>3 DEF ReplayEvent, label
  <2>5. [st EXCEPT !.labels = With(@, m, l)] = [st EXCEPT !.labels = lab2]
    BY <2>2, <2>3
  <2> QED BY <1>5, <1>6, <2>4, <2>5 DEF st
<1>11. CASE m \notin D
  <2>1. lab2 = lab
    <3>1. B = A /\ \A x \in A : LabelAt(L, F, x, i) = LabelAt(L, F, x, i - 1)
      BY <1>7, <1>8, <1>9, <1>11
    <3> QED BY <3>1
  <2>2. m \notin DOMAIN st.schedules /\ st.err = "ok"
    BY <1>6, <1>11
  <2> HIDE DEF st, lab, lab2
  <2> QED BY <1>5, <1>6, <2>1, <2>2 DEF ReplayEvent, st
<1> QED BY <1>10, <1>11

\* The replay of a log comes to the closed form of its state.
LEMMA ReplayIsStateAt ==
  ASSUME NEW L, ValidLog(L), NEW F, Finalities(L, F)
  PROVE  Replay(L, FlowWindow, F) = StateAt(L, F, Len(L))
<1> DEFINE n == Len(L)
           R(r) == r = [i \in 0..n |-> IF i = 0 THEN StartState
                                     ELSE ReplayEvent(r[i-1], L[i], FlowWindow, F[L[i].block])]
           s == [i \in 0..n |-> StateAt(L, F, i)]
<1>1. n \in Nat
  BY DEF ValidLog
<1>2. StateAt(L, F, 0) = StartState
  <2>1. Changes(L, 0) = {} /\ Seen(L, 0) = {} /\ Labelled(L, 0) = {}
    BY DEF Changes, Seen, Labelled
  <2>2. Select([j \in 1..Len(L) |-> Snap(L, F, j)], {}) = <<>>
    <3>1. Cardinality({}) = 0
      BY FS_EmptySet
    <3> QED BY <3>1 DEF Select
  <2>3. /\ [m \in {} |-> EngineAt(L, F, m, 0)] = Nothing /\ [m \in {} |-> LabelAt(L, F, m, 0)] = Nothing
        /\ [m \in {} |-> LastUpdate(L, F, m, 0).resolution] = Nothing
    BY DEF Nothing
  <2> QED BY <2>1, <2>2, <2>3 DEF StateAt, StartState
<1>3. \A i \in 1..n : ReplayEvent(StateAt(L, F, i - 1), L[i], FlowWindow, F[L[i].block]) = StateAt(L, F, i)
  BY ChangeStep, ResolutionStep
<1>4. R(s)
  <2>1. \A i \in 0..n : i # 0 => i \in 1..n /\ s[i-1] = StateAt(L, F, i - 1)
    BY <1>1
  <2>2. \A i \in 0..n : s[i] = IF i = 0 THEN StartState ELSE ReplayEvent(s[i-1], L[i], FlowWindow, F[L[i].block])
    BY <1>2, <1>3, <2>1
  <2> QED BY <2>2
<1>5. ASSUME NEW r, R(r) PROVE \A i \in 0..n : r[i] = s[i]
  <2> DEFINE Wrong == {i \in 0..n : r[i] # s[i]}
  <2> SUFFICES ASSUME Wrong # {} PROVE FALSE
    OBVIOUS
  <2>1. PICK i \in Wrong : \A j \in Wrong : i <= j
    <3>1. Wrong \in SUBSET Nat
      OBVIOUS
    <3> HIDE DEF Wrong
    <3> QED BY <3>1, LeastNatural
  <2>2. i \in 0..n /\ r[i] # s[i]
    OBVIOUS
  <2>3. r[0] = StartState /\ \A j \in 1..n : r[j] = ReplayEvent(r[j-1], L[j], FlowWindow, F[L[j].block])
    BY <1>1, <1>5
  <2>4. s[0] = StartState /\ \A j \in 1..n : s[j] = ReplayEvent(s[j-1], L[j], FlowWindow, F[L[j].block])
    <3>1. s[0] = StateAt(L, F, 0) /\ \A j \in 1..n : s[j] = StateAt(L, F, j) /\ s[j-1] = StateAt(L, F, j - 1)
      BY <1>1
    <3> HIDE DEF s
    <3> QED BY <1>2, <1>3, <3>1
  <2>5. i \in 1..n /\ i - 1 \in 0..n /\ ~(i <= i - 1)
    BY <1>1, <2>2, <2>3, <2>4
  <2>6. r[i-1] = s[i-1]
    BY <2>1, <2>5
  <2> HIDE DEF s, R
  <2> QED BY <2>2, <2>3, <2>4, <2>5, <2>6
<1>6. Replay(L, FlowWindow, F) = (CHOOSE r : R(r))[n]
  BY DEF Replay
<1>7. R(CHOOSE r : R(r))
  <2> HIDE DEF R
  <2> QED BY <1>4
<1>8. (CHOOSE r : R(r))[n] = s[n]
  <2> HIDE DEF R, s
  <2> QED BY <1>1, <1>5, <1>7
<1>9. s[n] = StateAt(L, F, n)
  BY <1>1
<1> HIDE DEF s, R
<1> QED BY <1>6, <1>8, <1>9

-----------------------------------------------------------------------------
(* The rows of a log.                                                      *)

\* The changes of resolved markets, and the row of each
Relevant(L) == {i \in Changes(L, Len(L)) : L[i].market \in Labelled(L, Len(L))}
RowAt(L, F, i) == LabelledRow(Snap(L, F, i), LabelAt(L, F, L[i].market, Len(L)))

\* A resolved market has one resolution, after the change and its schedule.
LEMMA RelevantEvent ==
  ASSUME NEW L, ValidLog(L), NEW i \in Relevant(L)
  PROVE  LET k == Max(Ends(L, L[i].market, Len(L))) IN
         /\ i \in 1..Len(L) /\ i \in Int /\ L[i].kind # "MarketResolved"
         /\ L[i].resolution \in Nat /\ Int64(L[i].resolution) = L[i].resolution
         /\ k \in 1..Len(L) /\ L[k].time \in Nat /\ L[k].time < NanoLimit
         /\ L[k].time >= L[i].resolution /\ L[i].time < L[i].resolution
         /\ Ends(L, L[i].market, Len(L)) = {k}
<1> DEFINE n == Len(L)  m == L[i].market  T == Ends(L, m, n)
<1>1. n \in Nat /\ i \in 1..n /\ L[i].kind # "MarketResolved" /\ T \in SUBSET (1..n) /\ T # {}
  BY DEF ValidLog, Relevant, Changes, Labelled, Ends
<1>2. PICK k : k = Max(T)
  OBVIOUS
<1>3. k \in T
  <2> HIDE DEF T
  <2> QED BY <1>1, <1>2, MaxIsLargest
<1>4. \A j \in T : j \in 1..n /\ L[j].market = m /\ L[j].kind = "MarketResolved"
  BY DEF Ends
<1>5. \A j \in T : j = k
  <2> TAKE j \in T
  <2>1. j \in 1..n /\ k \in 1..n /\ L[j].market = L[k].market /\ L[j].kind = "MarketResolved"
       /\ L[k].kind = "MarketResolved"
    BY <1>3, <1>4
  <2>2. ~(j < k) /\ ~(k < j)
    BY <2>1 DEF ValidLog
  <2> QED BY <1>1, <2>1, <2>2
<1>6. i < k
  <2>1. i # k /\ ~(k < i)
    BY <1>1, <1>3, <1>4 DEF ValidLog
  <2> QED BY <1>1, <1>3, <1>4, <2>1
<1>7. L[k].time >= L[i].resolution
  BY <1>1, <1>3, <1>4, <1>6 DEF ValidLog
<1>8. /\ L[i].resolution \in Nat /\ L[k].time \in Nat /\ L[k].time < NanoLimit /\ L[i].time < L[i].resolution
  BY <1>1, <1>3, <1>4 DEF ValidLog, ValidEvent, Position
<1>9. Int64(L[i].resolution) = L[i].resolution
  BY <1>7, <1>8, ProjectionAssumption DEF Int64
<1>10. T = {k}
  BY <1>3, <1>5
<1>11. Max(Ends(L, L[i].market, Len(L))) = k /\ Ends(L, L[i].market, Len(L)) = {k} /\ k \in 1..Len(L)
  BY <1>2, <1>3, <1>4, <1>10
<1> HIDE DEF T
<1> QED BY <1>1, <1>7, <1>8, <1>9, <1>11

\* The fields of a row
LEMMA RowFields ==
  ASSUME NEW L, ValidLog(L), NEW F, Finalities(L, F), NEW i \in Relevant(L)
  PROVE  LET r == RowAt(L, F, i)
             k == Max(Ends(L, L[i].market, Len(L)))
         IN /\ r = [market |-> r.market, block |-> r.block, log |-> r.log, time |-> r.time,
                    resolution |-> r.resolution, finality |-> r.finality, probability |-> r.probability,
                    flow |-> r.flow, depth |-> r.depth, seconds |-> r.seconds, lag |-> r.lag,
                    available |-> r.available, outcome |-> r.outcome]
            /\ r.market = L[i].market /\ r.block = L[i].block /\ r.log = L[i].log /\ r.time = L[i].time
            /\ r.resolution = L[i].resolution /\ r.available = L[k].time /\ r.outcome = L[k].outcome
            /\ r.finality \in 0..FinalityFinalized
            /\ r.probability = YesImpliedProbability(L[i].yes, L[i].no)
            /\ r.flow = RecentTradeFlowImbalance(TradesOf(Flow(L, L[i].market, i)))
            /\ r.depth = LiquidityDepth(L[i].yes, L[i].no)
            /\ r.seconds = SecondsToResolution(L[i].time, L[i].resolution) /\ r.lag = 0
<1> DEFINE u == At(L, F, i)  s == Snap(L, F, i)  l == LabelAt(L, F, L[i].market, Len(L))  r == RowAt(L, F, i)
           k == Max(Ends(L, L[i].market, Len(L)))  w == Flow(L, L[i].market, i)
<1>1. i \in 1..Len(L) /\ Int64(L[i].resolution) = L[i].resolution
  BY RelevantEvent
<1>2. /\ u.market = L[i].market /\ u.block = L[i].block /\ u.log = L[i].log /\ u.time = L[i].time
      /\ u.resolution = L[i].resolution /\ u.finality \in 0..FinalityFinalized
      /\ u.yes = L[i].yes /\ u.no = L[i].no /\ u.block \in Nat
  BY <1>1, UpdateFields
<1>3. l.available = L[k].time /\ l.outcome = L[k].outcome
  BY DEF LabelAt, Ending
<1>4. s = FeaturesAt(u, w, u)
  BY DEF Snap
<1>5. r = LabelledRow(s, l)
  BY DEF RowAt
<1> HIDE DEF u, s, l, r, w, k
<1>6. /\ s.market = u.market /\ s.block = u.block /\ s.log = u.log /\ s.time = u.time
      /\ s.resolution = u.resolution /\ s.finality = u.finality
      /\ s.probability = YesImpliedProbability(u.yes, u.no) /\ s.flow = RecentTradeFlowImbalance(TradesOf(w))
      /\ s.depth = LiquidityDepth(u.yes, u.no) /\ s.seconds = SecondsToResolution(u.time, u.resolution)
      /\ s.lag = u.block - u.block
  BY <1>4 DEF FeaturesAt, BlockLag
<1>7. /\ r = [market |-> r.market, block |-> r.block, log |-> r.log, time |-> r.time,
              resolution |-> r.resolution, finality |-> r.finality, probability |-> r.probability,
              flow |-> r.flow, depth |-> r.depth, seconds |-> r.seconds, lag |-> r.lag,
              available |-> r.available, outcome |-> r.outcome]
      /\ r.market = s.market /\ r.block = s.block /\ r.log = s.log /\ r.time = s.time
      /\ r.resolution = s.resolution /\ r.available = l.available /\ r.outcome = l.outcome
      /\ r.finality = s.finality /\ r.probability = s.probability /\ r.flow = s.flow
      /\ r.depth = s.depth /\ r.seconds = s.seconds /\ r.lag = s.lag
  BY <1>5 DEF LabelledRow
<1>8. s.lag = 0
  BY <1>2, <1>6
<1> QED BY <1>2, <1>3, <1>6, <1>7, <1>8 DEF r, k, w

\* The events of a window are the market's trades or none.
LEMMA FlowWindowFits ==
  ASSUME NEW L, ValidLog(L), NEW i \in 0..Len(L), NEW m
  PROVE  /\ Flow(L, m, i) \in Seq(Trades \cup {None})
         /\ \A j \in 1..Len(Flow(L, m, i)) : Flow(L, m, i)[j] # None
              => Flow(L, m, i)[j] \in {t \in Trades : ValidTrade(t)}
<1> DEFINE ts == [j \in 1..Len(L) |-> L[j].trade]  I == Own(L, m, i)  q == Select(ts, I)
           G == {t \in Trades : ValidTrade(t)} \cup {None}
<1>1. \A j \in I : j \in 1..Len(L) /\ L[j].kind # "MarketResolved"
  BY DEF Own, Changes, ValidLog
<1>2. \A j \in I : ts[j] \in G
  BY <1>1 DEF ValidLog, ValidEvent
<1>3. IsFiniteSet(I) /\ I \in SUBSET Int
  <2>1. I \in SUBSET (1..Len(L)) /\ Len(L) \in Nat
    BY <1>1 DEF ValidLog
  <2> HIDE DEF I
  <2> QED BY <2>1, Indices
<1>4. q \in Seq(G)
  <2> HIDE DEF I, ts, G
  <2> QED BY <1>2, <1>3, Selected
<1>5. Flow(L, m, i) \in Seq(G)
  <2>1. FlowWindow \in Nat
    BY WindowPositive
  <2> HIDE DEF q, G
  <2>2. LastOf(FlowWindow, q) \in Seq(G)
    BY <1>4, <2>1, LastOfMembers
  <2> QED BY <2>2 DEF Flow, q
<1>6. \A j \in 1..Len(Flow(L, m, i)) : Flow(L, m, i)[j] \in G
  <2> HIDE DEF G
  <2> QED BY <1>5, ElementOfSeq
<1> HIDE DEF q, I, ts
<1> QED BY <1>5, <1>6

\* A row of a resolved market is valid.
LEMMA RowFits ==
  ASSUME NEW L, ValidLog(L), NEW F, Finalities(L, F), NEW i \in Relevant(L)
  PROVE  ValidRow(RowAt(L, F, i))
<1> DEFINE r == RowAt(L, F, i)  k == Max(Ends(L, L[i].market, Len(L)))
           w == Flow(L, L[i].market, i)  G == {t \in Trades : ValidTrade(t)}  S == Trades \cup {None}
<1>1. /\ i \in 1..Len(L) /\ i \in Int /\ L[i].kind # "MarketResolved" /\ L[i].resolution \in Nat
      /\ L[k].time \in Nat /\ L[k].time < NanoLimit
      /\ L[k].time >= L[i].resolution /\ L[i].time < L[i].resolution
  BY RelevantEvent
<1>2. /\ r.time = L[i].time /\ r.resolution = L[i].resolution /\ r.available = L[k].time
      /\ r.probability = YesImpliedProbability(L[i].yes, L[i].no)
      /\ r.flow = RecentTradeFlowImbalance(TradesOf(w))
      /\ r.depth = LiquidityDepth(L[i].yes, L[i].no) /\ r.seconds = SecondsToResolution(L[i].time, L[i].resolution)
      /\ r.market = L[i].market /\ r.finality \in 0..FinalityFinalized
  BY RowFields
<1>3. L[i].yes \in Int /\ L[i].no \in Int /\ ValidReserves(L[i].yes, L[i].no) /\ L[i].time \in Nat
      /\ L[i].market \in MarketId
  BY <1>1 DEF ValidLog, ValidEvent, Position
<1>4. w \in Seq(S) /\ \A j \in 1..Len(w) : w[j] # None => w[j] \in G
  <2>1. i \in 0..Len(L)
    BY <1>1
  <2> QED BY <2>1, FlowWindowFits
<1>5. \A t \in G : ValidTrade(t) /\ t.amount \in Int
  BY DatasetAssumption
<1> HIDE DEF w, G, S, r, k
<1>6. LET q == YesImpliedProbability(L[i].yes, L[i].no)
          f == RecentTradeFlowImbalance(TradesOf(w))
      IN q # NaN /\ 0 <= q[1] /\ q[1] <= q[2] /\ f # NaN /\ q[1] \in Nat /\ q[2] \in Nat
  <2> PICK a, b : a = L[i].yes /\ b = L[i].no
    OBVIOUS
  <2> QED BY <1>3, <1>4, <1>5, ExactQuotients
<1>7. \A t \in {r.time, r.resolution, r.available} : unixNanoRepresentable(t)
  BY <1>1, <1>2, <1>3, ProjectionAssumption DEF unixNanoRepresentable
<1>8. r.available >= r.resolution /\ r.available > r.time /\ r.resolution >= r.time
  BY <1>1, <1>2, <1>3
<1>9. r.probability # NaN /\ r.flow # NaN /\ r.probability[1] >= 0 /\ r.probability[1] <= r.probability[2]
  BY <1>2, <1>6
<1>10. Finite(r.depth) /\ Finite(r.seconds)
  <2>1. FloatMax \in Nat /\ MaxSeconds \in Nat /\ MaxSeconds <= FloatMax
    BY FeatureAssumption
  <2>2. Finite(LiquidityDepth(L[i].yes, L[i].no))
    BY <1>3 DEF LiquidityDepth, ValidReserves, validReserve
  <2>3. Finite(SecondsToResolution(L[i].time, L[i].resolution))
    BY <1>1, <1>3, <2>1 DEF SecondsToResolution, Finite
  <2> QED BY <1>2, <2>2, <2>3
<1>11. r.market # "" /\ r.finality <= FinalityFinalized
  <2>1. r.market # ""
    BY <1>2, <1>3, ColumnsAssumption
  <2>2. r.finality \in 0..FinalityFinalized
    BY <1>2
  <2>3. \A n \in 0..FinalityFinalized : n <= FinalityFinalized
    BY DEF FinalityFinalized
  <2> QED BY <2>1, <2>2, <2>3
<1> QED BY <1>7, <1>8, <1>9, <1>10, <1>11 DEF ValidRow, r

\* Selecting from a selection: which elements, in which order
LEMMA SelectTwice ==
  ASSUME NEW s, NEW I \in SUBSET Int, IsFiniteSet(I), NEW K \in SUBSET (1..Cardinality(I))
  PROVE  LET q == Select(Select(s, I), K) IN
         /\ Len(q) \in Nat /\ Len(q) = Cardinality(K) /\ DOMAIN q = 1..Len(q)
         /\ \E J \in [1..Len(q) -> I] :
              /\ \A k \in 1..Len(q) : q[k] = s[J[k]]
              /\ \A k, l \in 1..Len(q) : k < l => J[k] < J[l]
              /\ \A k \in 1..Len(q) : \E j \in K : J[k] = Nth(I, j)
              /\ \A j \in K : \E k \in 1..Len(q) : J[k] = Nth(I, j)
<1> DEFINE p == Select(s, I)  q == Select(p, K)  n == Cardinality(K)  J == [k \in 1..n |-> Nth(I, Nth(K, k))]
<1>1. /\ Cardinality(I) \in Nat
      /\ \A k \in 1..Cardinality(I) : Nth(I, k) \in I
      /\ \A k, l \in 1..Cardinality(I) : k < l => Nth(I, k) < Nth(I, l)
  BY NthEnumerates
<1>2. IsFiniteSet(K) /\ K \in SUBSET Int
  BY <1>1, Indices
<1>3. /\ n \in Nat
      /\ \A k \in 1..n : Nth(K, k) \in K
      /\ \A k, l \in 1..n : k < l => Nth(K, k) < Nth(K, l)
      /\ \A j \in K : \E k \in 1..n : Nth(K, k) = j
  BY <1>2, NthEnumerates
<1>4. p = [k \in 1..Cardinality(I) |-> s[Nth(I, k)]] /\ q = [k \in 1..n |-> p[Nth(K, k)]]
  BY DEF Select
<1>5. Len(q) = n /\ DOMAIN q = 1..n /\ \A k \in 1..n : q[k] = s[Nth(I, Nth(K, k))]
  <2>1. \A k \in 1..n : q[k] = p[Nth(K, k)]
    <3> HIDE DEF p, n
    <3> QED BY <1>4
  <2>2. \A j \in K : p[j] = s[Nth(I, j)]
    BY <1>4
  <2>3. Len(q) = n /\ DOMAIN q = 1..n
    <3> HIDE DEF p, n
    <3> QED BY <1>3, <1>4
  <2> HIDE DEF p, q, n
  <2> QED BY <1>3, <2>1, <2>2, <2>3
<1>6. J \in [1..n -> I] /\ \A k \in 1..n : J[k] = Nth(I, Nth(K, k))
  BY <1>1, <1>3
<1>7. \A k, l \in 1..n : k < l => J[k] < J[l]
  <2> HIDE DEF J, n
  <2> SUFFICES ASSUME NEW k \in 1..n, NEW l \in 1..n, k < l PROVE J[k] < J[l]
    OBVIOUS
  <2>1. Nth(K, k) < Nth(K, l) /\ Nth(K, k) \in 1..Cardinality(I) /\ Nth(K, l) \in 1..Cardinality(I)
    BY <1>3
  <2> QED BY <1>1, <1>6, <2>1
<1>8. \A k \in 1..n : \E j \in K : J[k] = Nth(I, j)
  <2> HIDE DEF J, n
  <2> QED BY <1>3, <1>6
<1>9. \A j \in K : \E k \in 1..n : J[k] = Nth(I, j)
  <2> HIDE DEF J, n
  <2> QED BY <1>3, <1>6
<1>10. \A k \in 1..n : q[k] = s[J[k]]
  <2> HIDE DEF J, n, q
  <2> QED BY <1>5, <1>6
<1> HIDE DEF J, q, n
<1>11. /\ Len(q) \in Nat /\ Len(q) = n /\ DOMAIN q = 1..Len(q)
       /\ J \in [1..Len(q) -> I]
       /\ \A k \in 1..Len(q) : q[k] = s[J[k]]
       /\ \A k, l \in 1..Len(q) : k < l => J[k] < J[l]
       /\ \A k \in 1..Len(q) : \E j \in K : J[k] = Nth(I, j)
       /\ \A j \in K : \E k \in 1..Len(q) : J[k] = Nth(I, j)
  BY <1>3, <1>5, <1>6, <1>7, <1>8, <1>9, <1>10
<1> QED BY <1>11 DEF q, p, n

\* The snapshots of resolved markets in a state of the replay
SnapshotsKept(st) ==
  Select(st.snapshots, {k \in 1..Len(st.snapshots) : st.snapshots[k].market \in DOMAIN st.labels})

\* The snapshots of the markets with a label
LEMMA ResolvedSnapshots ==
  ASSUME NEW L, ValidLog(L), NEW F, Finalities(L, F)
  PROVE  LET q == SnapshotsKept(StateAt(L, F, Len(L)))
         IN /\ Len(q) \in Nat /\ DOMAIN q = 1..Len(q)
            /\ \E J \in [1..Len(q) -> Relevant(L)] :
                 /\ \A k \in 1..Len(q) : q[k] = Snap(L, F, J[k])
                 /\ \A k, l \in 1..Len(q) : k < l => J[k] < J[l]
                 /\ \A i \in Relevant(L) : \E k \in 1..Len(q) : J[k] = i
<1> DEFINE n == Len(L)  st == StateAt(L, F, n)  snaps == [j \in 1..n |-> Snap(L, F, j)]
           C == Changes(L, n)  p == Select(snaps, C)  c == Cardinality(C)
           K == {k \in 1..Len(p) : p[k].market \in Labelled(L, n)}  q == Select(p, K)
<1>1. st.snapshots = p /\ DOMAIN st.labels = Labelled(L, n)
  BY DEF StateAt
<1>2. n \in Nat /\ C \in SUBSET (1..n)
  BY DEF ValidLog, Changes
<1>3. IsFiniteSet(C) /\ C \in SUBSET Int
  <2> HIDE DEF C
  <2> QED BY <1>2, Indices
<1>4. \A i \in C : snaps[i] = Snap(L, F, i) /\ Snap(L, F, i).market = L[i].market
  <2> TAKE i \in C
  <2>1. i \in 1..n
    BY <1>2
  <2>2. Snap(L, F, i).market = At(L, F, i).market
    BY DEF Snap, FeaturesAt
  <2> QED BY <2>1, <2>2, UpdateFields
<1>5. /\ Len(p) = c /\ c \in Nat
      /\ \A k \in 1..c : Nth(C, k) \in C /\ p[k] = snaps[Nth(C, k)]
      /\ \A i \in C : \E k \in 1..c : Nth(C, k) = i
  <2> HIDE DEF C, snaps
  <2>1. /\ c \in Nat /\ \A k \in 1..c : Nth(C, k) \in C
        /\ \A i \in C : \E k \in 1..c : Nth(C, k) = i
    BY <1>3, NthEnumerates
  <2>2. p = [k \in 1..c |-> snaps[Nth(C, k)]]
    BY DEF Select
  <2> HIDE DEF p, c
  <2> QED BY <2>1, <2>2
<1> HIDE DEF C, snaps
<1>6. \A k \in 1..c : p[k].market = L[Nth(C, k)].market
  <2> HIDE DEF c, p
  <2> QED BY <1>4, <1>5
<1>7. \A i : i \in Relevant(L) <=> \E k \in K : i = Nth(C, k)
  <2>1. \A i : i \in Relevant(L) <=> i \in C /\ L[i].market \in Labelled(L, n)
    BY DEF Relevant, C
  <2>2. \A k : k \in K <=> k \in 1..c /\ L[Nth(C, k)].market \in Labelled(L, n)
    BY <1>5, <1>6
  <2> HIDE DEF K, c, p
  <2> QED BY <1>5, <2>1, <2>2
<1>8. K \in SUBSET (1..c)
  BY <1>5
<1> HIDE DEF K
<1>9. /\ Len(q) \in Nat /\ DOMAIN q = 1..Len(q)
      /\ \E J \in [1..Len(q) -> C] :
           /\ \A k \in 1..Len(q) : q[k] = snaps[J[k]]
           /\ \A k, l \in 1..Len(q) : k < l => J[k] < J[l]
           /\ \A k \in 1..Len(q) : \E j \in K : J[k] = Nth(C, j)
           /\ \A j \in K : \E k \in 1..Len(q) : J[k] = Nth(C, j)
  BY <1>3, <1>8, SelectTwice
<1> HIDE DEF p, c, q
<1>10. PICK J \in [1..Len(q) -> C] :
           /\ \A k \in 1..Len(q) : q[k] = snaps[J[k]]
           /\ \A k, l \in 1..Len(q) : k < l => J[k] < J[l]
           /\ \A k \in 1..Len(q) : \E j \in K : J[k] = Nth(C, j)
           /\ \A j \in K : \E k \in 1..Len(q) : J[k] = Nth(C, j)
  BY <1>9
<1>11. J \in [1..Len(q) -> Relevant(L)]
  BY <1>7, <1>10
<1>12. /\ \A k \in 1..Len(q) : q[k] = Snap(L, F, J[k])
       /\ \A k, l \in 1..Len(q) : k < l => J[k] < J[l]
       /\ \A i \in Relevant(L) : \E k \in 1..Len(q) : J[k] = i
  <2>1. \A k \in 1..Len(q) : q[k] = Snap(L, F, J[k])
    BY <1>4, <1>10
  <2>2. \A i \in Relevant(L) : \E k \in 1..Len(q) : J[k] = i
    BY <1>7, <1>10
  <2> QED BY <1>10, <2>1, <2>2
<1>13. q = SnapshotsKept(st)
  BY <1>1 DEF q, K, SnapshotsKept
<1> HIDE DEF st
<1> QED BY <1>9, <1>11, <1>12, <1>13 DEF st

\* J lists the relevant changes in order.
Lists(J, n, L) ==
  /\ n \in Nat /\ J \in [1..n -> Relevant(L)]
  /\ \A k, l \in 1..n : k < l => J[k] < J[l]
  /\ \A i \in Relevant(L) : \E k \in 1..n : J[k] = i

RowsAt(L, F, J, n) == [k \in 1..n |-> RowAt(L, F, J[k])]

\* Rows in the order of the log pass the exporter's own checks.
LEMMA RowsValidate ==
  ASSUME NEW L, ValidLog(L), NEW F, Finalities(L, F), NEW J, NEW n, Lists(J, n, L), n # 0
  PROVE  validate(RowsAt(L, F, J, n))
<1> DEFINE r == RowsAt(L, F, J, n)  k(i) == Max(Ends(L, L[J[i]].market, Len(L)))
<1>1. n \in Nat /\ Len(r) = n /\ r # <<>> /\ \A i \in 1..n : J[i] \in Relevant(L) /\ r[i] = RowAt(L, F, J[i])
  BY DEF Lists, RowsAt
<1>2. \A i \in 1..n : J[i] \in 1..Len(L) /\ J[i] \in Int /\ L[J[i]].kind # "MarketResolved"
  BY <1>1, RelevantEvent
<1>3. ASSUME NEW i \in 1..n
      PROVE  /\ r[i].market = L[J[i]].market /\ r[i].block = L[J[i]].block /\ r[i].log = L[J[i]].log
             /\ r[i].time = L[J[i]].time /\ r[i].resolution = L[J[i]].resolution
             /\ r[i].available = L[k(i)].time /\ r[i].outcome = L[k(i)].outcome
  <2> DEFINE x == J[i]
  <2>1. x \in Relevant(L) /\ r[i] = RowAt(L, F, x)
    BY <1>1
  <2> HIDE DEF x, r
  <2>2. LET a == RowAt(L, F, x)  b == Max(Ends(L, L[x].market, Len(L)))
        IN /\ a.market = L[x].market /\ a.block = L[x].block /\ a.log = L[x].log /\ a.time = L[x].time
           /\ a.resolution = L[x].resolution /\ a.available = L[b].time /\ a.outcome = L[b].outcome
    BY <2>1, RowFields
  <2> QED BY <2>1, <2>2 DEF x
<1> HIDE DEF r, k
<1>4. \A i \in 1..Len(r) : ValidRow(r[i])
  BY <1>1, RowFits
<1>5. \A i \in 2..Len(r) : OrderedRow(r[i], r[i-1])
  <2> TAKE i \in 2..Len(r)
  <2>1. i \in 1..n /\ i - 1 \in 1..n /\ i - 1 < i
    BY <1>1
  <2>2. J[i-1] < J[i]
    BY <2>1 DEF Lists
  <2>3. After(L[J[i]], L[J[i-1]]) /\ L[J[i]].time >= L[J[i-1]].time
    BY <1>2, <2>1, <2>2 DEF ValidLog
  <2> QED BY <1>3, <2>1, <2>3 DEF OrderedRow, After
<1>6. \A i, j \in 1..Len(r) : SameLabel(r[i], r[j])
  <2> SUFFICES ASSUME NEW i \in 1..n, NEW j \in 1..n, r[i].market = r[j].market
               PROVE  r[i].resolution = r[j].resolution /\ r[i].available = r[j].available
                    /\ r[i].outcome = r[j].outcome
    BY <1>1 DEF SameLabel
  <2>1. L[J[i]].market = L[J[j]].market
    BY <1>3
  <2>2. k(i) = k(j)
    BY <2>1 DEF k
  <2>3. L[J[i]].resolution = L[J[j]].resolution
    BY <1>2, <2>1, SameSchedule
  <2> QED BY <1>3, <2>2, <2>3
<1> QED BY <1>1, <1>4, <1>5, <1>6 DEF validate, r

\* The export of a log is the rows of its relevant changes, or nothing.
LEMMA ExportIsRows ==
  ASSUME NEW L, ValidLog(L), NEW F, Finalities(L, F)
  PROVE  \E n, J :
           /\ Lists(J, n, L)
           /\ n # 0 => validate(RowsAt(L, F, J, n))
           /\ ProjectCanonical(L, FlowWindow, F) =
                IF n = 0 THEN [err |-> "empty", rows |-> <<>>] ELSE [err |-> "ok", rows |-> RowsAt(L, F, J, n)]
<1> DEFINE st == StateAt(L, F, Len(L))
           q == SnapshotsKept(st)
           n == Len(q)  M == {q[k].market : k \in 1..n}  labels == [m \in M |-> st.labels[m]]
<1>1. /\ n \in Nat /\ DOMAIN q = 1..n
      /\ \E J \in [1..n -> Relevant(L)] :
           /\ \A k \in 1..n : q[k] = Snap(L, F, J[k])
           /\ \A k, l \in 1..n : k < l => J[k] < J[l]
           /\ \A i \in Relevant(L) : \E k \in 1..n : J[k] = i
  BY ResolvedSnapshots
<1>2. st.err = "ok" /\ st.labels = [m \in Labelled(L, Len(L)) |-> LabelAt(L, F, m, Len(L))]
  BY DEF StateAt
<1>3. ProjectCanonical(L, FlowWindow, F) = Assemble(q, labels)
  <2>1. Replay(L, FlowWindow, F) = st
    BY ReplayIsStateAt
  <2>2. Projected(st) = AssembleResolved(q, st.labels)
    <3> HIDE DEF st
    <3> QED BY <1>2 DEF Projected, SnapshotsKept
  <2>3. AssembleResolved(q, st.labels) = Assemble(q, labels)
    <3> HIDE DEF st, q
    <3> QED BY DEF AssembleResolved
  <2> HIDE DEF st, q, labels
  <2> QED BY <2>1, <2>2, <2>3 DEF ProjectCanonical
<1> HIDE DEF st, q
<1>4. PICK J \in [1..n -> Relevant(L)] :
           /\ \A k \in 1..n : q[k] = Snap(L, F, J[k])
           /\ \A k, l \in 1..n : k < l => J[k] < J[l]
           /\ \A i \in Relevant(L) : \E k \in 1..n : J[k] = i
  BY <1>1
<1>5. Lists(J, n, L)
  BY <1>1, <1>4 DEF Lists
<1>6. ASSUME NEW k \in 1..n
      PROVE  LET m == L[J[k]].market IN
             /\ q[k].market = m /\ m \in M /\ m \in Labelled(L, Len(L)) /\ labels[m] = LabelAt(L, F, m, Len(L))
             /\ q[k].resolution = labels[m].scheduled
  <2> DEFINE i == J[k]  m == L[i].market  j == Max(Own(L, m, Len(L)))
  <2>1. i \in Relevant(L)
    BY <1>4
  <2>2. i \in 1..Len(L) /\ i \in Changes(L, Len(L)) /\ L[i].kind # "MarketResolved" /\ m \in Labelled(L, Len(L))
       /\ Len(L) \in 0..Len(L)
    BY <2>1 DEF Relevant, Changes, ValidLog
  <2>3. q[k] = Snap(L, F, i)
    BY <1>4
  <2> HIDE DEF i
  <2>4. q[k].market = At(L, F, i).market /\ q[k].resolution = At(L, F, i).resolution
    BY <2>3 DEF Snap, FeaturesAt
  <2>5. At(L, F, i).market = m
    BY <2>2, UpdateFields
  <2>6. q[k].market = m /\ m \in M
    BY <2>4, <2>5
  <2>7. labels[m] = LabelAt(L, F, m, Len(L))
    <3> HIDE DEF m, M
    <3> QED BY <1>2, <2>2, <2>6
  <2>8. Own(L, m, Len(L)) # {}
    BY <2>2 DEF Own
  <2>9. j \in 1..Len(L) /\ L[j].market = m /\ L[j].kind # "MarketResolved"
    <3> HIDE DEF m
    <3> QED BY <2>2, <2>8, LastChange
  <2>10. At(L, F, i).resolution = At(L, F, j).resolution
    <3> HIDE DEF j
    <3> QED BY <2>2, <2>9, SameSchedule
  <2>11. LabelAt(L, F, m, Len(L)).scheduled = At(L, F, j).resolution
    BY <2>8 DEF LabelAt, LastUpdate
  <2> HIDE DEF labels, M
  <2> QED BY <2>2, <2>4, <2>6, <2>7, <2>10, <2>11 DEF i
<1>7. CASE n = 0
  <2>1. q = <<>>
    BY <1>1, <1>7
  <2>2. Assemble(q, labels) = [err |-> "empty", rows |-> <<>>]
    BY <2>1 DEF Assemble
  <2> QED BY <1>3, <1>5, <1>7, <2>2
<1>8. CASE n # 0
  <2> DEFINE r == RowsAt(L, F, J, n)
  <2>1. q # <<>>
    BY <1>8
  <2>2. Matched(q, labels)
    <3>1. "" \notin M
      <4> SUFFICES ASSUME NEW k \in 1..n PROVE q[k].market # ""
        OBVIOUS
      <4>1. q[k].market = L[J[k]].market
        BY <1>6
      <4>2. J[k] \in 1..Len(L)
        BY <1>4, RelevantEvent
      <4>3. L[J[k]].market \in MarketId
        BY <4>2 DEF ValidLog, ValidEvent
      <4> QED BY <4>1, <4>3, ColumnsAssumption
    <3> QED BY <1>6, <3>1 DEF Matched
  <2>3. [k \in 1..Len(q) |-> LabelledRow(q[k], labels[q[k].market])] = r
    <3>1. \A k \in 1..n : LabelledRow(q[k], labels[q[k].market]) = RowAt(L, F, J[k])
      BY <1>4, <1>6 DEF RowAt
    <3> HIDE DEF labels
    <3> QED BY <3>1 DEF RowsAt
  <2>4. validate(r)
    BY <1>5, <1>8, RowsValidate
  <2> HIDE DEF r, labels
  <2>5. Assemble(q, labels) = [err |-> "ok", rows |-> r]
    BY <2>1, <2>2, <2>3, <2>4 DEF Assemble, Validated
  <2> QED BY <1>3, <1>5, <1>8, <2>4, <2>5 DEF r
<1> QED BY <1>7, <1>8

\* The rows of a log as a set
RowSet(L, F) == {RowAt(L, F, i) : i \in Relevant(L)}

\* The export has every row once.
LEMMA ExportElements ==
  ASSUME NEW L, ValidLog(L), NEW F, Finalities(L, F)
  PROVE  LET e == ProjectCanonical(L, FlowWindow, F) IN
         /\ e.err \in {"ok", "empty"}
         /\ Elements(e.rows) = RowSet(L, F) /\ Len(e.rows) = Cardinality(RowSet(L, F))
<1>1. PICK n, J :
        /\ Lists(J, n, L)
        /\ ProjectCanonical(L, FlowWindow, F) =
             IF n = 0 THEN [err |-> "empty", rows |-> <<>>] ELSE [err |-> "ok", rows |-> RowsAt(L, F, J, n)]
  BY ExportIsRows
<1> DEFINE e == ProjectCanonical(L, FlowWindow, F)  r == RowsAt(L, F, J, n)  S == RowSet(L, F)
<1>2. n \in Nat /\ r = [k \in 1..n |-> RowAt(L, F, J[k])]
  BY <1>1 DEF Lists, RowsAt
<1>3. e.err \in {"ok", "empty"} /\ e.rows = r
  <2>1. n = 0 => r = <<>>
    BY <1>2
  <2>2. e = IF n = 0 THEN [err |-> "empty", rows |-> <<>>] ELSE [err |-> "ok", rows |-> r]
    BY <1>1
  <2> HIDE DEF r, e
  <2>3. CASE n = 0
    <3>1. e = [err |-> "empty", rows |-> <<>>]
      BY <2>2, <2>3
    <3> QED BY <2>1, <2>3, <3>1
  <2>4. CASE n # 0
    <3>1. e = [err |-> "ok", rows |-> r]
      BY <2>2, <2>4
    <3> QED BY <3>1
  <2> QED BY <2>3, <2>4
<1>4. Len(r) = n /\ \A k \in 1..n : J[k] \in Relevant(L) /\ r[k] = RowAt(L, F, J[k])
  BY <1>1, <1>2 DEF Lists
<1>5. {r[k] : k \in 1..n} = S
  <2>1. \A i \in Relevant(L) : \E k \in 1..n : J[k] = i
    BY <1>1 DEF Lists
  <2> HIDE DEF r
  <2> QED BY <1>4, <2>1 DEF RowSet
<1>6. \A k, l \in 1..n : k < l => r[k] # r[l]
  <2> SUFFICES ASSUME NEW k \in 1..n, NEW l \in 1..n, k < l PROVE r[k] # r[l]
    OBVIOUS
  <2> DEFINE i == J[k]  j == J[l]
  <2>1. i \in Relevant(L) /\ j \in Relevant(L) /\ r[k] = RowAt(L, F, i) /\ r[l] = RowAt(L, F, j)
    BY <1>4
  <2>2. i < j
    BY <1>1 DEF Lists
  <2> HIDE DEF i, j, r
  <2>3. i \in 1..Len(L) /\ j \in 1..Len(L)
    BY <2>1, RelevantEvent
  <2>4. After(L[j], L[i])
    BY <2>2, <2>3 DEF ValidLog
  <2>5. L[i].block \in Nat /\ L[i].log \in Nat
    BY <2>3, UpdateFields
  <2>6. L[i].block # L[j].block \/ L[i].log # L[j].log
    BY <2>4, <2>5 DEF After
  <2>7. r[k].block = L[i].block /\ r[k].log = L[i].log
    BY <2>1, RowFields
  <2>8. r[l].block = L[j].block /\ r[l].log = L[j].log
    BY <2>1, RowFields
  <2> QED BY <2>6, <2>7, <2>8
<1>7. r \in Bijection(1..n, S)
  <2>1. \A k, l \in 1..n : r[k] = r[l] => k = l
    <3> HIDE DEF r
    <3>1. \A k, l \in 1..n : k < l \/ l < k \/ k = l
      BY <1>2
    <3> QED BY <1>6, <3>1
  <2>2. r \in [1..n -> S]
    <3>1. \A k \in 1..n : r[k] \in S
      BY <1>5
    <3>2. r = [k \in 1..n |-> r[k]]
      BY <1>2
    <3> HIDE DEF r, S
    <3> QED BY <3>1, <3>2
  <2> HIDE DEF r, S
  <2> QED BY <1>5, <2>1, <2>2 DEF Bijection, Injection, Surjection, IsInjective
<1>8. Cardinality(S) = n
  <2>1. IsFiniteSet(1..n) /\ Cardinality(1..n) = n
    <3>1. 1 \in Int /\ n \in Int /\ (IF 1 > n THEN 0 ELSE n - 1 + 1) = n
      BY <1>2
    <3> QED BY <3>1, FS_Interval
  <2> HIDE DEF r, S
  <2> QED BY <1>7, <2>1, FS_Bijection DEF ExistsBijection
<1> HIDE DEF r, S, e
<1>9. Elements(e.rows) = S /\ Len(e.rows) = Cardinality(S)
  BY <1>3, <1>4, <1>5, <1>8 DEF Elements
<1> QED BY <1>3, <1>9 DEF e, S

\* The rows read off the events directly are those of the closed form.
LEMMA ReferenceIsRowSet ==
  ASSUME NEW start, ValidLog(Indexed(start)), Finalities(Indexed(start), Finality)
  PROVE  ReferenceRows(start) = RowSet(Indexed(start), Finality)
<1> DEFINE L == Indexed(start)  F == Finality  index == 1..Len(L)
           resolution(i) == {j \in index : L[j].market = L[i].market /\ L[j].kind = "MarketResolved"}
           past(i) == {j \in 1..i : L[j].market = L[i].market}
           trades(i) == Select([j \in index |-> L[j].trade], past(i))
           u(i) == UpdateOf(L[i], F[L[i].block])
           snapshot(i) == FeaturesAt(u(i), LastOf(FlowWindow, trades(i)), u(i))
           rowsOf(i) == {LabelledRow(snapshot(i), [available |-> L[j].time, outcome |-> L[j].outcome])
                            : j \in resolution(i)}
           changes == {i \in index : L[i].kind # "MarketResolved"}
<1>0. ValidLog(L) /\ Finalities(L, F)
  OBVIOUS
<1>1. ReferenceRows(start) = UNION {rowsOf(i) : i \in changes}
  BY DEF ReferenceRows
<1> HIDE DEF L, F
<1>2. \A i \in index : resolution(i) = Ends(L, L[i].market, Len(L))
  BY DEF Ends
<1>3. changes = Changes(L, Len(L))
  BY DEF Changes
<1>4. Relevant(L) = {i \in changes : resolution(i) # {}}
  <2>1. \A i \in changes : L[i].market \in Labelled(L, Len(L)) <=> resolution(i) # {}
    BY <1>2, <1>3 DEF Labelled, Seen
  <2> HIDE DEF resolution, changes
  <2> QED BY <1>3, <2>1 DEF Relevant
<1>5. ASSUME NEW i \in changes PROVE snapshot(i) = Snap(L, F, i)
  <2>1. past(i) = Own(L, L[i].market, i)
    <3>0. i \in 1..Len(L) /\ Len(L) \in Nat /\ L[i].kind # "MarketResolved"
      BY <1>0 DEF ValidLog
    <3>1. \A j \in past(i) : j \in 1..Len(L) /\ (j < i \/ j = i) /\ L[j].market = L[i].market
      BY <3>0
    <3>2. \A j \in past(i) : L[j].kind # "MarketResolved"
      <4> HIDE DEF past
      <4> QED BY <1>0, <3>0, <3>1 DEF ValidLog
    <3> QED BY <3>2 DEF Own, Changes
  <2> HIDE DEF past
  <2>2. trades(i) = Select([j \in 1..Len(L) |-> L[j].trade], Own(L, L[i].market, i))
    BY <2>1
  <2> HIDE DEF trades
  <2> QED BY <2>2 DEF Snap, At, Flow
<1>6. ASSUME NEW i \in Relevant(L) PROVE rowsOf(i) = {RowAt(L, F, i)} /\ i \in changes
  <2> DEFINE k == Max(Ends(L, L[i].market, Len(L)))
  <2>1. i \in 1..Len(L) /\ L[i].kind # "MarketResolved" /\ Ends(L, L[i].market, Len(L)) = {k}
    <3> HIDE DEF k
    <3> QED BY <1>0, RelevantEvent DEF k
  <2>2. i \in changes
    BY <2>1
  <2>3. resolution(i) = {k} /\ snapshot(i) = Snap(L, F, i)
    <3> HIDE DEF k, resolution, snapshot, changes
    <3> QED BY <1>2, <1>5, <2>1, <2>2
  <2>4. LabelledRow(Snap(L, F, i), [available |-> L[k].time, outcome |-> L[k].outcome]) = RowAt(L, F, i)
    <3> DEFINE s == Snap(L, F, i)
    <3>1. LabelAt(L, F, L[i].market, Len(L)).available = L[k].time
         /\ LabelAt(L, F, L[i].market, Len(L)).outcome = L[k].outcome
      BY DEF LabelAt, Ending
    <3> HIDE DEF s, k
    <3>2. RowAt(L, F, i) = LabelledRow(s, LabelAt(L, F, L[i].market, Len(L)))
      BY DEF RowAt, s
    <3>3. LabelledRow(s, [available |-> L[k].time, outcome |-> L[k].outcome]) = RowAt(L, F, i)
      BY <3>1, <3>2 DEF LabelledRow
    <3> QED BY <3>3 DEF s
  <2> HIDE DEF k, resolution, snapshot
  <2> QED BY <2>2, <2>3, <2>4
<1>7. \A i \in changes : i \notin Relevant(L) => rowsOf(i) = {}
  <2> HIDE DEF changes, resolution, snapshot
  <2> QED BY <1>4
<1> HIDE DEF changes, rowsOf
<1>8. UNION {rowsOf(i) : i \in changes} = {RowAt(L, F, i) : i \in Relevant(L)}
  BY <1>6, <1>7
<1> QED BY <1>1, <1>8 DEF RowSet, L, F

-----------------------------------------------------------------------------
(* The contract's log is such a log.                                       *)

LEMMA EventsValid ==
  ASSUME LogInv, MarketLifecycle
  PROVE  ValidLog(events)
<1>1. Len(events) \in Nat /\ DOMAIN events = 1..Len(events)
  BY DEF LogInv
<1>2. ASSUME NEW i \in 1..Len(events) PROVE ValidEvent(events[i])
  <2> DEFINE e == events[i]
  <2>1. Written(e)
    BY DEF LogInv
  <2>2. e.kind # "MarketResolved" => e.time < e.resolution
    BY <1>1, <1>2 DEF MarketLifecycle
  <2> HIDE DEF e
  <2>3. /\ e.market \in MarketId /\ e.yes \in Nat /\ e.no \in Nat /\ e.resolution \in ResolutionTime \cup {0}
        /\ e.trade \in Trades \cup {NoTrade} /\ e.block \in Nat /\ e.log \in Nat /\ e.time \in Time
        /\ e.outcome \in BOOLEAN
    BY <2>1 DEF Written, Event
  <2>4. e.time \in Nat /\ e.time < NanoLimit /\ e.resolution \in Nat
    <3>1. Time \subseteq Nat /\ ResolutionTime \subseteq Nat
      BY FixtureAssumption
    <3>2. \A t \in Time : t < NanoLimit
      BY DatasetAssumption
    <3>3. e.time \in Nat
      BY <2>3, <3>1
    <3>4. e.time < NanoLimit
      BY <2>3, <3>2
    <3>5. e.resolution \in Nat
      <4>1. e.resolution \in ResolutionTime \cup {0}
        BY <2>3
      <4>2. ResolutionTime \cup {0} \subseteq Nat
        BY <3>1
      <4> QED BY <4>1, <4>2
    <3> QED BY <3>3, <3>4, <3>5
  <2>5. ASSUME e.kind # "MarketResolved" PROVE ValidReserves(e.yes, e.no)
    <3>1. <<e.yes, e.no>> \in Reserves /\ e.yes > 0 /\ e.no > 0
      BY <2>1, <2>5 DEF Written
    <3>2. Finite(e.yes) /\ Finite(e.no)
      <4> DEFINE pair == <<e.yes, e.no>>
      <4>1. pair[1] = e.yes /\ pair[2] = e.no
        OBVIOUS
      <4> HIDE DEF pair
      <4>2. Finite(pair[1]) /\ Finite(pair[2])
        BY <3>1, DataFits DEF pair
      <4> QED BY <4>1, <4>2
    <3> QED BY <2>3, <3>1, <3>2 DEF ValidReserves, validReserve
  <2>6. ASSUME e.trade # None PROVE ValidTrade(e.trade)
    <3>1. e.trade \in Trades /\ e.trade.amount > 0
      BY <2>1, <2>6, DatasetAssumption DEF Written
    <3> QED BY <3>1, DataFits DEF ValidTrade
  <2>7. e.trade \in Trades \cup {None}
    BY <2>3, DatasetAssumption
  <2> QED BY <2>2, <2>3, <2>4, <2>5, <2>6, <2>7 DEF ValidEvent, Position, e
<1>3. \A i, j \in 1..Len(events) : i < j => After(events[j], events[i]) /\ events[j].time >= events[i].time
  BY DEF LogInv
<1>4. \A i, j \in 1..Len(events) : i < j /\ events[i].market = events[j].market =>
        /\ events[i].kind # "MarketResolved"
        /\ IF events[j].kind = "MarketResolved" THEN events[j].time >= events[i].resolution
           ELSE events[j].resolution = events[i].resolution
  BY <1>1 DEF MarketLifecycle
<1> QED BY <1>1, <1>2, <1>3, <1>4 DEF ValidLog

\* So is a part of a log.
LEMMA PartValid ==
  ASSUME NEW L, ValidLog(L), NEW M, Len(M) \in Nat, DOMAIN M = 1..Len(M),
         NEW J \in [1..Len(M) -> 1..Len(L)], \A k \in 1..Len(M) : M[k] = L[J[k]],
         \A k, l \in 1..Len(M) : k < l => J[k] < J[l]
  PROVE  ValidLog(M)
<1>1. \A i \in 1..Len(M) : ValidEvent(M[i])
  BY DEF ValidLog
<1>2. \A i, j \in 1..Len(M) : i < j => After(M[j], M[i]) /\ M[j].time >= M[i].time
  BY DEF ValidLog
<1>3. \A i, j \in 1..Len(M) : i < j /\ M[i].market = M[j].market =>
        /\ M[i].kind # "MarketResolved"
        /\ IF M[j].kind = "MarketResolved" THEN M[j].time >= M[i].resolution
           ELSE M[j].resolution = M[i].resolution
  BY DEF ValidLog
<1> QED BY <1>1, <1>2, <1>3 DEF ValidLog

LEMMA PrefixValid ==
  ASSUME NEW L, ValidLog(L), NEW n \in 1..Len(L)
  PROVE  LET P == SubSeq(L, 1, n) IN
         /\ ValidLog(P) /\ Len(P) = n /\ \A i \in 1..n : P[i] = L[i]
<1> DEFINE P == SubSeq(L, 1, n)  J == [k \in 1..n |-> k]
<1>1. Len(L) \in Nat /\ n \in Nat /\ n <= Len(L)
  BY DEF ValidLog
<1>2. Len(P) = n /\ DOMAIN P = 1..n /\ \A i \in 1..n : P[i] = L[i]
  BY <1>1
<1> HIDE DEF P
<1>3. J \in [1..n -> 1..Len(L)] /\ \A k \in 1..n : J[k] = k
  BY <1>1
<1> HIDE DEF J
<1>4. ValidLog(P)
  BY <1>1, <1>2, <1>3, PartValid
<1> QED BY <1>2, <1>4 DEF P

LEMMA IndexedValid ==
  ASSUME LogInv, MarketLifecycle, NEW start
  PROVE  /\ ValidLog(Indexed(start)) /\ Finalities(Indexed(start), Finality)
         /\ Finalities(Indexed(start), [b \in 1..block |-> 0])
         /\ \A k \in 1..Len(Indexed(start)) : Indexed(start)[k].block \in 1..block
<1> DEFINE I == {i \in 1..Len(events) : events[i].block >= start}  n == Cardinality(I)
           M == Indexed(start)  J == [k \in 1..n |-> Nth(I, k)]
<1>1. Len(events) \in Nat /\ ValidLog(events)
  BY EventsValid DEF LogInv
<1>2. I \in SUBSET (1..Len(events))
  OBVIOUS
<1>3. M = Select(events, I)
  BY DEF Indexed
<1> HIDE DEF I
<1>4. IsFiniteSet(I) /\ I \in SUBSET Int
  BY <1>1, <1>2, Indices
<1>5. /\ n \in Nat /\ \A k \in 1..n : Nth(I, k) \in I
      /\ \A k, l \in 1..n : k < l => Nth(I, k) < Nth(I, l)
  BY <1>4, NthEnumerates
<1>6. M = [k \in 1..n |-> events[Nth(I, k)]]
  BY <1>3 DEF Select
<1> HIDE DEF M, n
<1>7. Len(M) = n /\ DOMAIN M = 1..n /\ \A k \in 1..n : M[k] = events[Nth(I, k)]
  BY <1>5, <1>6
<1>8. /\ J \in [1..n -> 1..Len(events)] /\ \A k \in 1..n : M[k] = events[J[k]]
      /\ \A k, l \in 1..n : k < l => J[k] < J[l]
  BY <1>2, <1>5, <1>7
<1> HIDE DEF J
<1>9. ValidLog(M)
  <2>1. Len(M) \in Nat /\ DOMAIN M = 1..Len(M)
    BY <1>5, <1>7
  <2>2. J \in [1..Len(M) -> 1..Len(events)] /\ \A k \in 1..Len(M) : M[k] = events[J[k]]
    BY <1>7, <1>8
  <2>3. \A k, l \in 1..Len(M) : k < l => J[k] < J[l]
    BY <1>7, <1>8
  <2> QED BY <1>1, <2>1, <2>2, <2>3, PartValid
<1>10. \A k \in 1..Len(M) : M[k].block \in 1..block
  BY <1>7, <1>8 DEF LogInv
<1>11. Finalities(M, Finality) /\ Finalities(M, [b \in 1..block |-> 0])
  <2>1. \A b \in 1..block : Finality[b] \in 0..FinalityFinalized /\ [c \in 1..block |-> 0][b] \in 0..FinalityFinalized
    BY DEF Finality, FinalityFinalized
  <2> QED BY <1>10, <2>1 DEF Finalities
<1> QED BY <1>9, <1>10, <1>11 DEF M

LEMMA ExportsAreReference ==
  ASSUME LogInv, MarketLifecycle
  PROVE  ExportIsReference
<1> SUFFICES ASSUME NEW start
             PROVE  LET e == Export(start)  reference == ReferenceRows(start) IN
                    e.err \in {"ok", "empty"} /\ Elements(e.rows) = reference /\ Len(e.rows) = Cardinality(reference)
  BY DEF ExportIsReference
<1> DEFINE L == Indexed(start)
<1>1. ValidLog(L) /\ Finalities(L, Finality)
  BY IndexedValid
<1>2. ReferenceRows(start) = RowSet(L, Finality)
  BY <1>1, ReferenceIsRowSet
<1>3. Export(start) = ProjectCanonical(L, FlowWindow, Finality)
  BY DEF Export
<1> HIDE DEF L
<1> QED BY <1>1, <1>2, <1>3, ExportElements

\* What is selected depends on the selected elements only.
LEMMA SameSelected ==
  ASSUME NEW s, NEW t, NEW I \in SUBSET Int, IsFiniteSet(I), \A i \in I : s[i] = t[i]
  PROVE  Select(s, I) = Select(t, I)
<1>1. \A k \in 1..Cardinality(I) : Nth(I, k) \in I
  BY NthEnumerates
<1>2. \A k \in 1..Cardinality(I) : s[Nth(I, k)] = t[Nth(I, k)]
  BY <1>1
<1> QED BY <1>2 DEF Select

\* The row of a change is fixed once its market is resolved.
LEMMA RowStays ==
  ASSUME NEW L, ValidLog(L), NEW F, NEW n \in 1..Len(L), NEW P, ValidLog(P), Len(P) = n, \A i \in 1..n : P[i] = L[i],
         NEW i \in Relevant(P)
  PROVE  i \in Relevant(L) /\ RowAt(P, F, i) = RowAt(L, F, i)
<1> DEFINE m == L[i].market  k == Max(Ends(P, P[i].market, Len(P)))
<1>1. Len(L) \in Nat /\ n \in Nat /\ n <= Len(L)
  BY DEF ValidLog
<1>2. i \in 1..n /\ i \in Int /\ P[i].kind # "MarketResolved" /\ k \in 1..n /\ Ends(P, P[i].market, Len(P)) = {k}
  <2> HIDE DEF k
  <2> QED BY RelevantEvent DEF k
<1>3. P[i] = L[i] /\ P[i].market = m /\ i \in 1..Len(L)
  BY <1>1, <1>2
<1> HIDE DEF k
<1>4. k \in Ends(L, m, Len(L))
  <2>1. P[k].market = m /\ P[k].kind = "MarketResolved"
    BY <1>2, <1>3 DEF Ends
  <2> QED BY <1>1, <1>2, <2>1 DEF Ends
<1>5. i \in Relevant(L)
  <2>1. i \in Changes(L, Len(L))
    BY <1>2, <1>3 DEF Changes
  <2> QED BY <1>4, <2>1 DEF Relevant, Labelled, Seen
<1>6. Max(Ends(L, m, Len(L))) = k
  <2>1. Ends(L, m, Len(L)) = {Max(Ends(L, m, Len(L)))}
    BY <1>5, RelevantEvent
  <2> HIDE DEF m
  <2> QED BY <1>4, <2>1
<1>7. Own(P, m, i) = Own(L, m, i)
  <2>1. \A j \in 1..i : P[j] = L[j]
    BY <1>1, <1>2
  <2> HIDE DEF m
  <2> QED BY <2>1 DEF Own, Changes
<1>8. Flow(P, m, i) = Flow(L, m, i)
  <2> DEFINE I == Own(L, m, i)  s == [j \in 1..Len(P) |-> P[j].trade]  t == [j \in 1..Len(L) |-> L[j].trade]
  <2>1. I \in SUBSET (1..i)
    BY DEF Own, Changes
  <2>2. IsFiniteSet(I) /\ I \in SUBSET Int
    <3> HIDE DEF I
    <3>1. i \in Nat
      BY <1>2
    <3> QED BY <2>1, <3>1, Indices
  <2>3. \A j \in I : s[j] = t[j]
    <3> HIDE DEF I
    <3>1. \A j \in I : j \in 1..n /\ j \in 1..Len(L)
      BY <1>1, <1>2, <2>1
    <3> QED BY <3>1
  <2>4. Select(s, I) = Select(t, I)
    <3> HIDE DEF I, s, t
    <3> QED BY <2>2, <2>3, SameSelected
  <2> QED BY <1>7, <2>4 DEF Flow
<1>9. Snap(P, F, i) = Snap(L, F, i)
  <2>1. At(P, F, i) = At(L, F, i)
    BY <1>3 DEF At
  <2> QED BY <1>3, <1>8, <2>1 DEF Snap
<1>10. /\ LabelAt(P, F, m, Len(P)).available = LabelAt(L, F, m, Len(L)).available
       /\ LabelAt(P, F, m, Len(P)).outcome = LabelAt(L, F, m, Len(L)).outcome
  <2>1. Ending(P, m, Len(P)) = Ending(L, m, Len(L))
    <3>1. Ending(P, m, Len(P)) = P[k]
      BY <1>3 DEF Ending, k
    <3>2. Ending(L, m, Len(L)) = L[k]
      BY <1>6 DEF Ending
    <3> QED BY <1>2, <3>1, <3>2
  <2> HIDE DEF m
  <2> QED BY <2>1 DEF LabelAt
<1>11. RowAt(P, F, i) = RowAt(L, F, i)
  <2> DEFINE a == LabelAt(P, F, m, Len(P))  b == LabelAt(L, F, m, Len(L))  s == Snap(L, F, i)
  <2>1. RowAt(P, F, i) = LabelledRow(s, a) /\ RowAt(L, F, i) = LabelledRow(s, b)
    BY <1>3, <1>9 DEF RowAt
  <2> HIDE DEF a, b, s
  <2>2. LabelledRow(s, a) = LabelledRow(s, b)
    <3>1. a.available = b.available /\ a.outcome = b.outcome
      BY <1>10 DEF a, b
    <3> QED BY <3>1 DEF LabelledRow
  <2> QED BY <2>1, <2>2
<1> QED BY <1>5, <1>11

LEMMA ExportsAreStable ==
  ASSUME LogInv, MarketLifecycle
  PROVE  RowsAreStable
<1> DEFINE F == [b \in 1..block |-> 0]
<1> SUFFICES ASSUME NEW start, NEW n \in 1..Len(Indexed(start))
             PROVE  RowsOf(SubSeq(Indexed(start), 1, n)) \subseteq RowsOf(Indexed(start))
  BY DEF RowsAreStable
<1> DEFINE L == Indexed(start)  P == SubSeq(L, 1, n)
<1>1. ValidLog(L) /\ Finalities(L, F)
  BY IndexedValid
<1>2. n \in 1..Len(L)
  OBVIOUS
<1> HIDE DEF L
<1>3. ValidLog(P) /\ Len(P) = n /\ \A i \in 1..n : P[i] = L[i]
  BY <1>1, <1>2, PrefixValid
<1> HIDE DEF P, F
<1>4. Finalities(P, F)
  <2>1. 1..n \subseteq 1..Len(L)
    BY <1>1, <1>2 DEF ValidLog
  <2> QED BY <1>1, <1>3, <2>1 DEF Finalities
<1>5. RowsOf(L) = RowSet(L, F)
  BY <1>1, ExportElements DEF RowsOf, F
<1>6. RowsOf(P) = RowSet(P, F)
  BY <1>3, <1>4, ExportElements DEF RowsOf, F
<1>7. RowSet(P, F) \subseteq RowSet(L, F)
  <2>1. \A i \in Relevant(P) : i \in Relevant(L) /\ RowAt(P, F, i) = RowAt(L, F, i)
    BY <1>1, <1>2, <1>3, RowStays
  <2> QED BY <2>1 DEF RowSet
<1> QED BY <1>5, <1>6, <1>7 DEF P, L

\* An int64 holds the nanoseconds of every time of a row.
LEMMA NanosRepresent ==
  ASSUME NEW t \in Int, unixNanoRepresentable(t)
  PROVE  UnixNano(t) = t
<1>1. NanoLimit \in Nat /\ 0 < t + NanoLimit /\ t + NanoLimit < 2 * NanoLimit
  BY ProjectionAssumption DEF unixNanoRepresentable
<1>2. \A x, y \in Nat : x < y => x % y = x
  OBVIOUS
<1>3. (t + NanoLimit) % (2 * NanoLimit) = t + NanoLimit
  <2>1. t + NanoLimit \in Nat /\ 2 * NanoLimit \in Nat
    BY <1>1
  <2> QED BY <1>1, <1>2, <2>1
<1> QED BY <1>1, <1>3 DEF UnixNano

LEMMA ExportsLoad ==
  ASSUME LogInv, MarketLifecycle
  PROVE  ExportLoads
<1> SUFFICES ASSUME NEW start, Export(start).err = "ok"
             PROVE  LET columns == toParquetRows(Export(start).rows)
                    IN validate_values(columns) /\ ReadParquet(columns) = Export(start)
  BY DEF ExportLoads
<1> DEFINE L == Indexed(start)  F == Finality
<1>1. ValidLog(L) /\ Finalities(L, F) /\ Export(start) = ProjectCanonical(L, FlowWindow, F)
  BY IndexedValid DEF Export
<1> HIDE DEF L, F
<1>2. PICK n, J : /\ Lists(J, n, L)
                  /\ n # 0 => validate(RowsAt(L, F, J, n))
                  /\ ProjectCanonical(L, FlowWindow, F) =
                       IF n = 0 THEN [err |-> "empty", rows |-> <<>>] ELSE [err |-> "ok", rows |-> RowsAt(L, F, J, n)]
  BY <1>1, ExportIsRows
<1> DEFINE r == RowsAt(L, F, J, n)
<1>3. Export(start) = [err |-> "ok", rows |-> r] /\ n # 0
  <2> HIDE DEF r
  <2>1. n # 0
    BY <1>1, <1>2
  <2> QED BY <1>1, <1>2, <2>1 DEF r
<1>4. n \in Nat /\ Len(r) = n /\ DOMAIN r = 1..n /\ r = [k \in 1..n |-> r[k]]
  BY <1>2 DEF Lists, RowsAt
<1>5. ASSUME NEW k \in 1..n
      PROVE  /\ [r[k] EXCEPT !.time = UnixNano(@), !.resolution = UnixNano(@), !.available = UnixNano(@)] = r[k]
             /\ r[k].finality \in 0..FinalityFinalized
             /\ r[k].time \in Nat /\ r[k].resolution \in Nat /\ r[k].available \in Nat
             /\ ValidRow(r[k]) /\ r[k].lag = 0 /\ r[k].outcome \in BOOLEAN
  <2> DEFINE i == J[k]  x == RowAt(L, F, i)  e == Max(Ends(L, L[i].market, Len(L)))
  <2>1. i \in Relevant(L) /\ r[k] = x
    BY <1>2 DEF Lists, RowsAt
  <2> HIDE DEF i
  <2>2. /\ i \in 1..Len(L) /\ L[i].resolution \in Nat /\ L[e].time \in Nat
    BY <1>1, <2>1, RelevantEvent
  <2>3. L[i].time \in Nat
    BY <1>1, <2>2 DEF ValidLog, ValidEvent, Position
  <2>4. /\ x = [market |-> x.market, block |-> x.block, log |-> x.log, time |-> x.time,
                resolution |-> x.resolution, finality |-> x.finality, probability |-> x.probability,
                flow |-> x.flow, depth |-> x.depth, seconds |-> x.seconds, lag |-> x.lag,
                available |-> x.available, outcome |-> x.outcome]
        /\ x.time = L[i].time /\ x.resolution = L[i].resolution /\ x.available = L[e].time
        /\ x.finality \in 0..FinalityFinalized /\ x.lag = 0 /\ x.outcome = L[e].outcome
    BY <1>1, <2>1, RowFields
  <2>5. ValidRow(x)
    BY <1>1, <2>1, RowFits
  <2>9. L[e].outcome \in BOOLEAN
    <3>1. e \in 1..Len(L)
      BY <1>1, <2>1, RelevantEvent
    <3> HIDE DEF e
    <3> QED BY <1>1, <3>1 DEF ValidLog, ValidEvent
  <2> HIDE DEF x, e, r
  <2>6. x.time \in Nat /\ x.resolution \in Nat /\ x.available \in Nat
    BY <2>2, <2>3, <2>4
  <2>7. UnixNano(x.time) = x.time /\ UnixNano(x.resolution) = x.resolution /\ UnixNano(x.available) = x.available
    <3>1. \A t \in {x.time, x.resolution, x.available} : unixNanoRepresentable(t)
      BY <2>5 DEF ValidRow
    <3> QED BY <2>6, <3>1, NanosRepresent
  <2>8. [x EXCEPT !.time = UnixNano(@), !.resolution = UnixNano(@), !.available = UnixNano(@)] = x
    <3>1. [x EXCEPT !.time = x.time, !.resolution = x.resolution, !.available = x.available] = x
      BY <2>4
    <3> QED BY <2>7, <3>1
  <2> QED BY <2>1, <2>4, <2>5, <2>6, <2>8, <2>9
<1>6. validate(r)
  BY <1>2, <1>3
<1> HIDE DEF r
<1>7. toParquetRows(r) = r
  <2>1. toParquetRows(r) = [k \in 1..n |-> r[k]]
    BY <1>4, <1>5 DEF toParquetRows
  <2> QED BY <1>4, <2>1
<1>8. ReadParquet(r) = [err |-> "ok", rows |-> r]
  <2>1. fromParquetRows(r) = [err |-> "ok", rows |-> r]
    BY <1>4, <1>5 DEF fromParquetRows
  <2> QED BY <1>6, <2>1 DEF ReadParquet, Validated
<1>9. validate_values(r)
  <2>1. \A k \in 1..Len(r) : /\ r[k].probability[1] >= 0 /\ r[k].probability[1] <= r[k].probability[2]
                             /\ r[k].finality \in 0..2 /\ r[k].resolution >= r[k].time
                             /\ r[k].market # "" /\ r[k].outcome \in BOOLEAN
    BY <1>4, <1>5 DEF ValidRow, FinalityFinalized
  <2>5. \A k \in 1..Len(r) : FiniteFeatures(r[k])
    <3> SUFFICES ASSUME NEW k \in 1..n PROVE FiniteFeatures(r[k])
      BY <1>4
    <3>1. /\ r[k].probability # NaN /\ r[k].flow # NaN /\ Finite(r[k].depth) /\ Finite(r[k].seconds)
          /\ r[k].lag = 0
      BY <1>5 DEF ValidRow
    <3>2. MaxFloat = FloatMax /\ FloatMax \in Nat
      BY ColumnsAssumption, FeatureAssumption
    <3> QED BY <3>1, <3>2 DEF FiniteFeatures, NaN, Finite
  <2>2. \A k \in 2..Len(r) : OrderedPosition(r[k], r[k-1]) /\ r[k].time >= r[k-1].time
    BY <1>6 DEF validate, OrderedRow, After, OrderedPosition
  <2>3. \A m : ValidMarket(r, m)
    <3>1. ASSUME NEW k \in 1..n, NEW l \in 1..n, r[k].market = r[l].market
          PROVE  /\ r[k].resolution = r[l].resolution /\ r[k].available = r[l].available
                 /\ r[k].outcome = r[l].outcome /\ r[k].available >= r[k].resolution
                 /\ r[k].available > r[l].time
      <4>1. SameLabel(r[k], r[l])
        BY <1>4, <1>6 DEF validate
      <4>2. r[k].available >= r[k].resolution /\ r[l].available > r[l].time
        BY <1>5 DEF ValidRow
      <4> QED BY <3>1, <4>1, <4>2 DEF SameLabel
    <3>2. \A m : \A k \in RowsOfMarket(r, m) : k \in 1..n /\ r[k].market = m
      BY <1>4 DEF RowsOfMarket
    <3> QED BY <3>1, <3>2 DEF ValidMarket
  <2>4. r # <<>>
    BY <1>6 DEF validate
  <2> QED BY <2>1, <2>2, <2>3, <2>4, <2>5 DEF validate_values
<1> QED BY <1>3, <1>7, <1>8, <1>9

(* Whatever the markets' callers do and whichever block the store begins   *)
(* with, an export has exactly one row per change of a resolved market,    *)
(* with the features of that market's own last events and the outcome and  *)
(* the time of its resolution, and never fails.                            *)
THEOREM ExportsStayReference == FixtureSpec => []ExportIsReference
<1>1. LogInv /\ MarketInv => ExportIsReference
  BY ExportsAreReference DEF MarketInv
<1> QED BY <1>1, LogInit, LogStep, MarketInit, MarketStep, PTL DEF FixtureSpec

(* Rows that have been exported are never withdrawn and never change: the  *)
(* replay is causal.                                                       *)
THEOREM ExportedRowsStay == FixtureSpec => []RowsAreStable
<1>1. LogInv /\ MarketInv => RowsAreStable
  BY ExportsAreStable DEF MarketInv
<1> QED BY <1>1, LogInit, LogStep, MarketInit, MarketStep, PTL DEF FixtureSpec

(* Every data set that is written can be read, by the Go reader and by the *)
(* Python loader, and no time in it wraps.                                 *)
THEOREM ExportsStayLoadable == FixtureSpec => []ExportLoads
<1>1. LogInv /\ MarketInv => ExportLoads
  BY ExportsLoad DEF MarketInv
<1> QED BY <1>1, LogInit, LogStep, MarketInit, MarketStep, PTL DEF FixtureSpec
=============================================================================
