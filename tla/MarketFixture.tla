--------------------------- MODULE MarketFixture ---------------------------
(***************************************************************************)
(* contracts/src/BellwetherMarketFixture.sol: markets are created, change  *)
(* liquidity, record trades and are resolved by transactions in blocks of  *)
(* increasing time.  A reverted call changes nothing and emits nothing.    *)
(***************************************************************************)
EXTENDS Integers, Sequences, FiniteSets

CONSTANTS
  MarketId, ZeroId,  \* market ids the callers use; bytes32(0)
  Time,              \* block timestamps
  ResolutionTime,    \* resolution times callers ask for
  Reserves,          \* pairs of reserves callers pass, zero included
  Trades,            \* [direction, amount] callers pass, a zero amount included
  NoTrade,           \* the trade of an event that has none
  MaxEvents          \* bound: events in one behaviour

ASSUME FixtureAssumption ==
  /\ ZeroId \notin MarketId
  /\ Time \subseteq Nat /\ ResolutionTime \subseteq Nat /\ MaxEvents \in Nat
  /\ Reserves \subseteq Nat \X Nat

VARIABLES
  markets,  \* s_markets
  events,   \* the contract's logs in chain order
  block,    \* block.number
  now       \* block.timestamp

fixtureVars == <<markets, events, block, now>>

NoMarket == [exists |-> FALSE, resolved |-> FALSE, outcome |-> FALSE, resolution |-> 0, yes |-> 0, no |-> 0]

Positive(r) == r[1] > 0 /\ r[2] > 0

Exists(id) == id # ZeroId /\ markets[id].exists           \* _existingMarket
\* Faulty variant of Open: the resolution time is not looked at.
OpenUntilResolved(id) == Exists(id) /\ ~markets[id].resolved

Open(id) == Exists(id) /\ ~markets[id].resolved /\ now < markets[id].resolution   \* _openMarket

\* The index of the next log of the current block
LogIndex == Cardinality({i \in 1..Len(events) : events[i].block = block})

Emit(e) ==
  /\ Len(events) < MaxEvents
  /\ events' = Append(events, [e EXCEPT !.block = block, !.log = LogIndex, !.time = now])

\* An event of market id after a change of its state to m
Changed(id, m, trade) ==
  [kind |-> IF trade = NoTrade THEN "LiquidityChanged" ELSE "Trade", market |-> id,
   yes |-> m.yes, no |-> m.no, resolution |-> m.resolution, trade |-> trade, outcome |-> FALSE,
   block |-> 0, log |-> 0, time |-> 0]

Resolved(id, outcome) ==
  [Changed(id, NoMarket, NoTrade) EXCEPT !.kind = "MarketResolved", !.outcome = outcome]

-----------------------------------------------------------------------------
FixtureInit ==
  /\ markets = [id \in MarketId |-> NoMarket]
  /\ events = <<>>
  /\ block = 1 /\ now \in Time

CreateMarket(id, resolution, r) ==
  /\ id # ZeroId /\ Positive(r) /\ resolution > now /\ ~markets[id].exists
  /\ markets' = [markets EXCEPT ![id] =
                   [exists |-> TRUE, resolved |-> FALSE, outcome |-> FALSE,
                    resolution |-> resolution, yes |-> r[1], no |-> r[2]]]
  /\ Emit(Changed(id, markets'[id], NoTrade))
  /\ UNCHANGED <<block, now>>

SetLiquidity(id, r) ==
  /\ Positive(r) /\ Open(id)
  /\ markets' = [markets EXCEPT ![id].yes = r[1], ![id].no = r[2]]
  /\ Emit(Changed(id, markets'[id], NoTrade))
  /\ UNCHANGED <<block, now>>

RecordTrade(id, trade, r) ==
  /\ trade.amount > 0 /\ Positive(r) /\ Open(id)
  /\ markets' = [markets EXCEPT ![id].yes = r[1], ![id].no = r[2]]
  /\ Emit(Changed(id, markets'[id], trade))
  /\ UNCHANGED <<block, now>>

\* Faulty variants stand before the definitions they would replace.
ResolveMarketTwice(id, outcome) ==
  /\ Exists(id) /\ now >= markets[id].resolution
  /\ markets' = [markets EXCEPT ![id].resolved = TRUE, ![id].outcome = outcome]
  /\ Emit(Resolved(id, outcome))
  /\ UNCHANGED <<block, now>>

ResolveMarket(id, outcome) ==
  /\ Exists(id) /\ ~markets[id].resolved /\ now >= markets[id].resolution
  /\ markets' = [markets EXCEPT ![id].resolved = TRUE, ![id].outcome = outcome]
  /\ Emit(Resolved(id, outcome))
  /\ UNCHANGED <<block, now>>

\* The next block: one number higher, at a later time
Mine ==
  /\ block' = block + 1
  /\ now' \in {t \in Time : t > now}
  /\ UNCHANGED <<markets, events>>

FixtureNext ==
  \/ \E id \in MarketId \cup {ZeroId} :
       \/ \E t \in ResolutionTime, r \in Reserves : CreateMarket(id, t, r)
       \/ \E r \in Reserves : SetLiquidity(id, r)
       \/ \E trade \in Trades, r \in Reserves : RecordTrade(id, trade, r)
       \/ \E outcome \in BOOLEAN : ResolveMarket(id, outcome)
  \/ Mine

FixtureSpec == FixtureInit /\ [][FixtureNext]_fixtureVars

-----------------------------------------------------------------------------
(* The log of every market is one life: every change carries the same      *)
(* schedule and happens before it, and there is at most one resolution,    *)
(* last and not before the schedule (BellwetherMarketFixture.sol:55-60,    *)
(* 102-108, 140-145).                                                      *)
MarketLifecycle ==
  \A i, j \in 1..Len(events) :
    i <= j /\ events[i].market = events[j].market =>
      LET earlier == events[i]  later == events[j]
      IN /\ earlier.kind = "MarketResolved" => i = j
         /\ earlier.kind # "MarketResolved" =>
              /\ earlier.time < earlier.resolution
              /\ IF later.kind = "MarketResolved" THEN later.time >= earlier.resolution
                 ELSE later.resolution = earlier.resolution
=============================================================================
