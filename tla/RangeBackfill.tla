---------------------------- MODULE RangeBackfill ----------------------------
(***************************************************************************)
(* internal/base/backfill.go: Backfiller.Backfill reads the logs of an     *)
(* inclusive block range in bounded RPC requests.  It halves the request   *)
(* when the provider refuses one, grows it again after a success, and      *)
(* hands the logs of each reply, sorted, to the caller's emit function.    *)
(***************************************************************************)
EXTENDS Integers, Sequences

CONSTANTS
  FromBlock, ToBlock, MinRange, MaxRange,  \* BackfillConfig
  MaxUint,                                 \* the largest uint64
  Log                                      \* the contract's logs in the range

\* NewBackfiller's checks, and what a log of the range is.
ASSUME BackfillAssumption ==
  /\ {FromBlock, ToBlock, MinRange, MaxRange, MaxUint} \subseteq Nat
  /\ FromBlock <= ToBlock /\ ToBlock <= MaxUint
  /\ 0 < MinRange /\ MinRange <= MaxRange /\ MaxRange <= MaxUint
  /\ Log \subseteq [block: FromBlock..ToBlock, tx: Nat, index: Nat]

VARIABLES
  next,     \* the first block not yet fetched
  size,     \* the length of the next request
  to,       \* the last block of the latest request
  pending,  \* logs of the last reply that are still to be emitted
  emitted,  \* what emit was called with, in order
  pc,       \* "request", "asked", "emit", or how the call ended
  requests  \* the requests that were answered, oldest first

vars == <<next, size, to, pending, emitted, pc, requests>>

-----------------------------------------------------------------------------
\* uint64 addition and subtraction
Uint(n) == IF n > MaxUint THEN n - (MaxUint + 1) ELSE IF n < 0 THEN n + (MaxUint + 1) ELSE n

\* Faulty variants stand before the definitions they would replace.
inclusiveEndWrapping(from, length, last) ==
  IF Uint(from + length) > last THEN last ELSE Uint(from + length - 1)

inclusiveEnd(from, length, last) ==
  IF Uint(length - 1) >= Uint(last - from) THEN last
  ELSE Uint(Uint(from + length) - 1)

growRange(current) ==
  IF current >= MaxRange \/ Uint(MaxRange - current) <= MinRange THEN MaxRange
  ELSE Uint(current + MinRange)

\* sort.Slice's order: by block, transaction and log index
Before(l, m) ==
  \/ l.block < m.block
  \/ l.block = m.block /\ l.tx < m.tx
  \/ l.block = m.block /\ l.tx = m.tx /\ l.index < m.index

-----------------------------------------------------------------------------
Init ==
  /\ next = FromBlock /\ size = MaxRange /\ to = FromBlock
  /\ pending = {} /\ emitted = <<>> /\ pc = "request" /\ requests = <<>>

\* Ask the provider for the logs of next..to.
Request ==
  /\ pc = "request"
  /\ to' = inclusiveEnd(next, size, ToBlock)
  /\ pc' = "asked"
  /\ UNCHANGED <<next, size, pending, emitted, requests>>

\* FilterLogs answers.
Answered ==
  /\ pc = "asked"
  /\ pending' = {l \in Log : l.block \in next..to}
  /\ requests' = Append(requests, <<next, to>>)
  /\ pc' = "emit"
  /\ UNCHANGED <<next, size, to, emitted>>

\* FilterLogs refuses: retry with half the length, but not below MinRange.
Halved(length) == IF length \div 2 < MinRange THEN MinRange ELSE length \div 2

RefusedForever ==
  /\ pc = "asked"
  /\ size' = Halved(to - next + 1)
  /\ pc' = "request"
  /\ UNCHANGED <<next, to, pending, emitted, requests>>

Refused ==
  /\ pc = "asked"
  /\ LET requested == Uint(Uint(to - next) + 1)
     IN  IF requested <= MinRange
         THEN pc' = "failed" /\ UNCHANGED size
         ELSE pc' = "request" /\ size' = Halved(requested)
  /\ UNCHANGED <<next, to, pending, emitted, requests>>

\* The next log in order goes to emit.
Emit ==
  /\ pc = "emit"
  /\ \E l \in pending :
       /\ \A m \in pending \ {l} : Before(l, m)
       /\ pending' = pending \ {l}
       /\ emitted' = Append(emitted, l)
  /\ UNCHANGED <<next, size, to, pc, requests>>

\* All logs of the reply are emitted: stop, or move past the range.
AdvanceOverlapping ==
  /\ pc = "emit" /\ pending = {}
  /\ IF to = ToBlock
     THEN pc' = "done" /\ UNCHANGED <<next, size>>
     ELSE pc' = "request" /\ next' = to /\ size' = growRange(size)
  /\ UNCHANGED <<to, pending, emitted, requests>>

AdvanceByGrownSize ==
  /\ pc = "emit" /\ pending = {}
  /\ IF to = ToBlock
     THEN pc' = "done" /\ UNCHANGED <<next, size>>
     ELSE pc' = "request" /\ size' = growRange(size) /\ next' = Uint(next + size')
  /\ UNCHANGED <<to, pending, emitted, requests>>

Advance ==
  /\ pc = "emit" /\ pending = {}
  /\ IF to = ToBlock
     THEN pc' = "done" /\ UNCHANGED <<next, size>>
     ELSE /\ pc' = "request"
          /\ next' = Uint(to + 1)
          /\ size' = growRange(size)
  /\ UNCHANGED <<to, pending, emitted, requests>>

\* The context is cancelled, or emit returns an error.
Stop ==
  /\ pc \in {"request", "asked", "emit"}
  /\ pc' = "failed"
  /\ UNCHANGED <<next, size, to, pending, emitted, requests>>

Next == Request \/ Answered \/ Refused \/ Emit \/ Advance \/ Stop

Spec == Init /\ [][Next]_vars

\* The provider answers or refuses every request, and the loop goes on.
FairSpec == Spec /\ WF_vars(Next)

-----------------------------------------------------------------------------
TypeOK ==
  /\ next \in FromBlock..ToBlock
  /\ size \in MinRange..MaxRange
  /\ to \in FromBlock..ToBlock
  /\ pending \subseteq Log
  /\ emitted \in Seq(Log)
  /\ pc \in {"request", "asked", "emit", "done", "failed"}
  /\ requests \in Seq((FromBlock..ToBlock) \X (FromBlock..ToBlock))

\* The answered requests tile the range: the first starts at FromBlock, each
\* starts right behind the one before, and none is empty, longer than MaxRange
\* or past ToBlock, up to the last uint64 block number.
RequestsTile ==
  \A i \in 1..Len(requests) :
    /\ requests[i][1] = IF i = 1 THEN FromBlock ELSE requests[i-1][2] + 1
    /\ requests[i][1] <= requests[i][2]
    /\ requests[i][2] <= ToBlock
    /\ requests[i][2] - requests[i][1] < MaxRange

\* emit sees every log once and in canonical order (backfill.go:75), across
\* requests as well as within one.
EmittedInOrder ==
  \A i, j \in 1..Len(emitted) : i < j => Before(emitted[i], emitted[j])

\* When the call succeeds, no log of the range is missing.
DoneIsComplete ==
  pc = "done" => \A l \in Log : \E i \in 1..Len(emitted) : emitted[i] = l

\* Whatever the provider refuses, the retries come to an end.
Terminates == <>(pc \in {"done", "failed"})
=============================================================================
