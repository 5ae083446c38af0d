------------------------ MODULE ForecastCommitReveal ------------------------
(***************************************************************************)
(* contracts/src/ForecastCommitReveal.sol: a forecaster commits the hash   *)
(* of a forecast before its resolution time and reveals the forecast       *)
(* after it.  keccak256 of the encoded fields is taken to be collision     *)
(* free, so a hash is the tuple of what was hashed.  A forecaster may      *)
(* commit any hash it has seen or can compute, another's included.         *)
(***************************************************************************)
EXTENDS Integers, Sequences

CONSTANTS
  Forecaster, ForecastMarket,
  Probability,  \* probabilityBps values callers pass
  MaxBps,       \* 10_000
  Salt,         \* the model run id and the salt
  Zero,         \* a zero market id or model run id
  Timestamp,    \* block timestamps and resolution times
  MaxCommits    \* bound: successful commits and reveals in one behaviour

ASSUME ForecastAssumption ==
  /\ Timestamp \subseteq Nat /\ Probability \subseteq Nat /\ MaxBps \in Nat /\ MaxCommits \in Nat
  /\ Zero \notin ForecastMarket \cup Salt

VARIABLES
  commitments,  \* s_commitments; hash <<>> is bytes32(0)
  log,          \* the emitted events
  timestamp     \* block.timestamp

registryVars == <<commitments, log, timestamp>>

NoCommitment == [hash |-> <<>>, time |-> 0, resolution |-> 0, revealed |-> FALSE]

\* Faulty variants stand before the definitions they would replace.
computeCommitmentForAnyone(f, m, resolution, p, salt) == <<m, resolution, p, salt>>

computeCommitment(f, m, resolution, p, salt) == <<f, m, resolution, p, salt>>

-----------------------------------------------------------------------------
RegistryInit ==
  /\ commitments = [f \in Forecaster |-> [m \in ForecastMarket |-> NoCommitment]]
  /\ log = <<>> /\ timestamp \in Timestamp

commitForecast(f, m, hash, resolution) ==
  /\ Len(log) < MaxCommits
  /\ m # Zero /\ hash # <<>> /\ resolution > timestamp
  /\ commitments[f][m].hash = <<>>
  /\ commitments' = [commitments EXCEPT ![f][m].hash = hash, ![f][m].time = timestamp, ![f][m].resolution = resolution]
  /\ log' = Append(log, [kind |-> "committed", forecaster |-> f, market |-> m, hash |-> hash,
                         resolution |-> resolution, time |-> timestamp])
  /\ UNCHANGED timestamp

revealForecast(f, m, p, salt) ==
  LET c == IF m = Zero THEN NoCommitment ELSE commitments[f][m]
  IN /\ Len(log) < MaxCommits
     /\ m # Zero /\ p <= MaxBps /\ salt # Zero /\ c.hash # <<>> /\ ~c.revealed /\ timestamp >= c.resolution
     /\ c.hash = computeCommitment(f, m, c.resolution, p, salt)
     /\ commitments' = [commitments EXCEPT ![f][m].revealed = TRUE]
     /\ log' = Append(log, [kind |-> "revealed", forecaster |-> f, market |-> m, p |-> p, salt |-> salt,
                            resolution |-> c.resolution, time |-> timestamp])
     /\ UNCHANGED timestamp

MineBlock ==
  /\ timestamp' \in {t \in Timestamp : t > timestamp}
  /\ UNCHANGED <<commitments, log>>

\* The hashes anyone can compute, for any forecaster, market and resolution
Hashes ==
  { computeCommitment(f, m, t, p, s) : f \in Forecaster, m \in ForecastMarket, t \in Timestamp, p \in Probability, s \in Salt }

RegistryNext ==
  \/ \E f \in Forecaster, m \in ForecastMarket \cup {Zero} :
       \/ \E hash \in Hashes \cup {<<>>}, t \in Timestamp : commitForecast(f, m, hash, t)
       \/ \E p \in Probability, s \in Salt \cup {Zero} : revealForecast(f, m, p, s)
  \/ MineBlock

RegistrySpec == RegistryInit /\ [][RegistryNext]_registryVars

-----------------------------------------------------------------------------
Committed(i) == log[i].kind = "committed"
Revealed(i) == log[i].kind = "revealed"
SameKey(i, j) == log[i].forecaster = log[j].forecaster /\ log[i].market = log[j].market

(* "A successful reveal proves only that the caller knew the committed     *)
(* preimage before resolution" (ForecastCommitReveal.sol:7): every reveal  *)
(* has exactly one commit of the same forecaster and market, made before   *)
(* the resolution time it names, whose hash fixes all that is revealed;    *)
(* the reveal itself is not before that time.  The same hash committed by  *)
(* another forecaster, who copied it, is never revealed by that one        *)
(* (ForecastCommitReveal.sol:98-106, 160-164).                            *)
RevealProvesForesight ==
  \A i \in 1..Len(log) : Revealed(i) =>
    LET commits == {j \in 1..Len(log) : Committed(j) /\ SameKey(i, j)}
        r == log[i]
    IN /\ \E j \in commits :
            /\ commits = {j} /\ j < i
            /\ log[j].time < r.resolution /\ r.resolution <= r.time
            /\ log[j].resolution = r.resolution
            /\ log[j].hash = computeCommitment(r.forecaster, r.market, r.resolution, r.p, r.salt)
       /\ \A k \in 1..Len(log) :
            Revealed(k) /\ log[k].forecaster # r.forecaster =>
              commitments[log[k].forecaster][log[k].market].hash
                # commitments[r.forecaster][r.market].hash
=============================================================================
