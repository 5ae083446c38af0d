---------------------------- MODULE CanonicalLog ----------------------------
(***************************************************************************)
(* What the store promises to everything that replays from it: a linked    *)
(* log of blocks with a finalized prefix.  The log may start anywhere, any *)
(* suffix above the finalized prefix may be rewritten, and the finalized   *)
(* prefix only grows.                                                      *)
(***************************************************************************)
EXTENDS Integers, Sequences

CONSTANT Block

VARIABLES
  log,   \* the canonical blocks, oldest first
  final  \* how many of them are finalized

logVars == <<log, final>>

Linked(bs) ==
  \A i \in 2..Len(bs) : bs[i].number = bs[i-1].number + 1 /\ bs[i].parent = bs[i-1].hash

Init == log = <<>> /\ final = 0

\* The first block: a sync begins wherever its caller says.
Start ==
  /\ log = <<>>
  /\ log' # <<>>
  /\ UNCHANGED final

\* Keep k blocks, the finalized ones among them, and rewrite what follows.
Rewrite ==
  /\ \E k \in 1..Len(log) :
       /\ k >= final
       /\ Len(log') > k
       /\ \A i \in 1..k : log'[i] = log[i]
  /\ UNCHANGED final

\* Finalize a longer prefix.
Finalize ==
  /\ final' \in (final + 1)..Len(log)
  /\ UNCHANGED log

Next ==
  /\ Start \/ Rewrite \/ Finalize
  /\ log' \in Seq(Block) /\ Linked(log')

Spec == Init /\ [][Next]_logVars
=============================================================================
