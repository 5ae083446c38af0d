----------------------------- MODULE Selections -----------------------------
(***************************************************************************)
(* The part of a sequence that a loop with a condition collects: which     *)
(* elements is a set of indices, and they stay in order.                   *)
(***************************************************************************)
EXTENDS Integers, Sequences, FiniteSets

Below(I, i) == {j \in I : j < i}

\* The k-th smallest of a finite set of integers
Nth(I, k) == CHOOSE i \in I : Cardinality(Below(I, i)) = k - 1

\* The elements of s at the indices in I
Select(s, I) == [k \in 1..Cardinality(I) |-> s[Nth(I, k)]]
=============================================================================
