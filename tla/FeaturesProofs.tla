---------------------------- MODULE FeaturesProofs ----------------------------
(***************************************************************************)
(* Lemmas about the operators the data path is built from, for data of any *)
(* length: what a selection from a sequence is, what the sums over a       *)
(* window's trades are, and what the formulas make of them.                *)
(***************************************************************************)
EXTENDS Features, SequenceTheorems, FiniteSetTheorems, WellFoundedInduction, TLAPS

-----------------------------------------------------------------------------
\* A set of naturals that is not empty has a least element.
LEMMA LeastNatural ==
  ASSUME NEW S \in SUBSET Nat, S # {}
  PROVE  \E i \in S : \A j \in S : i <= j
<1> DEFINE R == {ss \in Nat \X Nat : ss[1] < ss[2]}
<1>1. IsWellFoundedOn(R, Nat)
  BY NatLessThanWellFounded DEF OpToRel
<1>2. PICK x \in S : \A y \in S : ~(<<y, x>> \in R)
  BY <1>1, WFMin
<1>3. \A y \in S : ~(y < x)
  BY <1>2
<1> QED BY <1>2, <1>3

-----------------------------------------------------------------------------
(* Counting what comes before an element gives its place.                  *)

\* The elements of I that R puts before i
Earlier(I, R, i) == {j \in I : <<j, i>> \in R}

StrictTotal(I, R) ==
  /\ \A i \in I : <<i, i>> \notin R
  /\ \A i, j \in I : i # j => <<i, j>> \in R \/ <<j, i>> \in R
  /\ \A i, j, k \in I : <<i, j>> \in R /\ <<j, k>> \in R => <<i, k>> \in R

\* The counts are the numbers below the size, each of them once, and in order.
LEMMA Places ==
  ASSUME NEW I, IsFiniteSet(I), NEW R, StrictTotal(I, R)
  PROVE  /\ Cardinality(I) \in Nat
         /\ \A i \in I : Cardinality(Earlier(I, R, i)) \in 0..Cardinality(I) - 1
         /\ \A i, j \in I : <<i, j>> \in R => Cardinality(Earlier(I, R, i)) < Cardinality(Earlier(I, R, j))
         /\ \A k \in 0..Cardinality(I) - 1 : \E i \in I : Cardinality(Earlier(I, R, i)) = k
<1> DEFINE n == Cardinality(I)  c(i) == Cardinality(Earlier(I, R, i))
<1>1. n \in Nat
  BY FS_CardinalityType
<1>2. ASSUME NEW i \in I, NEW T, IsFiniteSet(T), Earlier(I, R, i) \subseteq T, i \in T
      PROVE  /\ c(i) \in Nat /\ Cardinality(T) \in Nat /\ c(i) < Cardinality(T)
  <2>1. /\ IsFiniteSet(Earlier(I, R, i)) /\ Cardinality(Earlier(I, R, i)) <= Cardinality(T)
        /\ Cardinality(T) = Cardinality(Earlier(I, R, i)) => T = Earlier(I, R, i)
    BY <1>2, FS_Subset
  <2>2. T # Earlier(I, R, i)
    BY <1>2 DEF Earlier, StrictTotal
  <2> QED BY <1>2, <2>1, <2>2, FS_CardinalityType
<1>3. \A i \in I : c(i) \in 0..n - 1
  <2> TAKE i \in I
  <2>1. Earlier(I, R, i) \subseteq I
    BY DEF Earlier
  <2>2. c(i) \in Nat /\ c(i) < n
    BY <1>2, <2>1
  <2> QED BY <1>1, <2>2
<1>4. \A i, j \in I : <<i, j>> \in R => c(i) < c(j)
  <2> SUFFICES ASSUME NEW i \in I, NEW j \in I, <<i, j>> \in R PROVE c(i) < c(j)
    OBVIOUS
  <2>1. Earlier(I, R, i) \subseteq Earlier(I, R, j) /\ i \in Earlier(I, R, j)
    BY DEF Earlier, StrictTotal
  <2>2. IsFiniteSet(Earlier(I, R, j))
    BY FS_Subset DEF Earlier
  <2> QED BY <1>2, <2>1, <2>2
<1>5. \A k \in 0..n - 1 : \E i \in I : c(i) = k
  <2> DEFINE f == [i \in I |-> c(i)]
  <2>1. f \in Injection(I, 0..n - 1)
    <3>1. \A i, j \in I : i # j => c(i) # c(j)
      <4> SUFFICES ASSUME NEW i \in I, NEW j \in I, i # j PROVE c(i) # c(j)
        OBVIOUS
      <4>1. c(i) \in Int /\ c(j) \in Int
        BY <1>1, <1>3
      <4>2. c(i) < c(j) \/ c(j) < c(i)
        BY <1>4 DEF StrictTotal
      <4> HIDE DEF c
      <4> QED BY <4>1, <4>2
    <3> HIDE DEF c
    <3> QED BY <1>3, <3>1 DEF Injection, IsInjective
  <2>2. IsFiniteSet(0..n - 1) /\ Cardinality(0..n - 1) = n
    <3> HIDE DEF n
    <3>1. 0 \in Int /\ n - 1 \in Int /\ (IF 0 > n - 1 THEN 0 ELSE (n - 1) - 0 + 1) = n
      BY <1>1
    <3> QED BY <3>1, FS_Interval
  <2>3. f \in Surjection(I, 0..n - 1)
    <3> HIDE DEF f
    <3> QED BY <2>1, <2>2, FS_Injection
  <2> HIDE DEF c
  <2> QED BY <2>3 DEF Surjection
<1> HIDE DEF c
<1>6. QED
  BY <1>1, <1>3, <1>4, <1>5 DEF c

-----------------------------------------------------------------------------
(* Selections.                                                             *)

\* Nth enumerates a finite set of integers upwards, and is told by its count.
LEMMA NthEnumerates ==
  ASSUME NEW I \in SUBSET Int, IsFiniteSet(I)
  PROVE  /\ Cardinality(I) \in Nat
         /\ \A k \in 1..Cardinality(I) : Nth(I, k) \in I /\ Cardinality(Below(I, Nth(I, k))) = k - 1
         /\ \A k, l \in 1..Cardinality(I) : k < l => Nth(I, k) < Nth(I, l)
         /\ \A i \in I : \E k \in 1..Cardinality(I) : Nth(I, k) = i
         /\ \A i \in I : \A k \in 1..Cardinality(I) : Cardinality(Below(I, i)) = k - 1 => Nth(I, k) = i
<1> DEFINE R == {p \in I \X I : p[1] < p[2]}  n == Cardinality(I)
           c(i) == Cardinality(Below(I, i))
<1>1. StrictTotal(I, R)
  BY DEF StrictTotal
<1>2. \A i \in I : Earlier(I, R, i) = Below(I, i)
  BY DEF Earlier, Below
<1>3. /\ n \in Nat /\ \A i \in I : c(i) \in 0..n - 1
      /\ \A i, j \in I : i < j => c(i) < c(j)
      /\ \A k \in 0..n - 1 : \E i \in I : c(i) = k
  <2>1. \A i, j \in I : i < j <=> <<i, j>> \in R
    OBVIOUS
  <2> DEFINE e(i) == Cardinality(Earlier(I, R, i))
  <2> HIDE DEF R
  <2>2. /\ n \in Nat /\ \A i \in I : e(i) \in 0..n - 1
        /\ \A i, j \in I : <<i, j>> \in R => e(i) < e(j)
        /\ \A k \in 0..n - 1 : \E i \in I : e(i) = k
    BY <1>1, Places
  <2>3. \A i \in I : e(i) = c(i)
    BY <1>2
  <2> HIDE DEF e, c, n
  <2>4. \A i \in I : c(i) \in 0..n - 1
    BY <2>2, <2>3
  <2>5. ASSUME NEW i \in I, NEW j \in I, i < j PROVE c(i) < c(j)
    <3>1. <<i, j>> \in R
      BY <2>1, <2>5
    <3> QED BY <3>1, <2>2, <2>3
  <2>6. \A k \in 0..n - 1 : \E i \in I : c(i) = k
    BY <2>2, <2>3
  <2> QED BY <2>2, <2>4, <2>5, <2>6
<1>4. \A i, j \in I : c(i) = c(j) => i = j
  <2> SUFFICES ASSUME NEW i \in I, NEW j \in I, i # j PROVE c(i) # c(j)
    OBVIOUS
  <2>1. (i < j \/ j < i) /\ c(i) \in Int /\ c(j) \in Int
    BY <1>3
  <2> HIDE DEF c
  <2> QED BY <2>1, <1>3
<1>5. \A k \in 1..n : Nth(I, k) \in I /\ c(Nth(I, k)) = k - 1
  <2> TAKE k \in 1..n
  <2>1. k - 1 \in 0..n - 1
    BY <1>3
  <2>2. \E i \in I : Cardinality(Below(I, i)) = k - 1
    BY <2>1, <1>3
  <2> QED BY <2>2 DEF Nth
<1>6. \A k, l \in 1..n : k < l => Nth(I, k) < Nth(I, l)
  <2> SUFFICES ASSUME NEW k \in 1..n, NEW l \in 1..n, k < l PROVE Nth(I, k) < Nth(I, l)
    OBVIOUS
  <2>1. PICK x \in I, y \in I : x = Nth(I, k) /\ y = Nth(I, l) /\ c(x) = k - 1 /\ c(y) = l - 1
    BY <1>5
  <2>2. k \in Int /\ l \in Int /\ x \in Int /\ y \in Int
    BY <1>3
  <2> HIDE DEF c
  <2>3. ~(y < x) /\ y # x
    BY <2>1, <2>2, <1>3
  <2>4. x < y
    BY <2>2, <2>3
  <2> QED BY <2>1, <2>4
<1>7. \A i \in I : \A k \in 1..n : c(i) = k - 1 => Nth(I, k) = i
  BY <1>4, <1>5
<1>8. \A i \in I : \E k \in 1..n : Nth(I, k) = i
  <2> TAKE i \in I
  <2>1. c(i) + 1 \in 1..n /\ (c(i) + 1) - 1 = c(i)
    BY <1>3
  <2> HIDE DEF c
  <2> QED BY <2>1, <1>7
<1> HIDE DEF n
<1> QED BY <1>3, <1>5, <1>6, <1>7, <1>8 DEF n

\* A set of indices of a sequence
LEMMA Indices ==
  ASSUME NEW n \in Nat, NEW I \in SUBSET (1..n)
  PROVE  IsFiniteSet(I) /\ I \in SUBSET Int /\ Cardinality(I) \in Nat /\ Cardinality(I) <= n
<1>1. IsFiniteSet(1..n) /\ Cardinality(1..n) = IF 1 > n THEN 0 ELSE n - 1 + 1
  BY FS_Interval
<1>2. IsFiniteSet(I) /\ Cardinality(I) <= Cardinality(1..n)
  BY <1>1, FS_Subset
<1> QED BY <1>1, <1>2, FS_CardinalityType

\* A selection holds the elements at the indices, and keeps their order.
LEMMA Selected ==
  ASSUME NEW S, NEW s, NEW I \in SUBSET Int, IsFiniteSet(I), \A i \in I : s[i] \in S
  PROVE  /\ Select(s, I) \in Seq(S) /\ Len(Select(s, I)) = Cardinality(I) /\ Cardinality(I) \in Nat
         /\ \A k \in 1..Cardinality(I) : Nth(I, k) \in I /\ Select(s, I)[k] = s[Nth(I, k)]
         /\ \A k, l \in 1..Cardinality(I) : k < l => Nth(I, k) < Nth(I, l)
         /\ \A i \in I : \E k \in 1..Cardinality(I) : Nth(I, k) = i
<1>1. /\ Cardinality(I) \in Nat
      /\ \A k \in 1..Cardinality(I) : Nth(I, k) \in I
      /\ \A k, l \in 1..Cardinality(I) : k < l => Nth(I, k) < Nth(I, l)
      /\ \A i \in I : \E k \in 1..Cardinality(I) : Nth(I, k) = i
  BY NthEnumerates
<1>2. \A k \in 1..Cardinality(I) : s[Nth(I, k)] \in S
  BY <1>1
<1> QED BY <1>1, <1>2 DEF Select

\* One more index, behind the others, is one more element at the end.
LEMMA SelectAppend ==
  ASSUME NEW s, NEW I \in SUBSET Int, IsFiniteSet(I), NEW x \in Int, \A i \in I : i < x
  PROVE  Select(s, I \cup {x}) = Append(Select(s, I), s[x])
<1> PICK S : (\A i \in I : s[i] \in S) /\ s[x] \in S
  <2>1. (\A i \in I : s[i] \in {s[j] : j \in I \cup {x}}) /\ s[x] \in {s[j] : j \in I \cup {x}}
    OBVIOUS
  <2> QED BY <2>1
<1>0. PICK J : J = I \cup {x}
  OBVIOUS
<1>1. PICK m : m = Cardinality(I)
  OBVIOUS
<1>2. J \in SUBSET Int /\ \A i \in J : s[i] \in S
  BY <1>0
<1>3. IsFiniteSet(J) /\ m \in Nat /\ Cardinality(J) = m + 1
  <2>1. x \notin I /\ m \in Nat
    BY <1>1, FS_CardinalityType
  <2> QED BY <1>0, <1>1, <2>1, FS_AddElement
<1>4. /\ \A k \in 1..m : Nth(I, k) \in I /\ Cardinality(Below(I, Nth(I, k))) = k - 1
      /\ \A i \in J : \A k \in 1..(m + 1) : Cardinality(Below(J, i)) = k - 1 => Nth(J, k) = i
  <2>1. /\ \A k \in 1..m : Nth(I, k) \in I /\ Cardinality(Below(I, Nth(I, k))) = k - 1
    BY <1>1, <1>3, NthEnumerates
  <2>2. \A i \in J : \A k \in 1..Cardinality(J) : Cardinality(Below(J, i)) = k - 1 => Nth(J, k) = i
    BY <1>2, <1>3, NthEnumerates
  <2> QED BY <1>3, <2>1, <2>2
<1>5. Below(J, x) = I /\ \A i \in I : Below(J, i) = Below(I, i)
  <2>1. ~(x < x) /\ \A i \in I : i \in Int /\ i < x /\ ~(x < i)
    OBVIOUS
  <2>2. \A j : j \in Below(J, x) <=> j \in I
    BY <1>0, <2>1 DEF Below
  <2>3. \A i \in I : \A j : j \in Below(J, i) <=> j \in Below(I, i)
    BY <1>0, <2>1 DEF Below
  <2> QED BY <2>2, <2>3
<1>6. Nth(J, m + 1) = x
  <2>1. x \in J /\ m + 1 \in 1..(m + 1) /\ (m + 1) - 1 = m
    BY <1>0, <1>3
  <2> QED BY <2>1, <1>1, <1>4, <1>5
<1>7. ASSUME NEW k \in 1..m PROVE Nth(J, k) = Nth(I, k)
  <2>1. k \in 1..(m + 1) /\ Nth(I, k) \in J
    BY <1>0, <1>3, <1>4
  <2> QED BY <2>1, <1>4, <1>5
<1>8. PICK a, b, d : a = Select(s, I) /\ b = Select(s, J) /\ d = Append(a, s[x])
  OBVIOUS
<1>9. a \in Seq(S) /\ Len(a) = m /\ \A k \in 1..m : a[k] = s[Nth(I, k)]
  BY <1>1, <1>8, Selected
<1>10. b \in Seq(S) /\ Len(b) = m + 1 /\ \A k \in 1..(m + 1) : b[k] = s[Nth(J, k)]
  <2>1. b \in Seq(S) /\ Len(b) = Cardinality(J) /\ \A k \in 1..Cardinality(J) : b[k] = s[Nth(J, k)]
    BY <1>2, <1>3, <1>8, Selected
  <2> QED BY <1>3, <2>1
<1>11. d \in Seq(S) /\ Len(d) = m + 1 /\ d[m + 1] = s[x] /\ \A k \in 1..m : d[k] = a[k]
  BY <1>3, <1>8, <1>9
<1>12. ASSUME NEW k \in 1..(m + 1) PROVE b[k] = d[k]
  <2>1. k = m + 1 \/ k \in 1..m
    BY <1>3
  <2> QED BY <2>1, <1>6, <1>7, <1>9, <1>10, <1>11
<1>13. b = d
  BY <1>3, <1>10, <1>11, <1>12, SeqEqual
<1> QED BY <1>0, <1>8, <1>13

-----------------------------------------------------------------------------
(* Sums over a sequence, which FoldLeft computes by taking the last index  *)
(* out of the set of those that are left.                                  *)

LEMMA MaxIsLargest ==
  ASSUME NEW n \in Nat, NEW T \in SUBSET (1..n), T # {}
  PROVE  Max(T) \in T /\ \A i \in T : i <= Max(T)
<1> DEFINE D == {n - i : i \in T}
<1>1. D \in SUBSET Nat /\ D # {}
  <2>1. \A i \in T : n - i \in Nat
    OBVIOUS
  <2>2. PICK i \in T : n - i \in D
    OBVIOUS
  <2> QED BY <2>1, <2>2
<1>2. PICK d \in D : \A e \in D : d <= e
  <2> HIDE DEF D
  <2> QED BY <1>1, LeastNatural
<1>3. PICK x \in T : d = n - x
  BY <1>2
<1>4. \A i \in T : x >= i
  <2> TAKE i \in T
  <2>1. n - i \in D
    OBVIOUS
  <2>2. d <= n - i
    BY <1>2, <2>1
  <2> QED BY <1>3, <2>2
<1>5. \E y \in T : \A i \in T : y >= i
  BY <1>4
<1>6. Max(T) \in T /\ \A i \in T : Max(T) >= i
  BY <1>5 DEF Max
<1>7. \A i \in T : i \in Int
  OBVIOUS
<1> QED BY <1>6, <1>7

\* g sums the weights of every set of indices.
Sums(g, w, n) ==
  /\ g \in [SUBSET (1..n) -> Nat]
  /\ \A T \in SUBSET (1..n) : g[T] = IF T = {} THEN 0 ELSE g[T \ {Max(T)}] + w[Max(T)]

LEMMA SumsExist ==
  ASSUME NEW w, NEW n \in Nat, \A i \in 1..n : w[i] \in Nat
  PROVE  \E g : Sums(g, w, n)
<1> DEFINE Bad == {m \in Nat : m <= n /\ ~ \E g : Sums(g, w, m)}
<1>1. SUFFICES ASSUME Bad # {} PROVE FALSE
  OBVIOUS
<1>2. PICK m \in Bad : \A k \in Bad : m <= k
  <2>1. Bad \in SUBSET Nat
    OBVIOUS
  <2> HIDE DEF Bad
  <2> QED BY <1>1, <2>1, LeastNatural
<1>3. m \in Nat /\ m <= n /\ ~ \E g : Sums(g, w, m)
  BY <1>2
<1>4. m # 0
  <2> SUFFICES ASSUME m = 0 PROVE FALSE
    OBVIOUS
  <2>1. SUBSET (1..0) = {{}}
    OBVIOUS
  <2>2. Sums([T \in SUBSET (1..0) |-> 0], w, 0)
    BY <2>1 DEF Sums
  <2> QED BY <1>3, <2>2
<1>5. PICK f : Sums(f, w, m - 1)
  <2>1. m - 1 \in Nat /\ m - 1 <= n /\ ~(m <= m - 1)
    BY <1>3, <1>4
  <2>2. m - 1 \notin Bad
    BY <2>1, <1>2
  <2> QED BY <2>1, <2>2
<1> DEFINE g == [T \in SUBSET (1..m) |-> IF m \in T THEN f[T \ {m}] + w[m] ELSE f[T]]
<1>6. \A T \in SUBSET (1..m) : T \ {m} \in SUBSET (1..(m - 1)) /\ (m \notin T => T \in SUBSET (1..(m - 1)))
  <2>1. 1..m = (1..(m - 1)) \cup {m}
    BY <1>3, <1>4
  <2> QED BY <2>1
<1>7. w[m] \in Nat /\ \A T \in SUBSET (1..(m - 1)) : f[T] \in Nat
  BY <1>3, <1>4, <1>5 DEF Sums
<1>8. g \in [SUBSET (1..m) -> Nat]
  BY <1>6, <1>7
<1>9. ASSUME NEW T \in SUBSET (1..m)
      PROVE  g[T] = IF T = {} THEN 0 ELSE g[T \ {Max(T)}] + w[Max(T)]
  <2>1. CASE m \in T
    <3>1. Max(T) = m
      <4>1. Max(T) \in T /\ m <= Max(T)
        BY <1>3, <2>1, MaxIsLargest
      <4>2. Max(T) \in 1..m
        BY <4>1
      <4> QED BY <1>3, <4>1, <4>2
    <3>2. T \ {m} \in SUBSET (1..m) /\ g[T \ {m}] = f[T \ {m}]
      BY <1>6
    <3>3. g[T] = f[T \ {m}] + w[m] /\ T # {}
      BY <2>1
    <3> HIDE DEF g
    <3> QED BY <3>1, <3>2, <3>3
  <2>2. CASE m \notin T
    <3>1. T \in SUBSET (1..(m - 1)) /\ g[T] = f[T]
      BY <1>6, <2>2
    <3>2. T \ {Max(T)} \in SUBSET (1..m) /\ m \notin T \ {Max(T)}
      BY <2>2
    <3>3. g[T \ {Max(T)}] = f[T \ {Max(T)}]
      BY <3>2
    <3> HIDE DEF g
    <3> QED BY <1>5, <3>1, <3>3 DEF Sums
  <2> QED BY <2>1, <2>2
<1> HIDE DEF g
<1>10. Sums(g, w, m)
  BY <1>8, <1>9 DEF Sums
<1> QED BY <1>3, <1>10

\* Where g and h agree on a set without its largest index, they agree on the set.
AgreeByLargest(g, h, n) ==
  /\ g[{}] = h[{}]
  /\ \A T \in SUBSET (1..n) : T # {} /\ g[T \ {Max(T)}] = h[T \ {Max(T)}] => g[T] = h[T]

\* What is computed by taking the largest index out each time is determined.
LEMMA SameByLargest ==
  ASSUME NEW n \in Nat, NEW g, NEW h, AgreeByLargest(g, h, n)
  PROVE  \A T \in SUBSET (1..n) : g[T] = h[T]
<1> DEFINE Bad == {m \in Nat : m <= n /\ \E T \in SUBSET (1..m) : g[T] # h[T]}
<1>1. SUFFICES ASSUME Bad # {} PROVE FALSE
  <2>1. n \notin Bad => \A T \in SUBSET (1..n) : g[T] = h[T]
    OBVIOUS
  <2> QED BY <2>1
<1>2. PICK m \in Bad : \A k \in Bad : m <= k
  <2>1. Bad \in SUBSET Nat
    OBVIOUS
  <2> HIDE DEF Bad
  <2> QED BY <1>1, <2>1, LeastNatural
<1>3. PICK T \in SUBSET (1..m) : m \in Nat /\ m <= n /\ g[T] # h[T]
  BY <1>2
<1>4. T # {}
  BY <1>3 DEF AgreeByLargest
<1>5. Max(T) \in T /\ \A i \in T : i <= Max(T)
  BY <1>3, <1>4, MaxIsLargest
<1>6. PICK x : x = Max(T)
  OBVIOUS
<1>7. x \in 1..m /\ T \in SUBSET (1..n)
  <2>1. 1..m \subseteq 1..n
    BY <1>3
  <2> QED BY <1>5, <1>6, <2>1
<1>8. T \ {x} \in SUBSET (1..(x - 1)) /\ x - 1 \in Nat /\ x - 1 <= n /\ ~(m <= x - 1)
  <2>1. \A i \in T \ {x} : i \in 1..(x - 1)
    <3> TAKE i \in T \ {x}
    <3>1. i \in 1..m /\ i <= x /\ i # x
      BY <1>5, <1>6
    <3> QED BY <3>1, <1>7
  <2>2. x - 1 \in Nat /\ x - 1 <= n /\ ~(m <= x - 1)
    BY <1>3, <1>7
  <2> QED BY <2>1, <2>2
<1>9. g[T \ {x}] = h[T \ {x}]
  <2>1. x - 1 \notin Bad
    <3> HIDE DEF Bad
    <3> QED BY <1>2, <1>8
  <2> QED BY <1>8, <2>1
<1> QED BY <1>3, <1>4, <1>6, <1>7, <1>9 DEF AgreeByLargest

\* What each trade adds to the volume in direction d
Weights(s, d) == [i \in 1..Len(s) |-> IF s[i].direction = d THEN s[i].amount ELSE 0]

Total(s, d) == FoldLeft(LAMBDA a, t : a + (IF t.direction = d THEN t.amount ELSE 0), 0, s)

Amounts(s) == \A i \in 1..Len(s) : s[i].amount \in Nat

\* The loop of RecentTradeFlowImbalance sums the weights.
LEMMA VolumeSums ==
  ASSUME NEW S, NEW s \in Seq(S), Amounts(s), NEW d, NEW g, Sums(g, Weights(s, d), Len(s))
  PROVE  Volume(s, d) = g[1..Len(s)] /\ Total(s, d) = g[1..Len(s)]
<1> DEFINE n == Len(s)  w == Weights(s, d)  D == SUBSET (1..n)
           Sum(h) == h = [T \in D |-> IF T = {} THEN 0
                                      ELSE IF s[Max(T)].direction = d THEN h[T \ {Max(T)}] + s[Max(T)].amount
                                           ELSE h[T \ {Max(T)}]]
           Tot(h) == h = [T \in D |-> IF T = {} THEN 0
                                      ELSE h[T \ {Max(T)}] + (IF s[Max(T)].direction = d THEN s[Max(T)].amount ELSE 0)]
<1>1. n \in Nat /\ DOMAIN s = 1..n
  OBVIOUS
<1>2. \A T \in D : T # {} => Max(T) \in 1..n /\ T \ {Max(T)} \in D
  BY <1>1, MaxIsLargest
<1>3. g \in [D -> Nat] /\ \A T \in D : g[T] = IF T = {} THEN 0 ELSE g[T \ {Max(T)}] + w[Max(T)]
  BY DEF Sums
<1>4. \A T \in D : T # {} => w[Max(T)] = IF s[Max(T)].direction = d THEN s[Max(T)].amount ELSE 0
  BY <1>2 DEF Weights
<1>5. \A T \in D : T # {} => g[T \ {Max(T)}] + 0 = g[T \ {Max(T)}]
  <2>1. \A T \in D : g[T] \in Nat
    BY <1>3
  <2> QED BY <1>2, <2>1
<1>6. Tot(g)
  <2>1. g = [T \in D |-> g[T]]
    BY <1>3
  <2>2. \A T \in D : g[T] = IF T = {} THEN 0
                            ELSE g[T \ {Max(T)}] + (IF s[Max(T)].direction = d THEN s[Max(T)].amount ELSE 0)
    BY <1>3, <1>4
  <2> QED BY <2>1, <2>2
<1>7. Sum(g)
  <2>1. g = [T \in D |-> g[T]]
    BY <1>3
  <2>2. \A T \in D : g[T] = IF T = {} THEN 0
                            ELSE IF s[Max(T)].direction = d THEN g[T \ {Max(T)}] + s[Max(T)].amount
                                 ELSE g[T \ {Max(T)}]
    BY <1>3, <1>4, <1>5
  <2> QED BY <2>1, <2>2
<1>8. ASSUME NEW h, Sum(h) \/ Tot(h) PROVE h[1..n] = g[1..n]
  <2>1. {} \in D /\ 1..n \in D
    OBVIOUS
  <2>2. g[{}] = 0 /\ h[{}] = 0
    BY <1>3, <1>8, <2>1
  <2>3. \A T \in SUBSET (1..n) : T # {} /\ g[T \ {Max(T)}] = h[T \ {Max(T)}] => g[T] = h[T]
    <3> SUFFICES ASSUME NEW T \in D, T # {}, g[T \ {Max(T)}] = h[T \ {Max(T)}] PROVE g[T] = h[T]
      OBVIOUS
    <3>1. CASE Sum(h)
      <4>1. h[T] = IF s[Max(T)].direction = d THEN h[T \ {Max(T)}] + s[Max(T)].amount ELSE h[T \ {Max(T)}]
        BY <3>1
      <4> QED BY <1>3, <1>4, <1>5, <4>1
    <3>2. CASE Tot(h)
      <4>1. h[T] = h[T \ {Max(T)}] + (IF s[Max(T)].direction = d THEN s[Max(T)].amount ELSE 0)
        BY <3>2
      <4> QED BY <1>3, <1>4, <4>1
    <3> QED BY <1>8, <3>1, <3>2
  <2> HIDE DEF Sum, Tot, n, w, D
  <2>4. AgreeByLargest(g, h, n)
    BY <2>2, <2>3 DEF AgreeByLargest
  <2>5. \A T \in SUBSET (1..n) : g[T] = h[T]
    BY <1>1, <2>4, SameByLargest
  <2> QED BY <2>1, <2>5 DEF D
<1>9. Volume(s, d) = (CHOOSE h : Sum(h))[1..n]
  BY <1>1 DEF Volume, FoldLeft, MapThenFoldSet
<1>10. Total(s, d) = (CHOOSE h : Tot(h))[1..n]
  BY <1>1 DEF Total, FoldLeft, MapThenFoldSet
<1>11. Sum(CHOOSE h : Sum(h)) /\ Tot(CHOOSE h : Tot(h))
  <2> HIDE DEF Sum, Tot
  <2> QED BY <1>6, <1>7
<1> HIDE DEF Sum, Tot
<1> QED BY <1>8, <1>9, <1>10, <1>11

\* The volumes of trades that were accepted, and that there is some
LEMMA VolumesOf ==
  ASSUME NEW G, \A t \in G : ValidTrade(t) /\ t.amount \in Int, NEW s \in Seq(G)
  PROVE  /\ Volume(s, TradeYES) \in Nat /\ Volume(s, TradeNO) \in Nat
         /\ Volume(s, TradeYES) = Total(s, TradeYES) /\ Volume(s, TradeNO) = Total(s, TradeNO)
         /\ s # <<>> => Volume(s, TradeYES) + Volume(s, TradeNO) > 0
<1> DEFINE n == Len(s)
<1>1. n \in Nat /\ \A i \in 1..n : s[i].amount \in Nat /\ s[i].amount > 0 /\ s[i].direction \in {TradeYES, TradeNO}
  <2>1. \A i \in 1..n : s[i] \in G
    BY ElementOfSeq
  <2> QED BY <2>1 DEF ValidTrade
<1>2. Amounts(s)
  BY <1>1 DEF Amounts
<1>3. ASSUME NEW d PROVE \E g : Sums(g, Weights(s, d), n)
  <2>1. \A i \in 1..n : Weights(s, d)[i] \in Nat
    BY <1>1 DEF Weights
  <2> HIDE DEF n
  <2> QED BY <1>1, <2>1, SumsExist
<1>4. ASSUME NEW d
      PROVE  /\ Volume(s, d) \in Nat /\ Volume(s, d) = Total(s, d)
             /\ n # 0 /\ s[n].direction = d => Volume(s, d) > 0
  <2>1. PICK g : Sums(g, Weights(s, d), n)
    BY <1>3
  <2>2. Volume(s, d) = g[1..n] /\ Total(s, d) = g[1..n]
    BY <1>2, <2>1, VolumeSums
  <2> HIDE DEF n
  <2>3. \A T \in SUBSET (1..n) : g[T] \in Nat /\ g[T] = IF T = {} THEN 0 ELSE g[T \ {Max(T)}] + Weights(s, d)[Max(T)]
    BY <2>1 DEF Sums
  <2>4. g[1..n] \in Nat
    BY <2>3
  <2>5. ASSUME n # 0, s[n].direction = d PROVE g[1..n] > 0
    <3>0. n \in Nat
      BY <1>1
    <3>1. 1..n # {} /\ n \in 1..n
      <4>1. n # 0
        BY <2>5
      <4>2. n \in 1..n
        BY <3>0, <4>1
      <4> QED BY <4>2
    <3>2. Max(1..n) = n
      <4>1. Max(1..n) \in 1..n /\ \A i \in 1..n : i <= Max(1..n)
        BY <3>0, <3>1, MaxIsLargest
      <4> QED BY <3>0, <3>1, <4>1
    <3>3. g[1..n] = g[(1..n) \ {n}] + Weights(s, d)[n] /\ g[(1..n) \ {n}] \in Nat
      BY <2>3, <3>1, <3>2
    <3>4. Weights(s, d)[n] = s[n].amount
      BY <2>5, <3>1 DEF Weights, n
    <3> QED BY <3>1, <3>3, <3>4, <1>1
  <2> QED BY <2>2, <2>4, <2>5
<1>5. s # <<>> => n \in 1..n
  BY <1>1
<1> HIDE DEF n
<1>6. ASSUME s # <<>> PROVE Volume(s, TradeYES) + Volume(s, TradeNO) > 0
  <2>1. n # 0 /\ s[n].direction \in {TradeYES, TradeNO}
    BY <1>1, <1>5, <1>6
  <2>2. /\ Volume(s, TradeYES) \in Nat /\ Volume(s, TradeNO) \in Nat
        /\ Volume(s, TradeYES) > 0 \/ Volume(s, TradeNO) > 0
    BY <1>4, <2>1
  <2> QED BY <2>2
<1> QED BY <1>4, <1>6

\* The trades among window events are events.
LEMMA TradesOfEvents ==
  ASSUME NEW S, NEW events \in Seq(S), NEW G, \A i \in 1..Len(events) : events[i] # None => events[i] \in G
  PROVE  TradesOf(events) \in Seq(G)
<1> DEFINE I == {i \in 1..Len(events) : events[i] # None}
<1>1. IsFiniteSet(I) /\ I \in SUBSET Int /\ \A i \in I : events[i] \in G
  BY Indices
<1> QED BY <1>1, Selected DEF TradesOf

\* The quotients over valid reserves and a window of accepted trades: exact,
\* whatever the sums, never NaN, and within their bounds.
LEMMA ExactQuotients ==
  ASSUME NEW yes \in Int, NEW no \in Int, ValidReserves(yes, no),
         NEW S, NEW events \in Seq(S), NEW G, \A t \in G : ValidTrade(t) /\ t.amount \in Int,
         \A i \in 1..Len(events) : events[i] # None => events[i] \in G
  PROVE  LET s == TradesOf(events)
             y == Total(s, TradeYES)
             m == Total(s, TradeNO)
             q == YesImpliedProbability(yes, no)
             f == RecentTradeFlowImbalance(s)
         IN /\ q = <<no, yes + no>> /\ q # NaN /\ 0 <= q[1] /\ q[1] <= q[2] /\ q[2] \in Nat /\ q[1] \in Nat
            /\ f = IF s = <<>> THEN Zero ELSE <<y - m, y + m>>
            /\ f # NaN /\ f[1] \in Int /\ f[2] \in Int /\ -f[2] <= f[1] /\ f[1] <= f[2]
<1> DEFINE s == TradesOf(events)  y == Total(s, TradeYES)  m == Total(s, TradeNO)
           q == YesImpliedProbability(yes, no)  f == RecentTradeFlowImbalance(s)
<1>1. s \in Seq(G)
  BY TradesOfEvents
<1>2. q = <<no, yes + no>>
  BY DEF YesImpliedProbability, Quotient
<1>3. \A a, b : Imbalance(a, b) = <<a - b, a + b>>
  BY DEF Imbalance, Quotient
<1> HIDE DEF s, q
<1>4. /\ y \in Nat /\ m \in Nat /\ y = Volume(s, TradeYES) /\ m = Volume(s, TradeNO)
      /\ s # <<>> => y + m > 0
  BY <1>1, VolumesOf
<1>5. f = IF s = <<>> THEN Zero ELSE <<y - m, y + m>>
  BY <1>3, <1>4 DEF RecentTradeFlowImbalance
<1>6. yes \in Nat /\ no \in Nat /\ yes + no > 0
  BY DEF ValidReserves, validReserve
<1> HIDE DEF f, y, m
<1>7. NaN[2] = 0
  BY DEF NaN
<1>8. q[1] = no /\ q[2] = yes + no
  BY <1>2
<1>9. f[1] = (IF s = <<>> THEN 0 ELSE y - m) /\ f[2] = IF s = <<>> THEN 1 ELSE y + m
  BY <1>5 DEF Zero
<1>10. q # NaN /\ 0 <= q[1] /\ q[1] <= q[2] /\ q[2] \in Nat /\ q[1] \in Nat
  BY <1>6, <1>7, <1>8
<1>11. f # NaN /\ f[1] \in Int /\ f[2] \in Int /\ -f[2] <= f[1] /\ f[1] <= f[2]
  BY <1>4, <1>7, <1>9
<1> QED BY <1>2, <1>5, <1>10, <1>11 DEF f, q, s, y, m

-----------------------------------------------------------------------------
(* The window of the last flow events.                                     *)

\* A slice of w elements behind the first lo ones.
LEMMA Slice ==
  ASSUME NEW S, NEW s \in Seq(S), NEW lo \in Nat, NEW w \in Nat, lo + w <= Len(s)
  PROVE  /\ SubSeq(s, lo + 1, lo + w) \in Seq(S)
         /\ Len(SubSeq(s, lo + 1, lo + w)) = w
         /\ \A i \in 1..w : SubSeq(s, lo + 1, lo + w)[i] = s[lo + i]
<1>1. \A i \in lo + 1..lo + w : s[i] \in S
  BY ElementOfSeq
<1>2. lo + 1 \in Int /\ lo + w \in Int
  OBVIOUS
<1> DEFINE m == lo + 1  n == lo + w  q == SubSeq(s, m, n)
<1>3. /\ q \in Seq(S)
      /\ Len(q) = IF m <= n THEN n - m + 1 ELSE 0
      /\ \A i \in 1..n - m + 1 : q[i] = s[m + i - 1]
  <2> HIDE DEF m, n
  <2>1. m \in Int /\ n \in Int /\ \A i \in m..n : s[i] \in S
    BY <1>1, <1>2 DEF m, n
  <2> QED BY <2>1, SubSeqProperties
<1>4. n - m + 1 = w /\ (IF m <= n THEN n - m + 1 ELSE 0) = w
  OBVIOUS
<1>5. \A i \in 1..w : m + i - 1 = lo + i
  OBVIOUS
<1> HIDE DEF m, n, q
<1>6. q \in Seq(S) /\ Len(q) = w /\ \A i \in 1..w : q[i] = s[lo + i]
  BY <1>3, <1>4, <1>5
<1> QED BY <1>6 DEF m, n, q

\* Trimming the window before or after the next event is the same.
LEMMA LastOfAppend ==
  ASSUME NEW S, NEW s \in Seq(S), NEW t \in S, NEW n \in Nat \ {0}
  PROVE  LastOf(n, Append(LastOf(n, s), t)) = LastOf(n, Append(s, t))
<1> DEFINE k == Len(s)  a == Append(s, t)
<1>1. k \in Nat /\ a \in Seq(S) /\ Len(a) = k + 1
  OBVIOUS
<1>2. CASE k <= n
  BY <1>1, <1>2 DEF LastOf
<1>3. CASE k > n
  <2> DEFINE lo == k - n  l == SubSeq(s, lo + 1, lo + n)  b == Append(l, t)
             up == lo + 1
             x == SubSeq(b, 1 + 1, 1 + n)  y == SubSeq(a, up + 1, up + n)
  <2>1. lo \in Nat /\ lo + n = k /\ lo + n <= Len(s)
    BY <1>1, <1>3
  <2>2. LastOf(n, s) = l
    BY <2>1, <1>3 DEF LastOf
  <2>3. l \in Seq(S) /\ Len(l) = n /\ \A i \in 1..n : l[i] = s[lo + i]
    <3> HIDE DEF lo
    <3> QED BY <2>1, Slice
  <2>4. b \in Seq(S) /\ Len(b) = n + 1 /\ b[n + 1] = t /\ \A i \in 1..n : b[i] = s[lo + i]
    <3> HIDE DEF l
    <3> QED BY <2>3
  <2>5. a[k + 1] = t /\ \A i \in 1..k : a[i] = s[i]
    BY <1>1
  <2> HIDE DEF b, a
  <2>6. LastOf(n, b) = x
    <3>1. Len(b) - n + 1 = 1 + 1 /\ Len(b) = 1 + n /\ ~(Len(b) <= n)
      BY <2>4
    <3> QED BY <3>1 DEF LastOf
  <2>7. LastOf(n, a) = y
    <3>1. Len(a) - n + 1 = up + 1 /\ Len(a) = up + n /\ ~(Len(a) <= n)
      BY <1>1, <1>3, <2>1
    <3> QED BY <3>1 DEF LastOf
  <2>8. x \in Seq(S) /\ Len(x) = n /\ \A i \in 1..n : x[i] = b[1 + i]
    <3>1. 1 \in Nat /\ n \in Nat /\ 1 + n <= Len(b)
      BY <2>4
    <3> QED BY <3>1, <2>4, Slice
  <2>9. y \in Seq(S) /\ Len(y) = n /\ \A i \in 1..n : y[i] = a[up + i]
    <3>1. up \in Nat /\ up + n <= Len(a)
      BY <1>1, <2>1
    <3> HIDE DEF up
    <3> QED BY <3>1, <1>1, Slice
  <2>10. \A i \in 1..n : x[i] = y[i]
    <3> TAKE i \in 1..n
    <3>1. x[i] = b[1 + i] /\ y[i] = a[up + i]
      BY <2>8, <2>9
    <3> HIDE DEF x, y
    <3>2. CASE i = n
      <4>1. up + i = k + 1 /\ 1 + i = n + 1
        BY <3>2, <2>1
      <4> QED BY <4>1, <3>1, <2>4, <2>5
    <3>3. CASE i # n
      <4>1. 1 + i \in 1..n /\ up + i \in 1..k /\ lo + (1 + i) = up + i
        BY <3>3, <2>1, <1>1
      <4> HIDE DEF lo, up
      <4>2. b[1 + i] = s[lo + (1 + i)]
        BY <4>1, <2>4
      <4> QED BY <4>1, <4>2, <3>1, <2>5
    <3> QED BY <3>2, <3>3
  <2>11. x = y
    <3> HIDE DEF x, y
    <3> QED BY <2>8, <2>9, <2>10, SeqEqual
  <2> HIDE DEF x, y
  <2> QED BY <2>2, <2>6, <2>7, <2>11 DEF b, a
<1> QED BY <1>1, <1>2, <1>3

\* What is in the window was in the sequence.
LEMMA LastOfMembers ==
  ASSUME NEW S, NEW s \in Seq(S), NEW n \in Nat
  PROVE  LastOf(n, s) \in Seq(S) /\ \A i \in 1..Len(LastOf(n, s)) : \E j \in 1..Len(s) : LastOf(n, s)[i] = s[j]
<1>1. CASE Len(s) <= n
  BY <1>1 DEF LastOf
<1>2. CASE Len(s) > n
  <2> DEFINE lo == Len(s) - n  l == SubSeq(s, lo + 1, lo + n)
  <2>1. lo \in Nat /\ lo + n <= Len(s) /\ lo + n = Len(s) /\ \A i \in 1..n : lo + i \in 1..Len(s)
    BY <1>2
  <2>2. LastOf(n, s) = l
    BY <2>1, <1>2 DEF LastOf
  <2> HIDE DEF lo
  <2>3. l \in Seq(S) /\ Len(l) = n /\ \A i \in 1..n : l[i] = s[lo + i]
    BY <2>1, Slice
  <2> HIDE DEF l
  <2> QED BY <2>1, <2>2, <2>3
<1> QED BY <1>1, <1>2

-----------------------------------------------------------------------------
(* Log order.                                                              *)

Position(p) == p.block \in Nat /\ p.log \in Nat /\ p.time \in Nat

\* Log order is transitive, and so is not being after.
LEMMA AfterTransitive ==
  ASSUME NEW u, NEW v, NEW w, Position(u), Position(v), Position(w)
  PROVE  /\ After(u, v) /\ After(v, w) => After(u, w)
         /\ After(u, v) /\ ~After(w, v) => After(u, w) /\ ~After(w, u)
         /\ ~After(u, v) /\ ~After(v, w) => ~After(u, w)
         /\ ~After(u, u)
  BY DEF After, Position

=============================================================================
