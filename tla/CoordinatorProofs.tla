-------------------------- MODULE CoordinatorProofs --------------------------
(***************************************************************************)
(* Theorems about the coordinator for any tree of blocks, any provider and *)
(* any configuration.  First the tree, then what one commit does to the    *)
(* store, then the inductive invariant.                                    *)
(***************************************************************************)
EXTENDS Coordinator, ChainProofs

-----------------------------------------------------------------------------
(* The tree of blocks.                                                     *)

\* S holds the parent of each of its blocks.
ParentClosed(S) == \A x \in S \ {Genesis} : ParentOf[x] \in S

\* What is in every such set with h: h and its ancestors.
Ancestors(h) == {k \in Known : \A S \in SUBSET Known : h \in S /\ ParentClosed(S) => k \in S}

\* The blocks of the tree and their parents are known, and heights decrease.
LEMMA Tree ==
  /\ Genesis \in Known /\ NumberOf[Genesis] = 0
  /\ \A h \in Known : NumberOf[h] \in Nat
  /\ \A h \in Known \ {Genesis} :
       ParentOf[h] \in Known /\ NumberOf[h] = NumberOf[ParentOf[h]] + 1
BY CoordinatorAssumption

\* Ancestors are closed under parents, and satisfy the recursion of Branch.
LEMMA AncestorsRecursive ==
  ASSUME NEW h \in Known
  PROVE  /\ ParentClosed(Ancestors(h))
         /\ Ancestors(h) = IF h = Genesis THEN {h} ELSE {h} \cup Ancestors(ParentOf[h])
<1>1. \A k \in Known : h \in Ancestors(h) /\ ParentClosed(Ancestors(k))
  BY Tree DEF Ancestors, ParentClosed
<1>2. CASE h = Genesis
  <2>1. ParentClosed({h})
    BY <1>2 DEF ParentClosed
  <2>2. Ancestors(h) \subseteq {h}
    BY <2>1 DEF Ancestors
  <2> QED BY <1>1, <1>2, <2>2
<1>3. CASE h # Genesis
  <2> DEFINE up == Ancestors(ParentOf[h])
  <2>1. ParentOf[h] \in Known /\ ParentOf[h] \in up /\ up \subseteq Known
    BY <1>3, Tree DEF Ancestors
  <2>2. ParentClosed({h} \cup up)
    BY <1>1, <2>1 DEF ParentClosed
  <2>3. Ancestors(h) \subseteq {h} \cup up
    BY <2>1, <2>2 DEF Ancestors
  <2>4. ASSUME NEW k \in up, NEW S \in SUBSET Known, h \in S, ParentClosed(S)
        PROVE  k \in S
    <3>1. ParentOf[h] \in S
      BY <1>3, <2>4 DEF ParentClosed
    <3> QED BY <2>4, <3>1 DEF Ancestors
  <2>5. up \subseteq Ancestors(h)
    BY <2>1, <2>4 DEF Ancestors
  <2> QED BY <1>1, <1>3, <2>3, <2>5
<1> QED BY <1>1, <1>2, <1>3

\* The recursive function Branch is defined everywhere.
LEMMA BranchRecursive ==
  Branch = [h \in Known |-> IF h = Genesis THEN {h} ELSE {h} \cup Branch[ParentOf[h]]]
<1> DEFINE f == [h \in Known |-> Ancestors(h)]
<1>1. f = [h \in Known |-> IF h = Genesis THEN {h} ELSE {h} \cup f[ParentOf[h]]]
  <2>1. ASSUME NEW h \in Known
        PROVE  f[h] = IF h = Genesis THEN {h} ELSE {h} \cup f[ParentOf[h]]
    BY AncestorsRecursive, Tree
  <2> HIDE DEF f
  <2>2. f = [h \in Known |-> f[h]]
    BY DEF f
  <2> QED BY <2>1, <2>2
<1> HIDE DEF f
<1>2. \E g : g = [h \in Known |-> IF h = Genesis THEN {h} ELSE {h} \cup g[ParentOf[h]]]
  BY <1>1
<1> QED BY <1>2 DEF Branch

\* It is h and its ancestors: the least counterexample has a parent without one.
LEMMA BranchIsAncestors ==
  ASSUME NEW h \in Known
  PROVE  Branch[h] = Ancestors(h)
<1> DEFINE Bad == {k \in Known : Branch[k] # Ancestors(k)}
           Heights == {NumberOf[k] : k \in Bad}
<1>1. SUFFICES ASSUME Bad # {} PROVE FALSE
  OBVIOUS
<1>2. PICK k \in Bad : \A l \in Bad : NumberOf[k] <= NumberOf[l]
  <2>1. Heights \subseteq Nat /\ Heights # {}
    BY <1>1, Tree
  <2> HIDE DEF Heights
  <2>2. PICK n \in Heights : \A m \in Heights : n <= m
    BY <2>1, Least
  <2> QED BY <2>2 DEF Heights
<1>3. k \in Known /\ Branch[k] = IF k = Genesis THEN {k} ELSE {k} \cup Branch[ParentOf[k]]
  BY BranchRecursive
<1>4. k # Genesis /\ Branch[ParentOf[k]] # Ancestors(ParentOf[k])
  BY <1>2, <1>3, AncestorsRecursive
<1>5. NumberOf[k] <= NumberOf[ParentOf[k]]
  BY <1>2, <1>3, <1>4, Tree
<1> QED BY <1>3, <1>4, <1>5, Tree

\* A branch holds its head, is closed under parents, and is in every set that is.
LEMMA Branches ==
  ASSUME NEW h \in Known
  PROVE  /\ h \in Branch[h] /\ Branch[h] \subseteq Known
         /\ ParentClosed(Branch[h])
         /\ \A S \in SUBSET Known : h \in S /\ ParentClosed(S) => Branch[h] \subseteq S
<1>1. Branch[h] = Ancestors(h)
  BY BranchIsAncestors
<1>2. ParentClosed(Ancestors(h))
  BY AncestorsRecursive
<1> QED BY <1>1, <1>2 DEF Ancestors

\* The branch of an ancestor is part of the branch.
LEMMA BranchTransitive ==
  ASSUME NEW h \in Known, NEW k \in Branch[h]
  PROVE  k \in Known /\ Branch[k] \subseteq Branch[h]
BY Branches

\* Two blocks of one branch are ancestors of one another, one way or the other.
LEMMA BranchComparable ==
  ASSUME NEW c \in Known, NEW h \in Branch[c], NEW k \in Branch[c]
  PROVE  h \in Branch[k] \/ k \in Branch[h]
<1> DEFINE S == {x \in Known : h \in Branch[x] \/ x \in Branch[h]}
<1>0. h \in Known /\ k \in Known
  BY Branches
<1>1. ASSUME NEW x \in S, x # Genesis
      PROVE  ParentOf[x] \in S
  <2>1. x \in Known /\ ParentOf[x] \in Known
    BY <1>1, Tree
  <2>2. Branch[x] = {x} \cup Branch[ParentOf[x]]
    BY <1>1, <2>1, BranchRecursive
  <2>3. x \in Branch[h] => ParentOf[x] \in Branch[h]
    BY <1>0, <1>1, Branches DEF ParentClosed
  <2>4. h = x => x \in Branch[h]
    BY <1>0, Branches
  <2> QED BY <1>1, <2>1, <2>2, <2>3, <2>4
<1>2. ParentClosed(S) /\ c \in S
  BY <1>1 DEF ParentClosed
<1> HIDE DEF S
<1>3. Branch[c] \subseteq S
  <2>1. S \in SUBSET Known
    BY DEF S
  <2> QED BY <1>2, <2>1, Branches
<1> QED BY <1>3 DEF S

\* Every height up to the head's is taken, so HeaderAt finds a header there.
LEMMA HeaderFound ==
  ASSUME NEW c \in Known, NEW n \in 0..NumberOf[c]
  PROVE  \E h \in Branch[c] : NumberOf[h] = n
<1> SUFFICES ASSUME \A h \in Branch[c] : NumberOf[h] # n PROVE FALSE
  OBVIOUS
<1> DEFINE S == {x \in Branch[c] : NumberOf[x] > n}
           Heights == {NumberOf[x] : x \in S}
<1>1. S \subseteq Known /\ c \in S
  BY Branches, Tree
<1>2. PICK x \in S : \A y \in S : NumberOf[x] <= NumberOf[y]
  <2>1. Heights \subseteq Nat /\ Heights # {}
    BY <1>1, Tree
  <2> HIDE DEF Heights
  <2>2. PICK m \in Heights : \A k \in Heights : m <= k
    BY <2>1, Least
  <2> QED BY <2>2 DEF Heights
<1>3. x \in Known /\ x # Genesis
  BY <1>1, Tree
<1>4. ParentOf[x] \in Branch[c] /\ NumberOf[x] = NumberOf[ParentOf[x]] + 1 /\ NumberOf[ParentOf[x]] \in Nat
  BY <1>3, Branches, Tree DEF ParentClosed
<1>5. ParentOf[x] \in S
  BY <1>4
<1> QED BY <1>2, <1>4, <1>5

-----------------------------------------------------------------------------
(* What one commit does to the store.                                      *)

Start(s) == [store |-> s, err |-> "ok", done |-> FALSE]

\* f is commitCandidate's progress over the first n blocks of c.
Progresses(f, s, c, n) ==
  f = [i \in 0..n |-> IF i = 0 THEN Start(s) ELSE commitStep(f[i-1], c[i], c)]

\* There is such an f for every n: one more step extends the one before.
LEMMA ProgressExists ==
  ASSUME NEW s, NEW c, NEW n \in Nat
  PROVE  \E f : Progresses(f, s, c, n)
<1> DEFINE Bad == {m \in Nat : ~ \E f : Progresses(f, s, c, m)}
<1>1. SUFFICES ASSUME Bad # {} PROVE FALSE
  OBVIOUS
<1>2. PICK m \in Bad : \A k \in Bad : m <= k
  <2>1. Bad \subseteq Nat
    OBVIOUS
  <2> HIDE DEF Bad
  <2> QED BY <1>1, <2>1, Least
<1>3. m \in Nat /\ ~ \E f : Progresses(f, s, c, m)
  BY <1>2
<1>4. m # 0
  <2>1. Progresses([i \in 0..0 |-> Start(s)], s, c, 0)
    BY DEF Progresses
  <2> QED BY <1>3, <2>1
<1>5. PICK f : Progresses(f, s, c, m - 1)
  <2>1. m - 1 \in Nat /\ m - 1 \notin Bad
    <3> HIDE DEF Bad
    <3> QED BY <1>2, <1>3, <1>4
  <2> QED BY <2>1
<1> DEFINE g == [i \in 0..m |-> IF i = m THEN commitStep(f[m-1], c[m], c) ELSE f[i]]
<1>6. Progresses(g, s, c, m)
  <2>1. ASSUME NEW i \in 0..m
        PROVE  g[i] = IF i = 0 THEN Start(s) ELSE commitStep(g[i-1], c[i], c)
    <3>1. CASE i = m
      <4>1. g[m-1] = f[m-1] /\ g[m] = commitStep(f[m-1], c[m], c)
        BY <1>3, <1>4
      <4> HIDE DEF g
      <4> QED BY <1>4, <3>1, <4>1
    <3>2. CASE i = 0
      BY <1>3, <1>4, <1>5, <3>2 DEF Progresses
    <3>3. CASE i # 0 /\ i # m
      <4>1. i \in 1..(m-1) /\ i - 1 \in 0..(m-1)
        BY <1>3, <3>3
      <4>2. g[i] = f[i] /\ g[i-1] = f[i-1]
        BY <4>1, <1>3
      <4>3. f[i] = commitStep(f[i-1], c[i], c)
        BY <1>5, <4>1 DEF Progresses
      <4> HIDE DEF g
      <4> QED BY <3>3, <4>2, <4>3
    <3> QED BY <3>1, <3>2, <3>3
  <2>2. g = [i \in 0..m |-> g[i]]
    OBVIOUS
  <2> HIDE DEF g
  <2> QED BY <2>1, <2>2 DEF Progresses
<1> QED BY <1>3, <1>6

\* So the recursive function commitPrefix is defined for every candidate.
LEMMA PrefixRecursive ==
  ASSUME NEW s, NEW c, Len(c) \in Nat
  PROVE  /\ commitPrefix(s, c)[0] = Start(s)
         /\ \A i \in 1..Len(c) : commitPrefix(s, c)[i] = commitStep(commitPrefix(s, c)[i-1], c[i], c)
<1>1. \E f : Progresses(f, s, c, Len(c))
  BY ProgressExists
<1>2. commitPrefix(s, c) = CHOOSE f : f = [i \in 0..Len(c) |->
        IF i = 0 THEN [store |-> s, err |-> "ok", done |-> FALSE] ELSE commitStep(f[i-1], c[i], c)]
  BY DEF commitPrefix
<1>3. commitPrefix(s, c) = [i \in 0..Len(c) |->
        IF i = 0 THEN [store |-> s, err |-> "ok", done |-> FALSE]
        ELSE commitStep(commitPrefix(s, c)[i-1], c[i], c)]
  BY <1>1, <1>2 DEF Progresses, Start
<1> DEFINE g == commitPrefix(s, c)
<1>4. g = [i \in 0..Len(c) |-> IF i = 0 THEN Start(s) ELSE commitStep(g[i-1], c[i], c)]
  BY <1>3 DEF Start
<1> HIDE DEF g
<1>5. g[0] = Start(s) /\ \A i \in 1..Len(c) : g[i] = commitStep(g[i-1], c[i], c)
  BY <1>4
<1> QED BY <1>5 DEF g

\* t is s with blocks of c appended, and starts with c's first if s was empty.
Grown(s, t, c) ==
  /\ WellFormed(t)
  /\ Len(s.blocks) < Len(t.blocks)
  /\ \A i \in 1..Len(s.blocks) : t.blocks[i] = s.blocks[i] /\ t.finality[i] = s.finality[i]
  /\ \A i \in (Len(s.blocks) + 1)..Len(t.blocks) :
       t.finality[i] = Seen /\ \E k \in 1..Len(c) : t.blocks[i] = c[k]
  /\ s.blocks = <<>> => t.blocks[1] = c[1]
SameOrGrown(s, t, c) == t = s \/ Grown(s, t, c)

\* Stored finds a block of the store.
LEMMA StoredFound ==
  ASSUME NEW s, WellFormed(s), NEW b, Stored(s, b)
  PROVE  \E i \in 1..Len(s.blocks) : s.blocks[i].number = b.number /\ s.blocks[i].hash = b.hash
<1> DEFINE At == {j \in Indices(s) : s.blocks[j].number = b.number}
           i == IndexByNumber(s, b.number)
<1>1. At \in SUBSET (1..Len(s.blocks)) /\ i = Lowest(At) /\ i # 0 /\ s.blocks[i].hash = b.hash
  BY DEF Indices, IndexByNumber, Stored
<1> HIDE DEF At, i
<1>2. i \in At
  BY <1>1, LowestProps, Fields
<1> QED BY <1>1, <1>2 DEF At, Indices

\* Appending a block of c that is the first or extends the tip.
LEMMA AppendGrows ==
  ASSUME NEW s, WellFormed(s), NEW t, NEW c \in Seq(Block), NEW n \in 1..Len(c),
         SameOrGrown(s, t, c),
         t.blocks # <<>> => Extends(Tip(t), c[n]),
         s.blocks = <<>> /\ t = s => n = 1,
         NEW r, r = AppendBlock(t, c[n])
  PROVE  r.err = "ok" /\ Grown(s, r.store, c) /\ Tip(r.store) = c[n]
<1> DEFINE b == c[n]  m == Len(t.blocks)
<1>0. WellFormed(t) /\ b \in Block /\ m \in Nat
  <2>1. WellFormed(t)
    BY DEF SameOrGrown, Grown
  <2> QED BY <2>1, Fields, ElementOfSeq
<1>1. r = Ok([blocks |-> Append(t.blocks, b), finality |-> Append(t.finality, Seen),
              state |-> advance(t.state, b)])
  BY DEF AppendBlock
<1>2. WellFormed(r.store)
  BY <1>0, AppendWellFormed
<1>3. /\ r.err = "ok" /\ r.store.blocks = Append(t.blocks, b)
      /\ r.store.finality = Append(t.finality, Seen)
  BY <1>1 DEF Ok
<1>4. /\ Len(r.store.blocks) = m + 1 /\ r.store.blocks[m + 1] = b
      /\ \A i \in 1..m : r.store.blocks[i] = t.blocks[i]
      /\ \A i \in 1..m : r.store.finality[i] = t.finality[i]
      /\ r.store.finality[m + 1] = Seen
  <2>1. Seen \in Seen..Finalized
    BY DEF Seen, Finalized
  <2>2. Len(t.finality) = m
    BY <1>0, Fields
  <2> QED BY <1>0, <1>3, <2>1, <2>2, Fields, AppendProperties
<1>5. Tip(r.store) = b
  BY <1>4 DEF Tip
<1>6. Len(s.blocks) \in Nat
  BY Fields
<1>7. Grown(s, r.store, c)
  <2>1. CASE t = s
    <3>1. s.blocks = <<>> => m = 0 /\ b = c[1]
      BY <2>1, EmptySeq
    <3> QED BY <1>2, <1>4, <1>6, <2>1, <3>1 DEF Grown
  <2>2. CASE Grown(s, t, c)
    <3>1. Len(s.blocks) < m
      BY <2>2 DEF Grown
    <3>2. \A i \in (Len(s.blocks) + 1)..(m + 1) :
            r.store.finality[i] = Seen /\ \E k \in 1..Len(c) : r.store.blocks[i] = c[k]
      <4>1. ASSUME NEW i \in (Len(s.blocks) + 1)..(m + 1), i # m + 1
            PROVE  r.store.finality[i] = Seen /\ \E k \in 1..Len(c) : r.store.blocks[i] = c[k]
        <5>1. i \in 1..m /\ i \in (Len(s.blocks) + 1)..Len(t.blocks)
          BY <1>0, <1>6, <4>1
        <5>2. r.store.blocks[i] = t.blocks[i] /\ r.store.finality[i] = t.finality[i]
          BY <1>4, <5>1
        <5>3. t.finality[i] = Seen /\ \E k \in 1..Len(c) : t.blocks[i] = c[k]
          BY <2>2, <5>1 DEF Grown
        <5> QED BY <5>2, <5>3
      <4> QED BY <1>4, <4>1
    <3>3. \A i \in 1..Len(s.blocks) : /\ r.store.blocks[i] = s.blocks[i]
                                      /\ r.store.finality[i] = s.finality[i]
      BY <1>0, <1>4, <1>6, <2>2, <3>1 DEF Grown
    <3>4. s.blocks = <<>> => r.store.blocks[1] = c[1]
      BY <1>0, <1>4, <1>6, <2>2, <3>1 DEF Grown
    <3>5. Len(r.store.blocks) = m + 1 /\ Len(s.blocks) < m + 1
      BY <1>0, <1>4, <1>6, <3>1
    <3> HIDE DEF m, b
    <3> QED BY <1>2, <3>2, <3>3, <3>4, <3>5 DEF Grown
  <2> QED BY <2>1, <2>2 DEF SameOrGrown
<1> QED BY <1>3, <1>5, <1>7

\* Where commitCandidate is after i blocks: it has passed stored blocks only, or
\* has appended some, or has handed the whole candidate to ReconcileBounded with
\* the store as it was.
Position(p, s, c, i) ==
  \/ p.store = s /\ p.err = "ok" /\ ~p.done /\ (i > 0 => s.blocks # <<>>)
  \/ Grown(s, p.store, c) /\ p.err = "ok" /\ ~p.done /\ i > 0 /\ Tip(p.store) = c[i]
  \/ /\ s.blocks # <<>> /\ p.done = TRUE
     /\ LET r == Reconcile(s, c, RetainedDepth)
        IN  p.store = r.store /\ p.err = IF IsResync(r.err) THEN "resync" ELSE r.err

\* One more block keeps it so; linkage excludes a rejected append after others.
LEMMA PositionStep ==
  ASSUME NEW s, WellFormed(s), NEW c \in Seq(Block), Linear(c), NEW i \in 1..Len(c),
         NEW p, p.done \in BOOLEAN, Position(p, s, c, i - 1)
  PROVE  Position(commitStep(p, c[i], c), s, c, i)
<1> DEFINE b == c[i]  q == commitStep(p, b, c)
<1>0. Len(c) \in Nat /\ i \in Nat /\ i > 0
  BY LenProperties
<1>1. CASE p.done
  <2>1. q = p
    BY <1>1 DEF commitStep
  <2> HIDE DEF q
  <2> QED BY <1>1, <2>1 DEF Position, q
<1>2. CASE ~p.done /\ p.store = s /\ p.err = "ok" /\ (i - 1 > 0 => s.blocks # <<>>)
  <2>1. CASE Stored(s, b)
    <3>1. q = p
      BY <1>2, <2>1 DEF commitStep
    <3>2. s.blocks # <<>>
      BY <2>1, StoredFound, EmptySeq
    <3> HIDE DEF q
    <3> QED BY <1>2, <3>1, <3>2 DEF Position, q
  <2>2. CASE ~Stored(s, b) /\ (s.blocks = <<>> \/ Extends(Tip(s), b))
    <3> DEFINE r == AppendBlock(s, b)
    <3>1. q = [store |-> r.store, err |-> r.err, done |-> r.err # "ok"]
      BY <1>2, <2>2 DEF commitStep
    <3>2. s.blocks = <<>> => i = 1
      BY <1>0, <1>2
    <3> HIDE DEF q, r
    <3>3. r.err = "ok" /\ Grown(s, r.store, c) /\ Tip(r.store) = b
      <4>1. /\ SameOrGrown(s, s, c)
            /\ s.blocks # <<>> => Extends(Tip(s), c[i])
            /\ s.blocks = <<>> => i = 1
            /\ r = AppendBlock(s, c[i])
        BY <2>2, <3>2 DEF r, SameOrGrown
      <4>2. r.err = "ok" /\ Grown(s, r.store, c) /\ Tip(r.store) = c[i]
        BY <4>1, AppendGrows
      <4> QED BY <4>2
    <3>4. q.store = r.store /\ q.err = "ok" /\ q.done = FALSE
      BY <3>1, <3>3
    <3> QED BY <1>0, <3>3, <3>4 DEF Position, q
  <2>3. CASE ~Stored(s, b) /\ ~(s.blocks = <<>> \/ Extends(Tip(s), b))
    <3>1. q = LET r == Reconcile(s, c, RetainedDepth)
              IN  [store |-> r.store, err |-> IF IsResync(r.err) THEN "resync" ELSE r.err, done |-> TRUE]
      BY <1>2, <2>3 DEF commitStep
    <3> HIDE DEF q
    <3> QED BY <2>3, <3>1 DEF Position, q
  <2> QED BY <2>1, <2>2, <2>3
<1>3. CASE /\ ~p.done /\ Grown(s, p.store, c) /\ p.err = "ok"
           /\ i - 1 > 0 /\ Tip(p.store) = c[i-1]
  <2> DEFINE t == p.store
  <2>0. WellFormed(t) /\ t.blocks # <<>>
    <3>1. WellFormed(t) /\ Len(s.blocks) < Len(t.blocks)
      BY <1>3 DEF Grown
    <3> QED BY <3>1, Fields, EmptySeq
  <2>1. Extends(Tip(t), b)
    <3>1. i \in 2..Len(c)
      BY <1>0, <1>3
    <3> QED BY <1>3, <3>1 DEF Linear
  <2>2. ~Stored(t, b)
    <3> SUFFICES ASSUME Stored(t, b) PROVE FALSE
      OBVIOUS
    <3>1. PICK k \in 1..Len(t.blocks) : t.blocks[k].number = b.number
      BY <2>0, StoredFound
    <3>2. \A j \in 1..Len(t.blocks) : t.blocks[j].number = t.blocks[1].number + j - 1
      BY <2>0, Fields, Consecutive DEF WellFormed
    <3>3. b.number = t.blocks[Len(t.blocks)].number + 1
      BY <2>1 DEF Extends, Tip
    <3>4. Len(t.blocks) \in Nat /\ \A j \in 1..Len(t.blocks) : t.blocks[j].number \in Nat
      BY <2>0, Fields
    <3>5. Len(t.blocks) \in 1..Len(t.blocks) /\ 1 \in 1..Len(t.blocks)
      BY <3>1, <3>4
    <3>6. /\ b.number = t.blocks[1].number + k - 1
          /\ b.number = t.blocks[1].number + Len(t.blocks) - 1 + 1
      BY <3>1, <3>2, <3>3, <3>5
    <3>7. t.blocks[1].number \in Nat
      BY <3>4, <3>5
    <3> HIDE DEF b, t
    <3> QED BY <3>1, <3>4, <3>6, <3>7
  <2> DEFINE r == AppendBlock(t, b)
  <2>3. q = [store |-> r.store, err |-> r.err, done |-> r.err # "ok"]
    BY <1>3, <2>1, <2>2 DEF commitStep
  <2>4. SameOrGrown(s, t, c) /\ (s.blocks = <<>> => t # s)
    BY <1>3, <2>0 DEF SameOrGrown
  <2> HIDE DEF q, r
  <2>5. r.err = "ok" /\ Grown(s, r.store, c) /\ Tip(r.store) = b
    BY <1>3, <2>1, <2>4, AppendGrows DEF r
  <2>6. q.store = r.store /\ q.err = "ok" /\ q.done = FALSE
    BY <2>3, <2>5
  <2> QED BY <1>0, <2>5, <2>6 DEF Position, q
<1> QED BY <1>1, <1>2, <1>3 DEF Position


\* So it is after every number of blocks.
LEMMA PositionAlways ==
  ASSUME NEW s, WellFormed(s), NEW c \in Seq(Block), Linear(c)
  PROVE  Position(commitPrefix(s, c)[Len(c)], s, c, Len(c))
<1> DEFINE P == commitPrefix(s, c)
           Good(i) == P[i].done \in BOOLEAN /\ Position(P[i], s, c, i)
           Bad == {i \in 0..Len(c) : ~Good(i)}
<1>0. Len(c) \in Nat
  BY LenProperties
<1>1. P[0] = Start(s) /\ \A i \in 1..Len(c) : P[i] = commitStep(P[i-1], c[i], c)
  BY <1>0, PrefixRecursive
<1>2. SUFFICES ASSUME Bad # {} PROVE FALSE
  BY <1>0
<1> HIDE DEF P
<1>3. PICK i \in Bad : \A j \in Bad : i <= j
  <2>1. Bad \subseteq Nat
    BY <1>0
  <2> HIDE DEF Bad
  <2> QED BY <1>2, <2>1, Least
<1>4. i \in 0..Len(c) /\ ~Good(i)
  BY <1>3
<1>5. Good(0)
  BY <1>1 DEF Start, Position
<1>6. i \in 1..Len(c)
  BY <1>0, <1>4, <1>5
<1>7. Good(i - 1)
  <2>1. i - 1 \in 0..Len(c) /\ i - 1 \notin Bad
    <3> HIDE DEF Bad
    <3> QED BY <1>0, <1>3, <1>6
  <2> HIDE DEF Good
  <2> QED BY <2>1
<1>8. Position(P[i], s, c, i)
  BY <1>1, <1>6, <1>7, PositionStep
<1>9. P[i].done \in BOOLEAN
  <2>1. P[i] = commitStep(P[i-1], c[i], c) /\ P[i-1].done \in BOOLEAN
    BY <1>1, <1>6, <1>7
  <2>2. ASSUME NEW p, p.done \in BOOLEAN, NEW b
        PROVE  commitStep(p, b, c).done \in BOOLEAN
    <3>1. CASE p.done \/ Stored(p.store, b)
      BY <2>2, <3>1 DEF commitStep
    <3>2. CASE ~(p.done \/ Stored(p.store, b))
      BY <3>2 DEF commitStep
    <3> QED BY <3>1, <3>2
  <2> QED BY <2>1, <2>2
<1> QED BY <1>4, <1>8, <1>9

\* t is s with everything above a block within reach replaced by blocks of c,
\* the last one included.
Replaced(s, t, c) ==
  /\ Tip(t) = c[Len(c)]
  /\ \E a \in 1..Len(s.blocks), branch \in Seq(Block) :
       /\ Rewrites(s, t, a, branch)
       /\ ~(Tip(s).number - s.blocks[a].number > RetainedDepth)
       /\ \A i \in 1..Len(branch) : \E k \in 1..Len(c) : branch[i] = c[k]

\* ReconcileBounded replaces a suffix, or leaves the store as it was.
LEMMA ReconcileReplaces ==
  ASSUME NEW s, WellFormed(s), NEW c \in Seq(Block), NEW r, r = Reconcile(s, c, RetainedDepth)
  PROVE  /\ r.err \in {"ok", "broken", "unknownAncestor", "resync"}
         /\ r.store = s \/ (r.err = "ok" /\ Replaced(s, r.store, c))
<1>1. \A b : Reorg(s, b, RetainedDepth).err \in {"ok", "broken", "unknownAncestor", "resync"}
  BY DEF Reorg, Ok, Reject
<1>2. r.err \in {"ok", "broken", "unknownAncestor", "resync"}
  BY <1>1 DEF Reconcile, Ok, Reject
<1>3. \A b : Reorg(s, b, RetainedDepth).err # "ok" => Reorg(s, b, RetainedDepth).store = s
  BY DEF Reorg, Ok, Reject
<1>4. r.err # "ok" => r.store = s
  BY <1>3 DEF Reconcile, Ok, Reject
<1>5. CASE r.store # s
  <2>1. PICK branch \in Seq(Block) :
          /\ \A i \in 1..Len(branch) : \E k \in 1..Len(c) : branch[i] = c[k]
          /\ branch # <<>> => branch[Len(branch)] = c[Len(c)]
          /\ r.store = Reorg(s, branch, RetainedDepth).store
    BY <1>5, ReconcileShape
  <2>2. RetainedDepth # Unbounded
    BY CoordinatorAssumption DEF Unbounded
  <2>3. PICK a \in 1..Len(s.blocks) :
          /\ Rewrites(s, r.store, a, branch)
          /\ ~(Tip(s).number - s.blocks[a].number > RetainedDepth)
    BY <1>5, <2>1, <2>2, ReorgShape
  <2>4. Tip(r.store) = c[Len(c)]
    <3>1. /\ Len(r.store.blocks) = a + Len(branch)
          /\ \A i \in 1..Len(branch) : r.store.blocks[a + i] = branch[i]
      BY <2>3, RewriteShape DEF Rewritten
    <3>2. branch # <<>> /\ Len(branch) \in 1..Len(branch)
      BY <2>3, EmptySeq, LenProperties DEF Rewrites
    <3> QED BY <2>1, <3>1, <3>2 DEF Tip
  <2> QED BY <1>2, <1>4, <1>5, <2>1, <2>3, <2>4 DEF Replaced
<1> QED BY <1>2, <1>5

\* commitCandidate appends, or replaces a suffix within reach, and ends with the
\* candidate's last block, or leaves the store as it was; a rejected candidate
\* always does.
LEMMA CommitShape ==
  ASSUME NEW s, WellFormed(s), NEW c \in Seq(Block), c # <<>>, NEW r, r = commitCandidate(s, c)
  PROVE  /\ r.err # "checkpointRejected"
         /\ r.err # "ok" => r.store = s
         /\ \/ r.store = s /\ (r.err = "ok" => s.blocks # <<>>)
            \/ Grown(s, r.store, c) /\ Tip(r.store) = c[Len(c)]
            \/ Replaced(s, r.store, c)
<1>1. CASE ~Linear(c)
  BY <1>1 DEF commitCandidate, Reject
<1>2. CASE Linear(c)
  <2> DEFINE p == commitPrefix(s, c)[Len(c)]
  <2>1. r = [store |-> p.store, err |-> p.err]
    BY <1>2 DEF commitCandidate
  <2>2. Position(p, s, c, Len(c))
    BY <1>2, PositionAlways
  <2> HIDE DEF p
  <2>3. Len(c) > 0
    BY EmptySeq, LenProperties
  <2>4. CASE p.store = s /\ p.err = "ok" /\ s.blocks # <<>>
    BY <2>1, <2>4
  <2>5. CASE Grown(s, p.store, c) /\ p.err = "ok" /\ Tip(p.store) = c[Len(c)]
    BY <2>1, <2>5
  <2>6. CASE /\ s.blocks # <<>>
             /\ LET q == Reconcile(s, c, RetainedDepth)
                IN  p.store = q.store /\ p.err = IF IsResync(q.err) THEN "resync" ELSE q.err
    <3> DEFINE q == Reconcile(s, c, RetainedDepth)
    <3>1. /\ q.err \in {"ok", "broken", "unknownAncestor", "resync"}
          /\ q.store = s \/ (q.err = "ok" /\ Replaced(s, q.store, c))
      BY ReconcileReplaces
    <3> HIDE DEF q
    <3>2. p.store = q.store /\ p.err = IF IsResync(q.err) THEN "resync" ELSE q.err
      BY <2>6 DEF q
    <3> QED BY <2>1, <2>6, <3>1, <3>2 DEF IsResync
  <2> QED BY <2>2, <2>3, <2>4, <2>5, <2>6 DEF Position
<1> QED BY <1>1, <1>2

-----------------------------------------------------------------------------
(* What refreshing the checkpoints does to the store.                      *)

\* Heights and hashes tell the blocks of a store apart.
LEMMA BlocksDiffer ==
  ASSUME NEW s, WellFormed(s), NEW i \in 1..Len(s.blocks), NEW j \in 1..Len(s.blocks)
  PROVE  /\ i < j <=> s.blocks[i].number < s.blocks[j].number
         /\ s.blocks[i].hash = s.blocks[j].hash => i = j
<1>1. \A k \in 1..Len(s.blocks) : s.blocks[k].number = s.blocks[1].number + k - 1
  BY Fields, Consecutive DEF WellFormed
<1>2. s.blocks[1].number \in Nat /\ s.blocks[i] \in Block /\ s.blocks[j] \in Block
  BY Fields
<1>3. s.blocks[i].hash = s.blocks[j].hash => s.blocks[i].number = s.blocks[j].number
  BY <1>2, BlockAssumption
<1> QED BY <1>1, <1>2, <1>3

\* Looking a stored block's hash up finds that block, from either end.
LEMMA HashFound ==
  ASSUME NEW s, WellFormed(s), NEW k \in 1..Len(s.blocks)
  PROVE  /\ IndexByHash(s, s.blocks[k].hash) = k
         /\ Highest({i \in Indices(s) : s.blocks[i].hash = s.blocks[k].hash}) = k
<1> DEFINE S == {i \in Indices(s) : s.blocks[i].hash = s.blocks[k].hash}
<1>1. S = {k}
  BY BlocksDiffer DEF Indices
<1>2. S \in SUBSET (1..Len(s.blocks))
  BY DEF Indices
<1>3. IndexByHash(s, s.blocks[k].hash) = Lowest(S)
  BY DEF IndexByHash
<1> HIDE DEF S
<1>4. Lowest(S) \in S /\ Highest(S) \in S
  BY <1>1, <1>2, LowestProps, HighestProps, Fields
<1> QED BY <1>1, <1>3, <1>4 DEF S

\* The checkpoint of a level is the newest block that has it.
LEMMA CheckpointProps ==
  ASSUME NEW s, WellFormed(s), NEW level \in {Safe, Finalized}
  PROVE  /\ checkpointIndex(s, level) \in 0..Len(s.blocks)
         /\ \A k \in 1..Len(s.blocks) : s.finality[k] >= level => k <= checkpointIndex(s, level)
<1> DEFINE S == {i \in Indices(s) : s.finality[i] >= level}
<1>1. checkpointIndex(s, level) = Highest(S)
  BY DEF checkpointIndex, Safe, Finalized
<1>2. S \in SUBSET (1..Len(s.blocks)) /\ \A k \in 1..Len(s.blocks) : s.finality[k] >= level => k \in S
  BY DEF Indices
<1> HIDE DEF S
<1>3. Highest(S) \in 0..Len(s.blocks) /\ \A k \in S : k <= Highest(S)
  BY <1>2, HighestProps, Fields
<1> QED BY <1>1, <1>2, <1>3

\* A checkpoint newer than the current one is accepted.
LEMMA MarkAccepted ==
  ASSUME NEW s, WellFormed(s), NEW level \in {Safe, Finalized},
         NEW k \in 1..Len(s.blocks), checkpointIndex(s, level) < k
  PROVE  MarkFinality(s, s.blocks[k].hash, level) = Ok(RaiseFinality(s, k, level))
<1> DEFINE c == checkpointIndex(s, level)
<1>1. IndexByHash(s, s.blocks[k].hash) = k
  BY HashFound
<1>2. c \in 0..Len(s.blocks) /\ (s.finality[k] >= level => k <= c)
  BY CheckpointProps
<1>3. s.finality[k] \in 0..2 /\ Len(s.blocks) \in Nat /\ level \in 1..2
  BY Fields DEF Seen, Safe, Finalized
<1> HIDE DEF c
<1>4. ~(s.finality[k] > level) /\ ~(k < c)
  BY <1>2, <1>3 DEF c
<1>5. k # 0 /\ ~(level > 2)
  BY <1>3
<1> QED BY <1>1, <1>4, <1>5 DEF MarkFinality, c, Finalized

\* A header validateCheckpoint accepted makes no update, or marks its own block,
\* which is newer than the checkpoint so far.
LEMMA UpdateShape ==
  ASSUME NEW s, WellFormed(s), NEW h \in Known, NEW level \in {Safe, Finalized},
         s.blocks # <<>>, CheckpointMatches(s, h)
  PROVE  \/ CheckpointUpdate(s, h, level) = NoHash
         \/ \E k \in 1..Len(s.blocks) :
              /\ s.blocks[k].number = NumberOf[h] /\ s.blocks[k].hash = h
              /\ checkpointIndex(s, level) < k
              /\ CheckpointUpdate(s, h, level) = h
<1> DEFINE c == checkpointIndex(s, level)
           At == {i \in Indices(s) : s.blocks[i].number = NumberOf[h]}
           k == IndexByNumber(s, NumberOf[h])
<1>1. SUFFICES ASSUME CheckpointUpdate(s, h, level) # NoHash
               PROVE  \E j \in 1..Len(s.blocks) :
                        /\ s.blocks[j].number = NumberOf[h] /\ s.blocks[j].hash = h
                        /\ c < j /\ CheckpointUpdate(s, h, level) = h
  OBVIOUS
<1> HIDE DEF c
<1>2. /\ ~(NumberOf[h] < s.blocks[1].number)
      /\ ~(c # 0 /\ NumberOf[h] <= s.blocks[c].number)
      /\ CheckpointUpdate(s, h, level) = s.blocks[k].hash
  BY <1>1 DEF CheckpointUpdate, c
<1>3. k # 0 /\ s.blocks[k].hash = h
  BY <1>2 DEF CheckpointMatches
<1>4. k \in At
  <2>1. At \in SUBSET (1..Len(s.blocks)) /\ k = Lowest(At)
    BY DEF Indices, IndexByNumber
  <2> HIDE DEF At, k
  <2> QED BY <1>3, <2>1, LowestProps, Fields
<1> HIDE DEF k
<1>5. k \in 1..Len(s.blocks) /\ s.blocks[k].number = NumberOf[h]
  BY <1>4 DEF Indices
<1>6. c \in 0..Len(s.blocks) /\ Len(s.blocks) \in Nat
  BY CheckpointProps, Fields DEF c
<1>7. c < k
  <2>1. CASE c = 0
    BY <1>5, <2>1
  <2>2. CASE c # 0
    <3>1. c \in 1..Len(s.blocks)
      BY <1>6, <2>2
    <3>2. s.blocks[c].number \in Nat /\ s.blocks[k].number \in Nat
      BY <1>5, <3>1, Fields
    <3>3. s.blocks[c].number < s.blocks[k].number
      BY <1>2, <1>5, <2>2, <3>2
    <3> QED BY <1>5, <3>1, <3>3, BlocksDiffer
  <2> QED BY <2>1, <2>2
<1> QED BY <1>2, <1>3, <1>5, <1>7

\* Raising blocks to safe leaves the finalized ones as they are.
LEMMA SafeKeepsFinalized ==
  ASSUME NEW s, WellFormed(s), NEW k \in 1..Len(s.blocks)
  PROVE  LET t == RaiseFinality(s, k, Safe)
         IN  /\ WellFormed(t) /\ t.blocks = s.blocks
             /\ \A i \in 1..Len(s.blocks) : t.finality[i] = Finalized <=> s.finality[i] = Finalized
             /\ checkpointIndex(t, Finalized) = checkpointIndex(s, Finalized)
<1> DEFINE t == RaiseFinality(s, k, Safe)
<1>0. Safe \in Seen..Finalized /\ k \in 0..Len(s.blocks) /\ Len(s.blocks) \in Nat
  BY Fields DEF Seen, Safe, Finalized
<1>1. WellFormed(t) /\ t.blocks = s.blocks
  BY <1>0, RaiseWellFormed
<1>2. DOMAIN s.finality = 1..Len(s.blocks)
  BY Fields, LenProperties
<1>3. \A i \in 1..Len(s.blocks) :
        t.finality[i] = IF i <= k /\ s.finality[i] < Safe THEN Safe ELSE s.finality[i]
  BY <1>2 DEF RaiseFinality
<1>4. \A i \in 1..Len(s.blocks) : s.finality[i] \in 0..2
  BY Fields DEF Seen, Finalized
<1> HIDE DEF t
<1>5. \A i \in 1..Len(s.blocks) : t.finality[i] = Finalized <=> s.finality[i] = Finalized
  BY <1>3, <1>4 DEF Safe, Finalized
<1>6. checkpointIndex(t, Finalized) = checkpointIndex(s, Finalized)
  <2> DEFINE m == checkpointIndex(s, Finalized)  n == checkpointIndex(t, Finalized)
  <2>1. m \in 0..Len(s.blocks) /\ n \in 0..Len(s.blocks)
    BY <1>1, FinalCount
  <2>2. /\ \A i \in 1..Len(s.blocks) : s.finality[i] = Finalized <=> i <= m
        /\ \A i \in 1..Len(s.blocks) : t.finality[i] = Finalized <=> i <= n
    BY <1>1, FinalCount
  <2> HIDE DEF m, n
  <2>3. m \in 1..Len(s.blocks) => m <= n
    BY <1>0, <1>5, <2>1, <2>2
  <2>4. n \in 1..Len(s.blocks) => n <= m
    BY <1>0, <1>5, <2>1, <2>2
  <2>5. m = n
    BY <1>0, <2>1, <2>3, <2>4
  <2> QED BY <2>5 DEF m, n
<1> QED BY <1>1, <1>5, <1>6 DEF t

\* Raising to finalized adds the blocks up to the k-th to the finalized ones.
LEMMA FinalizedRaised ==
  ASSUME NEW s, WellFormed(s), NEW k \in 1..Len(s.blocks)
  PROVE  \A i \in 1..Len(s.blocks) :
           RaiseFinality(s, k, Finalized).finality[i] = Finalized => i <= k \/ s.finality[i] = Finalized
<1>1. DOMAIN s.finality = 1..Len(s.blocks)
  BY Fields, LenProperties
<1> QED BY <1>1 DEF RaiseFinality

\* Two checkpoints, each newer than the one so far and in order, are accepted,
\* and finalize nothing above the finalized one.
LEMMA CheckpointsMarked ==
  ASSUME NEW s, WellFormed(s), NEW u, NEW v,
         u # NoHash => \E i \in 1..Len(s.blocks) :
                         s.blocks[i].hash = u /\ checkpointIndex(s, Safe) < i,
         v # NoHash => \E j \in 1..Len(s.blocks) :
                         s.blocks[j].hash = v /\ checkpointIndex(s, Finalized) < j,
         \A i, j \in 1..Len(s.blocks) : s.blocks[i].hash = u /\ s.blocks[j].hash = v => j <= i,
         NEW r, r = MarkCheckpoints(s, u, v)
  PROVE  /\ r.err = "ok"
         /\ \A m \in 1..Len(s.blocks) : r.store.finality[m] = Finalized =>
              \/ s.finality[m] = Finalized
              \/ v # NoHash /\ \E j \in 1..Len(s.blocks) : s.blocks[j].hash = v /\ m <= j
<1> DEFINE staged == MarkOptional(s, u, Safe)
           t == staged.store
           marked == MarkOptional(t, v, Finalized)
           lastWith(h) == Highest({i \in Indices(s) : s.blocks[i].hash = h})
<1>0. Safe \in {Safe, Finalized} /\ Finalized \in {Safe, Finalized}
  OBVIOUS
<1>1. /\ staged.err = "ok" /\ WellFormed(t) /\ t.blocks = s.blocks
      /\ \A i \in 1..Len(s.blocks) : t.finality[i] = Finalized <=> s.finality[i] = Finalized
      /\ checkpointIndex(t, Finalized) = checkpointIndex(s, Finalized)
  <2>1. CASE u = NoHash
    BY <2>1 DEF MarkOptional, Ok
  <2>2. CASE u # NoHash
    <3>1. PICK i \in 1..Len(s.blocks) : s.blocks[i].hash = u /\ checkpointIndex(s, Safe) < i
      BY <2>2
    <3>2. MarkFinality(s, u, Safe) = Ok(RaiseFinality(s, i, Safe))
      BY <1>0, <3>1, MarkAccepted
    <3>3. staged.err = "ok" /\ t = RaiseFinality(s, i, Safe)
      BY <2>2, <3>2 DEF MarkOptional, Ok
    <3> HIDE DEF staged, t
    <3> QED BY <3>3, SafeKeepsFinalized
  <2> QED BY <2>1, <2>2
<1> HIDE DEF staged, t
<1>2. /\ marked.err = "ok"
      /\ \A m \in 1..Len(s.blocks) : marked.store.finality[m] = Finalized =>
           \/ s.finality[m] = Finalized
           \/ v # NoHash /\ \E j \in 1..Len(s.blocks) : s.blocks[j].hash = v /\ m <= j
  <2>1. CASE v = NoHash
    BY <1>1, <2>1 DEF MarkOptional, Ok
  <2>2. CASE v # NoHash
    <3>1. PICK j \in 1..Len(s.blocks) : s.blocks[j].hash = v /\ checkpointIndex(s, Finalized) < j
      BY <2>2
    <3>2. /\ j \in 1..Len(t.blocks) /\ t.blocks[j].hash = v
          /\ checkpointIndex(t, Finalized) < j
      BY <1>1, <3>1
    <3>3. MarkFinality(t, v, Finalized) = Ok(RaiseFinality(t, j, Finalized))
      BY <1>0, <1>1, <3>2, MarkAccepted
    <3>4. marked.err = "ok" /\ marked.store = RaiseFinality(t, j, Finalized)
      BY <2>2, <3>3 DEF MarkOptional, Ok
    <3> HIDE DEF marked
    <3>5. \A m \in 1..Len(s.blocks) :
            marked.store.finality[m] = Finalized => m <= j \/ s.finality[m] = Finalized
      BY <1>1, <3>2, <3>4, FinalizedRaised
    <3> QED BY <2>2, <3>1, <3>4, <3>5
  <2> QED BY <2>1, <2>2
<1> HIDE DEF marked
<1>3. ASSUME u # NoHash, v # NoHash
      PROVE  ~(lastWith(u) = 0 \/ lastWith(v) = 0) /\ ~(lastWith(v) > lastWith(u))
  <2>1. PICK i \in 1..Len(s.blocks) : s.blocks[i].hash = u
    BY <1>3
  <2>2. PICK j \in 1..Len(s.blocks) : s.blocks[j].hash = v
    BY <1>3
  <2>3. lastWith(u) = i /\ lastWith(v) = j
    BY <2>1, <2>2, HashFound
  <2> HIDE DEF lastWith
  <2> QED BY <2>1, <2>2, <2>3
<1> HIDE DEF lastWith
<1>4. MarkCheckpoints(s, u, v) = Ok(marked.store)
  BY <1>1, <1>2, <1>3 DEF MarkCheckpoints, marked, staged, t, lastWith
<1> QED BY <1>2, <1>4 DEF Ok

\* t is s with checkpoints marked, none of them above the block f.
Refreshed(s, t, f) ==
  /\ WellFormed(t) /\ t.blocks = s.blocks /\ KeepsFinalized(s, t)
  /\ \A m \in 1..Len(s.blocks) : t.finality[m] = Finalized =>
       \/ s.finality[m] = Finalized
       \/ \E j \in 1..Len(s.blocks) : s.blocks[j].hash = f /\ m <= j

\* Refreshing never meets a rejected checkpoint, changes no block and finalizes
\* nothing above the provider's finalized block.
LEMMA RefreshShape ==
  ASSUME NEW s, WellFormed(s), NEW a \in Known, NEW f \in Known,
         NEW r, r = Refresh(s, a, f)
  PROVE  /\ r.err # "checkpointRejected"
         /\ r.err # "ok" => r.store = s
         /\ Refreshed(s, r.store, f)
<1> DEFINE u == CheckpointUpdate(s, a, Safe)
           v == CheckpointUpdate(s, f, Finalized)
           marked == MarkCheckpoints(s, u, v)
           passes == /\ ~(NumberOf[f] > NumberOf[a]) /\ s.blocks # <<>>
                     /\ CheckpointMatches(s, a) /\ CheckpointMatches(s, f)
<1>0. NoHash \notin Known /\ NumberOf[a] \in Nat /\ NumberOf[f] \in Nat
  BY BlockAssumption, CoordinatorAssumption
<1>1. KeepsFinalized(s, s)
  BY Fields DEF KeepsFinalized
<1>2. CASE ~passes \/ NumberOf[a] > Tip(s).number
  <2>1. r.store = s /\ r.err \in {"ok", "disconnected"}
    BY <1>2 DEF Refresh, Ok, Reject
  <2> QED BY <1>1, <2>1 DEF Refreshed
<1>3. CASE passes /\ ~(NumberOf[a] > Tip(s).number)
  <2>1. r = IF marked.err # "ok" THEN Reject(s, "checkpointRejected") ELSE Ok(marked.store)
    BY <1>3 DEF Refresh
  <2>2. \/ u = NoHash
        \/ \E k \in 1..Len(s.blocks) : /\ s.blocks[k].number = NumberOf[a] /\ s.blocks[k].hash = a
                                       /\ checkpointIndex(s, Safe) < k /\ u = a
    BY <1>3, UpdateShape
  <2>3. \/ v = NoHash
        \/ \E k \in 1..Len(s.blocks) : /\ s.blocks[k].number = NumberOf[f] /\ s.blocks[k].hash = f
                                       /\ checkpointIndex(s, Finalized) < k /\ v = f
    BY <1>3, UpdateShape
  <2>4. WellFormed(marked.store) /\ marked.store.blocks = s.blocks /\ KeepsFinalized(s, marked.store)
    BY CheckpointsPreserve
  <2> HIDE DEF u, v
  <2>5. ASSUME NEW i \in 1..Len(s.blocks), NEW j \in 1..Len(s.blocks),
               s.blocks[i].hash = u, s.blocks[j].hash = v
        PROVE  j <= i
    <3>1. s.blocks[i].hash # NoHash /\ s.blocks[j].hash # NoHash
      BY Fields, BlockAssumption
    <3>2. PICK k \in 1..Len(s.blocks) : s.blocks[k].number = NumberOf[a] /\ s.blocks[k].hash = u
      BY <2>2, <2>5, <3>1
    <3>3. PICK l \in 1..Len(s.blocks) : s.blocks[l].number = NumberOf[f] /\ s.blocks[l].hash = v
      BY <2>3, <2>5, <3>1
    <3>4. i = k /\ j = l
      BY <2>5, <3>2, <3>3, BlocksDiffer
    <3>5. ~(s.blocks[i].number < s.blocks[j].number)
      BY <1>0, <1>3, <3>2, <3>3, <3>4
    <3>6. ~(i < j)
      BY <3>5, BlocksDiffer
    <3> QED BY <3>6
  <2>6. /\ marked.err = "ok"
        /\ \A m \in 1..Len(s.blocks) : marked.store.finality[m] = Finalized =>
             \/ s.finality[m] = Finalized
             \/ v # NoHash /\ \E j \in 1..Len(s.blocks) : s.blocks[j].hash = v /\ m <= j
    <3>1. u # NoHash => \E i \in 1..Len(s.blocks) :
                          s.blocks[i].hash = u /\ checkpointIndex(s, Safe) < i
      BY <2>2
    <3>2. v # NoHash => \E j \in 1..Len(s.blocks) :
                          s.blocks[j].hash = v /\ checkpointIndex(s, Finalized) < j
      BY <2>3
    <3> QED BY <2>5, <3>1, <3>2, CheckpointsMarked
  <2> HIDE DEF marked
  <2>7. v # NoHash => v = f
    BY <2>3
  <2>8. Refreshed(s, marked.store, f)
    BY <2>4, <2>6, <2>7 DEF Refreshed
  <2> QED BY <2>1, <2>6, <2>8 DEF Ok
<1> QED BY <1>2, <1>3

-----------------------------------------------------------------------------
(* The inductive invariant.                                                *)

\* The logs of a block, or none of them where a backfill may have missed them.
HasLogs(b, missed) == b.events = LogsOf[b.hash] \/ (missed /\ b.events = <<>>)

\* A store as the coordinator leaves it: what the three invariants say of it, and
\* that its blocks are known.  fin is the provider's finalized block.
Ours(s, missed, fin) ==
  /\ WellFormed(s)
  /\ \A i \in 1..Len(s.blocks) : s.blocks[i].hash \in Known /\ HasLogs(s.blocks[i], missed)
  /\ s.blocks # <<>> => s.blocks[1].number = StartBlock
  /\ \A i \in 1..Len(s.blocks) : s.finality[i] = Finalized => s.blocks[i].hash \in Branch[fin]

\* The finalized block stays canonical, so what is finalized stays its ancestor.
ProviderInv == canon \in Known /\ safe \in Known /\ final \in Branch[canon] /\ notices \in Seq(Known)

Job == [latest: Nat, from: Nat, to: Nat, logged: Nat, logs: SUBSET Known, cand: Seq(Block),
        walk: Seq(Known), safe: Known \cup {NoHash}, then: {"exited", "subscribe", "select"}]

\* A backfill has staged one block for each height from StartBlock on.
Staged ==
  /\ StartBlock <= job.from /\ job.from <= job.to /\ job.to <= job.latest
  /\ Len(job.cand) = job.from - StartBlock
  /\ \A i \in 1..Len(job.cand) : job.cand[i].hash \in Known /\ HasLogs(job.cand[i], TRUE)
  /\ job.cand # <<>> => job.cand[1].number = StartBlock

\* A walk into an empty store does not pass StartBlock.
Walking == job.walk # <<>> /\ (store.blocks = <<>> => NumberOf[Lowermost] >= StartBlock)

JobInv ==
  /\ job \in Job /\ heads \in Seq(Known) /\ backfilled \in BOOLEAN
  /\ pc \in {"backfill", "logs", "headers", "safe", "final", "subscribe", "catchup", "select", "walk", "exited"}
  /\ pc \in {"logs", "headers"} => Staged
  /\ pc = "walk" => Walking
  /\ pc \in {"safe", "final"} => job.then \in {"subscribe", "select"}
  /\ pc = "final" => job.safe \in Known

IInv == Ours(store, backfilled, final) /\ ProviderInv /\ JobInv /\ CheckpointsAccepted

-----------------------------------------------------------------------------
(* What a step may do to the store.                                        *)

Finals(s) == checkpointIndex(s, Finalized)

\* One step of the abstract log, or none, as a relation of two stores.
LogMove(s, t) ==
  /\ t.blocks \in Seq(Block) /\ Linear(t.blocks)
  /\ \/ t.blocks = s.blocks /\ Finals(t) \in {Finals(s)} \cup (Finals(s) + 1)..Len(s.blocks)
     \/ s.blocks = <<>> /\ t.blocks # <<>> /\ Finals(t) = Finals(s)
     \/ /\ Finals(t) = Finals(s)
        /\ \E k \in 1..Len(s.blocks) :
             k >= Finals(s) /\ Len(t.blocks) > k /\ \A i \in 1..k : t.blocks[i] = s.blocks[i]

\* No more than RetainedDepth blocks are dropped.
WithinReach(s, t) ==
  \A i \in 1..(Len(s.blocks) - RetainedDepth) :
    i \in 1..Len(t.blocks) /\ t.blocks[i].hash = s.blocks[i].hash

\* A store that does not change makes no move.
LEMMA NoMove ==
  ASSUME NEW s, WellFormed(s)
  PROVE  LogMove(s, s) /\ WithinReach(s, s)
<1>1. LogMove(s, s)
  BY Fields DEF LogMove, WellFormed
<1>2. Len(s.blocks) \in Nat /\ RetainedDepth \in Nat
  BY Fields, CoordinatorAssumption
<1> QED BY <1>1, <1>2 DEF WithinReach

\* Appending blocks starts the log or rewrites nothing of it.
LEMMA GrownMoves ==
  ASSUME NEW s, WellFormed(s), NEW t, NEW c, Grown(s, t, c)
  PROVE  LogMove(s, t) /\ WithinReach(s, t)
<1> DEFINE n == Len(s.blocks)
<1>0. /\ WellFormed(t) /\ n \in Nat /\ Len(t.blocks) \in Nat /\ n < Len(t.blocks)
      /\ \A i \in 1..n : t.blocks[i] = s.blocks[i] /\ t.finality[i] = s.finality[i]
      /\ \A i \in (n + 1)..Len(t.blocks) : t.finality[i] = Seen
  <2>1. WellFormed(t)
    BY DEF Grown
  <2> QED BY <2>1, Fields DEF Grown
<1>1. \A i \in 1..Len(t.blocks) : t.finality[i] = Finalized => i <= n
  <2> SUFFICES ASSUME NEW i \in 1..Len(t.blocks), ~(i <= n) PROVE t.finality[i] # Finalized
    OBVIOUS
  <2>1. i \in (n + 1)..Len(t.blocks)
    BY <1>0
  <2> QED BY <1>0, <2>1 DEF Seen, Finalized
<1>2. Finals(t) = Finals(s)
  <2>1. \A i \in 1..Len(s.blocks) : s.finality[i] = Finalized => i <= n
    BY <1>0
  <2>2. n <= Len(s.blocks) /\ n <= Len(t.blocks)
    BY <1>0
  <2> HIDE DEF n
  <2> QED BY <1>0, <1>1, <2>1, <2>2, SameCount DEF Finals
<1>3. t.blocks \in Seq(Block) /\ Linear(t.blocks) /\ Finals(s) \in 0..n
  BY <1>0, Fields, FinalCount DEF WellFormed, Finals
<1>4. LogMove(s, t)
  <2>1. CASE s.blocks = <<>>
    <3>1. t.blocks # <<>>
      BY <1>0, EmptySeq
    <3> QED BY <1>2, <1>3, <2>1, <3>1 DEF LogMove
  <2>2. CASE s.blocks # <<>>
    <3>1. n \in 1..Len(s.blocks) /\ n >= Finals(s)
      BY <1>0, <1>3, <2>2, Fields, EmptySeq
    <3> QED BY <1>0, <1>2, <1>3, <3>1 DEF LogMove
  <2> QED BY <2>1, <2>2
<1>5. WithinReach(s, t)
  <2>1. RetainedDepth \in Nat
    BY CoordinatorAssumption
  <2> QED BY <1>0, <2>1 DEF WithinReach
<1> QED BY <1>4, <1>5

\* Replacing a suffix rewrites the log above its finalized prefix, within reach.
LEMMA ReplacedMoves ==
  ASSUME NEW s, WellFormed(s), NEW t, NEW c, Replaced(s, t, c)
  PROVE  WellFormed(t) /\ LogMove(s, t) /\ WithinReach(s, t)
<1>1. PICK a \in 1..Len(s.blocks), branch \in Seq(Block) :
        Rewrites(s, t, a, branch) /\ ~(Tip(s).number - s.blocks[a].number > RetainedDepth)
  BY DEF Replaced
<1>2. /\ WellFormed(t) /\ Len(t.blocks) = a + Len(branch)
      /\ \A i \in 1..a : t.blocks[i] = s.blocks[i]
  <2>1. Rewritten(s, t, a, branch)
    BY <1>1, RewriteShape
  <2> QED BY <2>1 DEF Rewritten
<1>3. Len(branch) \in Nat \ {0} /\ Len(s.blocks) \in Nat /\ RetainedDepth \in Nat
  BY <1>1, EmptySeq, LenProperties, Fields, CoordinatorAssumption DEF Rewrites
<1>4. Finals(t) = Finals(s)
  BY <1>1, RewriteKeepsCount DEF Finals
<1>5. a >= Finals(s)
  <2>1. Finals(s) \in 0..Len(s.blocks)
    BY FinalCount DEF Finals
  <2>2. Finals(s) \in 1..Len(s.blocks) => s.finality[Finals(s)] = Finalized
    BY FinalCount DEF Finals
  <2> QED BY <1>1, <2>1, <2>2 DEF Rewrites
<1>6. LogMove(s, t)
  <2>1. t.blocks \in Seq(Block) /\ Linear(t.blocks)
    BY <1>2, Fields DEF WellFormed
  <2>2. Len(t.blocks) > a
    BY <1>1, <1>2, <1>3
  <2> QED BY <1>1, <1>2, <1>4, <1>5, <2>1, <2>2 DEF LogMove
<1>7. Len(s.blocks) - a <= RetainedDepth
  <2>1. \A i \in 1..Len(s.blocks) : s.blocks[i].number = s.blocks[1].number + i - 1
    BY Fields, Consecutive DEF WellFormed
  <2>2. Len(s.blocks) \in 1..Len(s.blocks) /\ 1 \in 1..Len(s.blocks)
    BY <1>1, <1>3
  <2>3. s.blocks[1].number \in Nat
    BY <2>2, Fields
  <2>4. Tip(s).number = s.blocks[1].number + Len(s.blocks) - 1
    BY <2>1, <2>2 DEF Tip
  <2>5. s.blocks[a].number = s.blocks[1].number + a - 1
    BY <1>1, <2>1
  <2> QED BY <1>1, <1>3, <2>3, <2>4, <2>5
<1>8. WithinReach(s, t)
  <2> SUFFICES ASSUME NEW i \in 1..(Len(s.blocks) - RetainedDepth)
               PROVE  i \in 1..Len(t.blocks) /\ t.blocks[i].hash = s.blocks[i].hash
    BY DEF WithinReach
  <2>1. i \in 1..a
    BY <1>1, <1>3, <1>7
  <2> QED BY <1>1, <1>2, <1>3, <2>1
<1> QED BY <1>2, <1>6, <1>8

\* A commit keeps the store as the coordinator leaves it.
LEMMA CommitOurs ==
  ASSUME NEW s, NEW missed \in BOOLEAN, NEW later \in BOOLEAN, NEW fin, Ours(s, missed, fin),
         missed => later,
         NEW c \in Seq(Block), c # <<>>,
         \A i \in 1..Len(c) : c[i].hash \in Known /\ HasLogs(c[i], later),
         s.blocks = <<>> => c[1].number = StartBlock,
         NEW r, r = commitCandidate(s, c)
  PROVE  /\ Ours(r.store, later, fin)
         /\ LogMove(s, r.store) /\ WithinReach(s, r.store)
<1> DEFINE t == r.store
<1>0. WellFormed(s) /\ Len(s.blocks) \in Nat
  BY Fields DEF Ours
<1>1. \A b : HasLogs(b, missed) => HasLogs(b, later)
  BY DEF HasLogs
<1>2. t = s \/ Grown(s, t, c) \/ Replaced(s, t, c)
  BY <1>0, CommitShape
<1> HIDE DEF t
<1>3. CASE t = s
  BY <1>0, <1>1, <1>3, NoMove DEF Ours, t
<1>4. ASSUME NEW m \in Nat, m <= Len(s.blocks), s.blocks = <<>> => m = 0, s.blocks # <<>> => m > 0,
             WellFormed(t), t.blocks # <<>>,
             \A i \in 1..m : t.blocks[i] = s.blocks[i] /\ t.finality[i] = s.finality[i],
             \A i \in (m + 1)..Len(t.blocks) :
               t.finality[i] = Seen /\ \E k \in 1..Len(c) : t.blocks[i] = c[k],
             s.blocks = <<>> => t.blocks[1] = c[1]
      PROVE  Ours(t, later, fin)
  <2>1. Len(t.blocks) \in Nat \ {0} /\ \A i \in 1..Len(t.blocks) : i \in 1..m \/ i \in (m + 1)..Len(t.blocks)
    BY <1>4, Fields, EmptySeq
  <2>2. \A i \in 1..m : i \in 1..Len(s.blocks)
    BY <1>0, <1>4
  <2>3. \A i \in 1..Len(t.blocks) : t.blocks[i].hash \in Known /\ HasLogs(t.blocks[i], later)
    <3>1. \A i \in 1..m : t.blocks[i].hash \in Known /\ HasLogs(t.blocks[i], later)
      BY <1>1, <1>4, <2>2 DEF Ours
    <3>2. \A i \in (m + 1)..Len(t.blocks) : t.blocks[i].hash \in Known /\ HasLogs(t.blocks[i], later)
      BY <1>4
    <3> QED BY <2>1, <3>1, <3>2
  <2>4. t.blocks[1].number = StartBlock
    <3>1. CASE s.blocks = <<>>
      BY <1>4, <3>1
    <3>2. CASE s.blocks # <<>>
      <4>1. 1 \in 1..m
        BY <1>4, <3>2
      <4> QED BY <1>4, <3>2, <4>1 DEF Ours
    <3> QED BY <3>1, <3>2
  <2>5. \A i \in 1..Len(t.blocks) : t.finality[i] = Finalized => t.blocks[i].hash \in Branch[fin]
    <3>1. \A i \in 1..m : t.finality[i] = Finalized => t.blocks[i].hash \in Branch[fin]
      BY <1>4, <2>2 DEF Ours
    <3>2. \A i \in (m + 1)..Len(t.blocks) : t.finality[i] # Finalized
      BY <1>4 DEF Seen, Finalized
    <3> QED BY <2>1, <3>1, <3>2
  <2> QED BY <1>4, <2>3, <2>4, <2>5 DEF Ours
<1>5. CASE Grown(s, t, c)
  <2>1. s.blocks = <<>> <=> Len(s.blocks) = 0
    BY <1>0, Fields, EmptySeq
  <2>2. WellFormed(t) /\ t.blocks # <<>>
    <3>1. WellFormed(t) /\ Len(s.blocks) < Len(t.blocks)
      BY <1>5 DEF Grown
    <3> QED BY <1>0, <3>1, EmptySeq
  <2>3. Ours(t, later, fin)
    <3> DEFINE m == Len(s.blocks)
    <3>1. m \in Nat /\ m <= Len(s.blocks) /\ (s.blocks = <<>> => m = 0) /\ (s.blocks # <<>> => m > 0)
      BY <1>0, <2>1
    <3>2. /\ \A i \in 1..m : t.blocks[i] = s.blocks[i] /\ t.finality[i] = s.finality[i]
          /\ \A i \in (m + 1)..Len(t.blocks) :
               t.finality[i] = Seen /\ \E k \in 1..Len(c) : t.blocks[i] = c[k]
          /\ s.blocks = <<>> => t.blocks[1] = c[1]
      BY <1>5 DEF Grown
    <3> HIDE DEF m
    <3> QED BY <1>4, <2>2, <3>1, <3>2
  <2> QED BY <1>0, <1>5, <2>3, GrownMoves DEF t
<1>6. CASE Replaced(s, t, c)
  <2>1. PICK a \in 1..Len(s.blocks), branch \in Seq(Block) :
          Rewrites(s, t, a, branch) /\ \A i \in 1..Len(branch) : \E k \in 1..Len(c) : branch[i] = c[k]
    BY <1>6 DEF Replaced
  <2>2. /\ WellFormed(t) /\ Len(t.blocks) = a + Len(branch)
        /\ \A i \in 1..a : t.blocks[i] = s.blocks[i] /\ t.finality[i] = s.finality[i]
        /\ \A i \in 1..Len(branch) : t.blocks[a + i] = branch[i] /\ t.finality[a + i] = Seen
    <3>1. Rewritten(s, t, a, branch)
      BY <1>0, <2>1, RewriteShape
    <3> QED BY <3>1 DEF Rewritten
  <2>3. Len(branch) \in Nat /\ a \in Nat /\ a <= Len(s.blocks) /\ a > 0
    BY <1>0, LenProperties
  <2>4. ASSUME NEW i \in (a + 1)..Len(t.blocks)
        PROVE  t.finality[i] = Seen /\ \E k \in 1..Len(c) : t.blocks[i] = c[k]
    <3>1. i - a \in 1..Len(branch) /\ a + (i - a) = i
      BY <2>2, <2>3
    <3>2. t.blocks[i] = branch[i - a] /\ t.finality[i] = Seen
      BY <2>2, <3>1
    <3>3. \E k \in 1..Len(c) : branch[i - a] = c[k]
      BY <2>1, <3>1
    <3> QED BY <3>2, <3>3
  <2>5. s.blocks # <<>> /\ t.blocks # <<>>
    BY <2>2, <2>3, EmptySeq
  <2>6. Ours(t, later, fin)
    BY <1>4, <2>2, <2>3, <2>4, <2>5
  <2> QED BY <1>0, <1>6, <2>6, ReplacedMoves DEF t
<1> QED BY <1>2, <1>3, <1>5, <1>6

\* Every stored block is an ancestor of the ones above it.
LEMMA StoredAncestors ==
  ASSUME NEW s, NEW missed, NEW fin, Ours(s, missed, fin), NEW h \in Known,
         NEW j \in 1..Len(s.blocks), s.blocks[j].hash = h
  PROVE  \A i \in 1..j : s.blocks[i].hash \in Branch[h]
<1> DEFINE Bad == {d \in Nat : d < j /\ s.blocks[j - d].hash \notin Branch[h]}
<1>0. WellFormed(s) /\ Len(s.blocks) \in Nat /\ j \in Nat
  BY Fields DEF Ours
<1>1. SUFFICES ASSUME Bad # {} PROVE FALSE
  <2> SUFFICES ASSUME Bad = {}, NEW i \in 1..j PROVE s.blocks[i].hash \in Branch[h]
    OBVIOUS
  <2>1. j - i \in Nat /\ j - i < j /\ j - (j - i) = i
    BY <1>0
  <2> QED BY <2>1
<1>2. PICK d \in Bad : \A e \in Bad : d <= e
  <2>1. Bad \subseteq Nat
    OBVIOUS
  <2> HIDE DEF Bad
  <2> QED BY <1>1, <2>1, Least
<1>3. d \in Nat /\ d < j /\ s.blocks[j - d].hash \notin Branch[h]
  BY <1>2
<1>4. d # 0
  BY <1>0, <1>3, Branches
<1> DEFINE k == j - d + 1
<1>5. s.blocks[k].hash \in Branch[h]
  <2>1. d - 1 \in Nat /\ d - 1 \notin Bad /\ j - (d - 1) = k
    <3> HIDE DEF Bad
    <3> QED BY <1>0, <1>2, <1>3, <1>4
  <2> QED BY <1>0, <1>3, <2>1
<1>6. k \in 2..Len(s.blocks) /\ k - 1 = j - d
  BY <1>0, <1>3, <1>4
<1> HIDE DEF k
<1>7. Extends(s.blocks[k-1], s.blocks[k]) /\ s.blocks[k].hash \in Known
      /\ s.blocks[k] \in Block /\ s.blocks[k-1] \in Block
  BY <1>0, <1>6, Fields DEF WellFormed, Linear, Ours
<1> DEFINE g == s.blocks[k].hash
<1>8. s.blocks[k].number = NumberOf[g] /\ s.blocks[k].parent = ParentOf[g]
  <2>1. BlockOf(g, <<>>) \in Block
    BY <1>7, CoordinatorAssumption
  <2> QED BY <1>7, <2>1, BlockAssumption DEF BlockOf
<1>9. g # Genesis
  <2>1. s.blocks[k-1].number \in Nat /\ s.blocks[k].number = s.blocks[k-1].number + 1
    BY <1>7, BlockAssumption DEF Extends
  <2>2. s.blocks[k].number # 0
    BY <2>1
  <2> HIDE DEF g
  <2> QED BY <1>8, <2>2, Tree
<1>10. ParentOf[g] \in Branch[h]
  BY <1>5, <1>9, Branches DEF ParentClosed
<1> QED BY <1>3, <1>6, <1>7, <1>8, <1>10 DEF Extends

\* Refreshing the checkpoints keeps the store as the coordinator leaves it.
LEMMA RefreshOurs ==
  ASSUME NEW s, NEW missed, NEW f \in Known, Ours(s, missed, f), NEW a \in Known,
         NEW r, r = Refresh(s, a, f)
  PROVE  Ours(r.store, missed, f) /\ LogMove(s, r.store) /\ WithinReach(s, r.store)
<1> DEFINE t == r.store
<1>0. WellFormed(s) /\ Len(s.blocks) \in Nat /\ RetainedDepth \in Nat
  BY Fields, CoordinatorAssumption DEF Ours
<1> HIDE DEF t
<1>1. /\ WellFormed(t) /\ t.blocks = s.blocks /\ KeepsFinalized(s, t)
      /\ \A m \in 1..Len(s.blocks) : t.finality[m] = Finalized =>
           \/ s.finality[m] = Finalized
           \/ \E j \in 1..Len(s.blocks) : s.blocks[j].hash = f /\ m <= j
  <2>1. Refreshed(s, r.store, f)
    BY <1>0, RefreshShape
  <2> QED BY <2>1 DEF Refreshed, t
<1>2. ASSUME NEW m \in 1..Len(s.blocks), t.finality[m] = Finalized
      PROVE  t.blocks[m].hash \in Branch[f]
  <2>1. CASE s.finality[m] = Finalized
    BY <1>1, <2>1 DEF Ours
  <2>2. CASE \E j \in 1..Len(s.blocks) : s.blocks[j].hash = f /\ m <= j
    <3>1. PICK j \in 1..Len(s.blocks) : s.blocks[j].hash = f /\ m <= j
      BY <2>2
    <3>2. m \in 1..j
      BY <1>0, <3>1
    <3> QED BY <1>1, <3>1, <3>2, StoredAncestors
  <2> QED BY <1>1, <1>2, <2>1, <2>2
<1>3. Ours(t, missed, f)
  BY <1>1, <1>2 DEF Ours
<1>4. Finals(t) \in {Finals(s)} \cup (Finals(s) + 1)..Len(s.blocks)
  <2> DEFINE m == Finals(s)  n == Finals(t)
  <2>1. m \in 0..Len(s.blocks) /\ n \in 0..Len(s.blocks)
    BY <1>0, <1>1, FinalCount DEF Finals
  <2>2. m \in 1..Len(s.blocks) => s.finality[m] = Finalized
    BY <1>0, FinalCount DEF Finals
  <2>3. m \in 1..Len(s.blocks) => t.finality[m] = Finalized
    BY <1>1, <2>2 DEF KeepsFinalized
  <2>4. m \in 1..Len(s.blocks) => m <= n
    BY <1>1, <2>3, FinalCount DEF Finals
  <2> HIDE DEF m, n
  <2>5. m <= n
    BY <1>0, <2>1, <2>4
  <2> QED BY <1>0, <2>1, <2>5 DEF m, n
<1>5. LogMove(s, t)
  <2>1. t.blocks \in Seq(Block) /\ Linear(t.blocks)
    BY <1>1, Fields DEF WellFormed
  <2> QED BY <1>1, <1>4, <2>1 DEF LogMove
<1>6. WithinReach(s, t)
  BY <1>0, <1>1 DEF WithinReach
<1> QED BY <1>3, <1>5, <1>6 DEF t

-----------------------------------------------------------------------------
(* What the steps do, one lemma per action.  A step moves the store as the *)
(* abstract log may move, commits whole, and fails without touching it.    *)

Moves == LogMove(store, store') /\ WithinReach(store, store')
Unspoiled ==
  /\ pc # "exited" /\ pc' = "exited" => store' = store
  /\ pc = "walk" /\ store'.blocks # store.blocks => Tip(store').hash = job.walk[1]
  /\ pc = "headers" /\ store'.blocks # store.blocks => Tip(store').number = job.latest
Preserves == IInv' /\ Moves /\ Unspoiled

\* The provider's finalized block only moves up its branch, so what the store has
\* finalized stays an ancestor of it.
LEMMA FinalMovesUp ==
  ASSUME NEW s, NEW missed, NEW f, NEW g \in Known, Ours(s, missed, f), f \in Branch[g]
  PROVE  Ours(s, missed, g)
<1>1. Branch[f] \subseteq Branch[g]
  BY BranchTransitive
<1> QED BY <1>1 DEF Ours

\* A step that leaves the store alone makes no move.
LEMMA StoreAlone ==
  ASSUME IInv, UNCHANGED store
  PROVE  Moves /\ Unspoiled
<1>1. WellFormed(store)
  BY DEF IInv, Ours
<1>2. LogMove(store, store) /\ WithinReach(store, store)
  BY <1>1, NoMove
<1> QED BY <1>2 DEF Moves, Unspoiled

\* What JobInv says of the coordinator does not depend on the provider.
LEMMA JobAlone ==
  ASSUME JobInv, UNCHANGED <<heads, backfilled, pc, job, store>>
  PROVE  JobInv'
BY DEF JobInv, Job, Staged, Walking, Lowermost

\* The provider moves its head, its safe block or its finalized block.
LEMMA NewHeadPreserves == ASSUME IInv, NewHead PROVE Preserves
<1>1. PICK h \in Known \ Branch[canon] :
        /\ final \in Branch[h] /\ notices' = Append(notices, h)
        /\ Advance(h, IF safe \in Branch[h] THEN safe ELSE final, final)
  BY DEF NewHead
<1>2. UNCHANGED <<heads, backfilled, pc, job, store, final, err>> /\ canon' = h
      /\ safe' \in {safe, final}
  BY <1>1 DEF Advance
<1>3. JobInv' /\ Moves /\ Unspoiled
  BY <1>2, JobAlone, StoreAlone DEF IInv
<1>4. ProviderInv'
  <2>1. notices' \in Seq(Known)
    BY <1>1, AppendProperties DEF IInv, ProviderInv
  <2>2. final \in Known
    BY <1>1, Branches
  <2> QED BY <1>1, <1>2, <2>1, <2>2 DEF IInv, ProviderInv
<1> QED BY <1>2, <1>3, <1>4 DEF IInv, Preserves, CheckpointsAccepted

LEMMA NewSafePreserves == ASSUME IInv, NewSafe PROVE Preserves
<1>1. PICK h \in Branch[canon] \ Branch[safe] : Advance(canon, h, final) /\ UNCHANGED notices
  BY DEF NewSafe
<1>2. UNCHANGED <<heads, backfilled, pc, job, store, final, err, canon, notices>> /\ safe' = h
  BY <1>1 DEF Advance
<1>3. JobInv' /\ Moves /\ Unspoiled
  BY <1>2, JobAlone, StoreAlone DEF IInv
<1>4. h \in Known
  BY Branches DEF IInv, ProviderInv
<1> QED BY <1>2, <1>3, <1>4 DEF IInv, ProviderInv, Preserves, CheckpointsAccepted

LEMMA NewFinalPreserves == ASSUME IInv, NewFinal PROVE Preserves
<1>1. PICK h \in Branch[canon] \ Branch[final] :
        Advance(canon, IF h \in Branch[safe] THEN safe ELSE h, h) /\ UNCHANGED notices
  BY DEF NewFinal
<1>2. UNCHANGED <<heads, backfilled, pc, job, store, err, canon, notices>> /\ final' = h
      /\ safe' \in {safe, h}
  BY <1>1 DEF Advance
<1>3. JobInv' /\ Moves /\ Unspoiled
  BY <1>2, JobAlone, StoreAlone DEF IInv
<1>4. h \in Known /\ final \in Branch[h]
  BY Branches, BranchComparable DEF IInv, ProviderInv
<1>5. Ours(store, backfilled, h)
  BY <1>4, FinalMovesUp DEF IInv
<1> QED BY <1>1, <1>2, <1>3, <1>4, <1>5 DEF IInv, ProviderInv, Preserves, CheckpointsAccepted

\* An announcement reaches the channel, or is lost.
LEMMA AnnouncePreserves == ASSUME IInv, Announce PROVE Preserves
<1>1. /\ UNCHANGED <<canon, safe, final, store, pc, job, err, backfilled>> /\ notices # <<>>
      /\ heads' \in {heads, Append(heads, Head(notices))} /\ notices' = Tail(notices)
  BY DEF Announce
<1>2. notices \in Seq(Known) /\ heads \in Seq(Known)
  BY DEF IInv, ProviderInv, JobInv
<1>3. Head(notices) \in Known /\ notices' \in Seq(Known)
  BY <1>1, <1>2, HeadTailProperties
<1>4. heads' \in Seq(Known)
  <2>1. Append(heads, Head(notices)) \in Seq(Known)
    BY <1>2, <1>3, AppendProperties
  <2> QED BY <1>1, <1>2, <2>1
<1>5. JobInv'
  BY <1>1, <1>4 DEF IInv, JobInv, Job, Staged, Walking, Lowermost
<1> QED BY <1>1, <1>3, <1>5, StoreAlone DEF IInv, ProviderInv, Preserves, CheckpointsAccepted

\* A call returns, for any reason but the one that never occurs.
LEMMA ExitPreserves == ASSUME IInv, NEW e, e # "checkpointRejected", Exit(e) PROVE Preserves
<1>1. /\ UNCHANGED <<store, canon, safe, final, notices, backfilled>>
      /\ pc' = "exited" /\ err' = e /\ job' = Idle /\ heads' = <<>>
  BY DEF Exit, provider
<1>2. Idle \in Job /\ <<>> \in Seq(Known)
  BY EmptySeq DEF Idle, Job
<1>3. JobInv'
  BY <1>1, <1>2 DEF IInv, JobInv
<1> QED BY <1>1, <1>3, StoreAlone DEF IInv, ProviderInv, Preserves, CheckpointsAccepted

LEMMA FailPreserves == ASSUME IInv, Fail PROVE Preserves
BY ExitPreserves DEF Fail

\* A step that only stages something for the next one.
LEMMA GotoPreserves ==
  ASSUME IInv, NEW next, NEW newJob, Goto(next, newJob), UNCHANGED store, JobInv'
  PROVE  Preserves
BY StoreAlone DEF Goto, provider, IInv, ProviderInv, Preserves, CheckpointsAccepted

\* A range of blocks is not empty and ends by the last block.
LEMMA RangeEnds ==
  ASSUME NEW from \in Nat, NEW size \in Nat \ {0}, NEW last \in Nat, from <= last
  PROVE  LET end == boundedEnd(from, size, last) IN end \in Nat /\ from <= end /\ end <= last
BY DEF boundedEnd

LEMMA BackfillLatestPreserves == ASSUME IInv, BackfillLatest PROVE Preserves
<1>0. Idle \in Job /\ NumberOf[canon] \in Nat /\ StartBlock \in Nat /\ BackfillMaxRange \in Nat \ {0}
  BY EmptySeq, Tree, CoordinatorAssumption DEF Idle, Job, IInv, ProviderInv
<1> DEFINE last == NumberOf[canon]
           end == boundedEnd(StartBlock, BackfillMaxRange, last)
           first == [Idle EXCEPT !.latest = last, !.from = StartBlock, !.logged = StartBlock, !.to = end]
<1>1. UNCHANGED <<heads, store, backfilled>>
  BY DEF BackfillLatest, Goto
<1>2. CASE last < StartBlock
  <2>1. Goto("subscribe", Idle)
    BY <1>2 DEF BackfillLatest
  <2>2. JobInv'
    BY <1>0, <1>1, <2>1 DEF Goto, IInv, JobInv
  <2> QED BY <1>1, <2>1, <2>2, GotoPreserves
<1>3. CASE ~(last < StartBlock)
  <2>1. Goto("logs", first)
    BY <1>3 DEF BackfillLatest
  <2>2. StartBlock <= end /\ end <= last /\ end \in Nat
    BY <1>0, <1>3, RangeEnds
  <2> HIDE DEF end, last
  <2>3. /\ first.latest = last /\ first.from = StartBlock /\ first.cand = <<>> /\ first.to = end
        /\ first \in Job
    BY <1>0, <2>2, EmptySeq DEF Idle, Job, last
  <2>4. pc' = "logs" /\ job' = first
    BY <2>1 DEF Goto
  <2> HIDE DEF first
  <2>5. Len(job'.cand) = 0 /\ job'.cand = <<>>
    BY <2>3, <2>4, EmptySeq
  <2>6. Staged'
    <3>1. /\ job'.from = StartBlock /\ job'.to = end /\ job'.latest = last
          /\ Len(job'.cand) = job'.from - StartBlock
      BY <1>0, <2>3, <2>4, <2>5
    <3> QED BY <1>0, <2>2, <2>5, <3>1 DEF Staged
  <2>7. JobInv'
    BY <1>1, <2>3, <2>4, <2>6 DEF IInv, JobInv
  <2> QED BY <1>1, <2>1, <2>7, GotoPreserves
<1> QED BY <1>2, <1>3

LEMMA BackfillLogsPreserves == ASSUME IInv, BackfillLogs PROVE Preserves
<1> DEFINE upTo(u) == {h \in Branch[canon] : NumberOf[h] \in job.logged..u /\ LogsOf[h] # <<>>}
<1>1. PICK upto \in job.logged..job.to :
        Goto(IF upto = job.to THEN "headers" ELSE "logs",
             [job EXCEPT !.logged = upto + 1, !.logs = @ \cup upTo(upto)])
  BY DEF BackfillLogs
<1> DEFINE found == upTo(upto)
           next == [job EXCEPT !.logged = upto + 1, !.logs = @ \cup found]
<1>2. /\ UNCHANGED <<heads, store, backfilled>> /\ pc = "logs"
      /\ pc' \in {"headers", "logs"} /\ job' = next
  BY <1>1 DEF BackfillLogs, Goto
<1>3. job \in Job /\ Staged
  BY <1>2 DEF IInv, JobInv
<1>4. upto + 1 \in Nat /\ found \in SUBSET Known
  BY <1>1, <1>3, Branches DEF IInv, ProviderInv, Job
<1>5. /\ next \in Job /\ next.from = job.from /\ next.to = job.to /\ next.latest = job.latest
      /\ next.cand = job.cand
  BY <1>3, <1>4 DEF Job
<1> HIDE DEF next
<1>6. Staged'
  BY <1>2, <1>3, <1>5 DEF Staged
<1>7. JobInv'
  BY <1>2, <1>5, <1>6 DEF IInv, JobInv
<1> QED BY <1>1, <1>2, <1>7, GotoPreserves

\* A commit, and on to the checkpoints or out.
LEMMA CommitPreserves ==
  ASSUME IInv, NEW next \in {"subscribe", "select"}, NEW c \in Seq(Block), c # <<>>,
         \A i \in 1..Len(c) :
           c[i].hash \in Known /\ HasLogs(c[i], backfilled \/ next = "subscribe"),
         store.blocks = <<>> => c[1].number = StartBlock,
         pc = "walk" => c[Len(c)].hash = job.walk[1],
         pc = "headers" => c[Len(c)].number = job.latest,
         Commit(c, next)
  PROVE  Preserves
<1> DEFINE r == commitCandidate(store, c)
           later == backfilled \/ next = "subscribe"
<1>0. backfilled \in BOOLEAN /\ later \in BOOLEAN /\ Ours(store, backfilled, final)
  BY DEF IInv, JobInv
<1>1. /\ store' = r.store /\ UNCHANGED provider
      /\ \/ r.err # "ok" /\ UNCHANGED backfilled
            /\ pc' = "exited" /\ err' = r.err /\ job' = Idle /\ heads' = <<>>
         \/ r.err = "ok" /\ UNCHANGED <<heads, err>>
            /\ pc' = "safe" /\ job' = [Idle EXCEPT !.then = next] /\ backfilled' = later
  BY DEF Commit
<1>2. /\ r.err # "checkpointRejected" /\ (r.err # "ok" => r.store = store)
      /\ r.store = store \/ Tip(r.store) = c[Len(c)]
  BY <1>0, CommitShape DEF Ours, Replaced
<1>3. Ours(r.store, later, final) /\ LogMove(store, r.store) /\ WithinReach(store, r.store)
  <2> HIDE DEF later
  <2>1. backfilled => later
    BY DEF later
  <2>2. \A i \in 1..Len(c) : c[i].hash \in Known /\ HasLogs(c[i], later)
    BY DEF later
  <2> QED BY <1>0, <2>1, <2>2, CommitOurs
<1>4. Idle \in Job /\ [Idle EXCEPT !.then = next] \in Job /\ [Idle EXCEPT !.then = next].then = next
      /\ <<>> \in Seq(Known)
  BY EmptySeq DEF Idle, Job
<1> HIDE DEF r, later
<1>5. ProviderInv' /\ final' = final
  BY <1>1 DEF provider, IInv, ProviderInv
<1>6. CASE r.err # "ok"
  <2>1. JobInv'
    BY <1>1, <1>4, <1>6 DEF IInv, JobInv
  <2>2. UNCHANGED store
    BY <1>1, <1>2, <1>6
  <2> QED BY <1>1, <1>2, <1>5, <1>6, <2>1, <2>2, StoreAlone DEF IInv, Preserves, CheckpointsAccepted
<1>7. CASE r.err = "ok"
  <2>1. JobInv'
    BY <1>0, <1>1, <1>4, <1>7 DEF IInv, JobInv
  <2>2. Ours(store, backfilled, final)'
    BY <1>1, <1>3, <1>5, <1>7
  <2>3. Unspoiled
    BY <1>1, <1>2, <1>7 DEF Unspoiled
  <2> QED BY <1>1, <1>3, <1>5, <1>7, <2>1, <2>2, <2>3
         DEF IInv, Preserves, CheckpointsAccepted, Moves
<1> QED BY <1>6, <1>7

\* HeaderAt answers with a known header of that height.
LEMMA HeaderAtFound ==
  ASSUME ProviderInv, NEW n \in Nat, KnownAt(n)
  PROVE  HeaderAt(n) \in Branch[canon] /\ HeaderAt(n) \in Known /\ NumberOf[HeaderAt(n)] = n
<1>1. canon \in Known /\ n \in 0..NumberOf[canon]
  BY Tree DEF KnownAt, ProviderInv
<1>2. \E h \in Branch[canon] : NumberOf[h] = n
  BY <1>1, HeaderFound
<1>3. HeaderAt(n) \in Branch[canon] /\ NumberOf[HeaderAt(n)] = n
  BY <1>2 DEF HeaderAt
<1> QED BY <1>1, <1>3, Branches

\* The job with one more block staged, in the same range or in the next.
LEMMA JobStaged ==
  ASSUME NEW j \in Job, NEW m \in Nat, NEW e \in Nat, NEW c \in Seq(Block)
  PROVE  /\ [j EXCEPT !.from = m, !.cand = c] \in Job
         /\ [j EXCEPT !.from = m, !.logged = m, !.cand = c, !.logs = {}, !.to = e] \in Job
BY DEF Job

\* The candidate reaches up to the header before the one that is read next.
LEMMA StagedUpTo ==
  ASSUME NEW m \in Nat, job'.from = m, StartBlock <= m, m <= job'.to, job'.to <= job'.latest,
         Len(job'.cand) = m - StartBlock,
         \A i \in 1..Len(job'.cand) : job'.cand[i].hash \in Known /\ HasLogs(job'.cand[i], TRUE),
         job'.cand # <<>> => job'.cand[1].number = StartBlock
  PROVE  Staged'
BY DEF Staged

\* One header: it disagrees with the logs, or extends the staged candidate.
LEMMA BackfillHeaderPreserves == ASSUME IInv, BackfillHeader PROVE Preserves
<1> DEFINE n == job.from
           m == n + 1
           h == HeaderAt(n)
           found == {l \in job.logs : NumberOf[l] = n}
           b == BlockOf(h, EventsIn(found))
           cand == Append(job.cand, b)
           next == [job EXCEPT !.from = m, !.cand = cand]
           end == boundedEnd(m, BackfillMaxRange, job.latest)
           range == [job EXCEPT !.from = m, !.logged = m, !.cand = cand, !.logs = {}, !.to = end]
<1>0. /\ pc = "headers" /\ job \in Job /\ Staged /\ ProviderInv /\ heads \in Seq(Known)
      /\ backfilled \in BOOLEAN
      /\ StartBlock \in Nat /\ BackfillMaxRange \in Nat \ {0}
  BY CoordinatorAssumption DEF BackfillHeader, IInv, JobInv
<1>1. n \in Nat /\ job.to \in Nat /\ job.latest \in Nat /\ job.cand \in Seq(Block) /\ Len(job.cand) \in Nat
  BY <1>0, LenProperties DEF Job
<1>2. CASE ~KnownAt(n) \/ ~Belong(found, h)
  <2>1. Exit(IF KnownAt(n) THEN "disconnected" ELSE "rpc")
    BY <1>2 DEF BackfillHeader
  <2> QED BY <2>1, ExitPreserves
<1>3. CASE KnownAt(n) /\ Belong(found, h)
  <2>1. h \in Known /\ NumberOf[h] = n
    BY <1>0, <1>1, <1>3, HeaderAtFound
  <2>2. \/ /\ n < job.to /\ Goto("headers", next) /\ UNCHANGED <<heads, store>>
        \/ /\ ~(n < job.to) /\ n < job.latest /\ Goto("logs", range) /\ UNCHANGED <<heads, store>>
        \/ ~(n < job.to) /\ ~(n < job.latest) /\ Commit(cand, "subscribe")
    BY <1>3 DEF BackfillHeader
  <2> HIDE DEF h, found
  <2>0. EventsIn(found) \in {<<>>, LogsOf[h]}
    <3>1. CASE found = {}
      BY <3>1 DEF EventsIn
    <3>2. CASE found # {}
      <4>1. found = {h}
        BY <1>3, <3>2 DEF Belong
      <4>2. (CHOOSE l \in found : TRUE) = h
        BY <4>1
      <4> QED BY <3>2, <4>2 DEF EventsIn
    <3> QED BY <3>1, <3>2
  <2>3. /\ b \in Block /\ b.hash = h /\ b.number = n /\ HasLogs(b, TRUE)
    BY <2>0, <2>1, CoordinatorAssumption DEF BlockOf, HasLogs
  <2> HIDE DEF b
  <2>4. /\ cand \in Seq(Block) /\ Len(cand) = Len(job.cand) + 1 /\ cand # <<>>
        /\ \A i \in 1..Len(job.cand) : cand[i] = job.cand[i]
        /\ cand[Len(job.cand) + 1] = b
    BY <1>1, <2>3, AppendProperties
  <2>10. m \in Nat /\ m = n + 1
    BY <1>1
  <2> HIDE DEF cand, m, n
  <2>5. \A i \in 1..Len(cand) : cand[i].hash \in Known /\ HasLogs(cand[i], TRUE)
    <3> SUFFICES ASSUME NEW i \in 1..Len(cand)
                 PROVE  cand[i].hash \in Known /\ HasLogs(cand[i], TRUE)
      OBVIOUS
    <3>1. CASE i = Len(job.cand) + 1
      BY <2>1, <2>3, <2>4, <3>1
    <3>2. CASE i # Len(job.cand) + 1
      <4>1. i \in 1..Len(job.cand)
        BY <1>1, <2>4, <3>2
      <4> QED BY <1>0, <2>4, <4>1 DEF Staged
    <3> QED BY <3>1, <3>2
  <2>6. Len(cand) = m - StartBlock /\ cand[1].number = StartBlock
    <3>1. Len(job.cand) = n - StartBlock /\ StartBlock <= n
      BY <1>0 DEF Staged, n
    <3>2. CASE job.cand = <<>>
      <4>1. Len(job.cand) = 0
        BY <3>2, EmptySeq
      <4>2. n = StartBlock /\ Len(cand) = 1 /\ cand[1] = b
        BY <1>0, <1>1, <2>4, <3>1, <4>1
      <4> QED BY <1>0, <2>3, <2>10, <4>2
    <3>3. CASE job.cand # <<>>
      <4>1. 1 \in 1..Len(job.cand)
        BY <1>1, <3>3, EmptySeq
      <4>2. cand[1] = job.cand[1]
        BY <2>4, <4>1
      <4>3. job.cand[1].number = StartBlock
        BY <1>0, <3>3 DEF Staged
      <4>4. Len(cand) = m - StartBlock
        BY <1>0, <1>1, <2>4, <2>10, <3>1
      <4> QED BY <4>2, <4>3, <4>4
    <3> QED BY <3>2, <3>3
  <2>7. CASE n < job.to /\ Goto("headers", next) /\ UNCHANGED <<heads, store>>
    <3>1. /\ next \in Job /\ next.from = m /\ next.to = job.to /\ next.latest = job.latest
          /\ next.cand = cand
      <4>1. next \in Job
        BY <1>0, <2>4, <2>10, JobStaged
      <4>2. next.from = m /\ next.cand = cand
        BY <1>0, <2>4, <2>10 DEF Job
      <4>3. next.to = job.to /\ next.latest = job.latest
        BY <1>0, <2>4, <2>10 DEF Job
      <4> QED BY <4>1, <4>2, <4>3
    <3> HIDE DEF next
    <3>2. pc' = "headers" /\ job' = next /\ UNCHANGED <<backfilled, heads, store>>
      BY <2>7 DEF Goto
    <3>3. Staged'
      <4>1. /\ m \in Nat /\ StartBlock <= m /\ m <= job.to /\ job.to <= job.latest
        BY <1>0, <1>1, <2>7, <2>10 DEF Staged, n
      <4> QED BY <2>5, <2>6, <3>1, <3>2, <4>1, StagedUpTo
    <3>4. JobInv'
      BY <1>0, <3>1, <3>2, <3>3 DEF JobInv
    <3> QED BY <2>7, <3>4, GotoPreserves
  <2>8. CASE ~(n < job.to) /\ n < job.latest /\ Goto("logs", range) /\ UNCHANGED <<heads, store>>
    <3>1. m <= end /\ end <= job.latest /\ end \in Nat
      <4>1. m <= job.latest
        BY <1>1, <2>8, <2>10 DEF n
      <4> QED BY <1>0, <1>1, <2>10, <4>1, RangeEnds
    <3> HIDE DEF end
    <3>2. /\ range \in Job /\ range.from = m /\ range.to = end /\ range.latest = job.latest
          /\ range.cand = cand
      <4>1. range \in Job
        BY <1>0, <2>4, <2>10, <3>1, JobStaged
      <4>2. range.from = m /\ range.cand = cand /\ range.to = end
        BY <1>0, <2>4, <2>10 DEF Job
      <4>3. range.latest = job.latest
        BY <1>0, <2>4, <2>10 DEF Job
      <4> QED BY <4>1, <4>2, <4>3
    <3> HIDE DEF range
    <3>3. pc' = "logs" /\ job' = range /\ UNCHANGED <<backfilled, heads, store>>
      BY <2>8 DEF Goto
    <3>4. Staged'
      <4>1. m \in Nat /\ StartBlock <= m
        BY <1>0, <1>1, <2>10 DEF Staged, n
      <4> QED BY <2>5, <2>6, <3>1, <3>2, <3>3, <4>1, StagedUpTo
    <3>5. JobInv'
      BY <1>0, <3>2, <3>3, <3>4 DEF JobInv
    <3> QED BY <2>8, <3>5, GotoPreserves
  <2>9. CASE ~(n < job.to) /\ ~(n < job.latest) /\ Commit(cand, "subscribe")
    <3>1. \A i \in 1..Len(cand) :
            cand[i].hash \in Known /\ HasLogs(cand[i], backfilled \/ "subscribe" = "subscribe")
      BY <2>5 DEF HasLogs
    <3>2. n = job.latest
      BY <1>0, <1>1, <2>9 DEF Staged, n
    <3>3. cand[Len(cand)].number = job.latest
      BY <2>3, <2>4, <3>2
    <3> QED BY <1>0, <2>4, <2>6, <2>9, <3>1, <3>3, CommitPreserves
  <2> QED BY <2>2, <2>7, <2>8, <2>9
<1> QED BY <1>2, <1>3

LEMMA RefreshSafePreserves == ASSUME IInv, RefreshSafe PROVE Preserves
<1> DEFINE next == [job EXCEPT !.safe = safe]
<1>1. Goto("final", next) /\ UNCHANGED <<heads, store, backfilled>> /\ pc = "safe"
  BY DEF RefreshSafe, Goto
<1>2. next \in Job /\ next.safe = safe /\ next.then = job.then /\ safe \in Known
  BY DEF IInv, JobInv, ProviderInv, Job
<1> HIDE DEF next
<1>3. pc' = "final" /\ job' = next
  BY <1>1 DEF Goto
<1>4. JobInv'
  BY <1>1, <1>2, <1>3 DEF IInv, JobInv
<1> QED BY <1>1, <1>4, GotoPreserves

\* The checkpoints are marked, or the call returns with the store as it was.
LEMMA RefreshFinalPreserves == ASSUME IInv, RefreshFinal PROVE Preserves
<1> DEFINE r == Refresh(store, job.safe, final)
<1>1. /\ pc = "final" /\ job.safe \in Known /\ final \in Known
      /\ job.then \in {"subscribe", "select"} /\ Ours(store, backfilled, final)
  BY Branches DEF RefreshFinal, IInv, JobInv, ProviderInv
<1>2. r.err # "checkpointRejected"
  BY <1>1, RefreshShape DEF Ours
<1>3. Ours(r.store, backfilled, final) /\ LogMove(store, r.store) /\ WithinReach(store, r.store)
  BY <1>1, RefreshOurs
<1>4. \/ Exit(r.err)
      \/ store' = r.store /\ Goto(job.then, Idle) /\ UNCHANGED <<subscribed, heads>>
  BY DEF RefreshFinal
<1> HIDE DEF r
<1>5. CASE Exit(r.err)
  BY <1>2, <1>5, ExitPreserves
<1>6. CASE store' = r.store /\ Goto(job.then, Idle) /\ UNCHANGED <<subscribed, heads>>
  <2>1. /\ pc' = job.then /\ job' = Idle
        /\ UNCHANGED <<err, backfilled, heads, canon, safe, final, notices>>
    BY <1>6 DEF Goto, provider
  <2>2. Idle \in Job
    BY EmptySeq DEF Idle, Job
  <2>3. JobInv'
    BY <1>1, <2>1, <2>2 DEF IInv, JobInv
  <2>4. Ours(store, backfilled, final)'
    BY <1>3, <1>6, <2>1
  <2> QED BY <1>1, <1>3, <1>6, <2>1, <2>3, <2>4
         DEF IInv, ProviderInv, Preserves, CheckpointsAccepted, Moves, Unspoiled
<1> QED BY <1>4, <1>5, <1>6

LEMMA SubscribePreserves == ASSUME IInv, Subscribe PROVE Preserves
<1>1. Goto("catchup", Idle) /\ heads' = <<>> /\ UNCHANGED store
  BY DEF Subscribe
<1>2. Idle \in Job /\ <<>> \in Seq(Known)
  BY EmptySeq DEF Idle, Job
<1>3. JobInv'
  BY <1>1, <1>2 DEF Goto, IInv, JobInv
<1> QED BY <1>1, <1>3, GotoPreserves

\* A head is skipped, found in the store, or the first block of a walk.
LEMMA IngestPreserves ==
  ASSUME IInv, NEW h \in Known, Ingest(h), UNCHANGED store, heads' \in Seq(Known)
  PROVE  Preserves
<1>0. Idle \in Job /\ [Idle EXCEPT !.then = "select"] \in Job
      /\ [Idle EXCEPT !.then = "select"].then = "select"
  BY EmptySeq DEF Idle, Job
<1>1. CASE Goto("select", Idle)
  <2>1. JobInv'
    BY <1>0, <1>1 DEF Goto, IInv, JobInv
  <2> QED BY <1>1, <2>1, GotoPreserves
<1>2. CASE Goto("safe", [Idle EXCEPT !.then = "select"])
  <2>1. JobInv'
    BY <1>0, <1>2 DEF Goto, IInv, JobInv
  <2> QED BY <1>2, <2>1, GotoPreserves
<1>3. CASE Goto("walk", [Idle EXCEPT !.walk = <<h>>]) /\ ~(NumberOf[h] < StartBlock)
  <2> DEFINE next == [Idle EXCEPT !.walk = <<h>>]
  <2>1. <<h>> \in Seq(Known) /\ Len(<<h>>) = 1 /\ <<h>>[1] = h /\ <<h>> # <<>>
    OBVIOUS
  <2>2. next \in Job /\ next.walk = <<h>>
    BY <1>0, <2>1 DEF Idle, Job
  <2> HIDE DEF next
  <2>3. pc' = "walk" /\ job' = next /\ UNCHANGED backfilled
    BY <1>3 DEF Goto, next
  <2>4. Walking'
    <3>1. job'.walk # <<>> /\ Lowermost' = h
      BY <2>1, <2>2, <2>3 DEF Lowermost
    <3>2. NumberOf[h] >= StartBlock
      BY <1>3, Tree, CoordinatorAssumption
    <3> QED BY <3>1, <3>2 DEF Walking
  <2>5. JobInv'
    BY <2>2, <2>3, <2>4 DEF IInv, JobInv
  <2> QED BY <1>3, <2>5, GotoPreserves
<1> QED BY <1>1, <1>2, <1>3 DEF Ingest

LEMMA CatchUpPreserves == ASSUME IInv, CatchUp PROVE Preserves
BY IngestPreserves DEF CatchUp, IInv, ProviderInv, JobInv

LEMMA TakeHeadPreserves == ASSUME IInv, TakeHead PROVE Preserves
<1>1. Head(heads) \in Known /\ heads' \in Seq(Known)
  BY HeadTailProperties DEF TakeHead, IInv, JobInv
<1> QED BY <1>1, IngestPreserves DEF TakeHead

\* A walk stages known headers, and into an empty store stops at StartBlock.
LEMMA WalkParentPreserves == ASSUME IInv, WalkParent PROVE Preserves
<1> DEFINE low == Lowermost
           up == ParentOf[low]
           next == [job EXCEPT !.walk = Append(@, up)]
<1>0. pc = "walk" /\ ~WalkEnds /\ job \in Job /\ Walking /\ ProviderInv /\ StartBlock \in Nat
  BY CoordinatorAssumption DEF WalkParent, IInv, JobInv
<1>1. job.walk \in Seq(Known) /\ low \in Known
  BY <1>0, EmptySeq, LenProperties, ElementOfSeq DEF Job, Walking, Lowermost
<1>2. \/ \E e \in {"resync", "rpc", "disconnected"} : Exit(e)
      \/ /\ ~TooDeep /\ KnownAt(NumberOf[low] - 1) /\ HeaderAt(NumberOf[low] - 1) = up
         /\ Goto("walk", next) /\ UNCHANGED <<heads, store>>
  BY DEF WalkParent
<1>3. CASE \E e \in {"resync", "rpc", "disconnected"} : Exit(e)
  BY <1>3, ExitPreserves
<1>4. CASE /\ ~TooDeep /\ KnownAt(NumberOf[low] - 1) /\ HeaderAt(NumberOf[low] - 1) = up
           /\ Goto("walk", next) /\ UNCHANGED <<heads, store>>
  <2>1. NumberOf[low] \in Nat /\ NumberOf[low] > 0
    BY <1>0, <1>1, <1>4, Tree DEF TooDeep, WalkEnds, low
  <2>2. store.blocks = <<>> => NumberOf[low] > StartBlock
    BY <1>0, <2>1 DEF WalkEnds, low
  <2> HIDE DEF low
  <2>3. NumberOf[low] - 1 \in Nat
    BY <2>1
  <2>4. up \in Known /\ NumberOf[up] = NumberOf[low] - 1
    BY <1>0, <1>4, <2>3, HeaderAtFound
  <2> HIDE DEF up
  <2>5. /\ Append(job.walk, up) \in Seq(Known) /\ Append(job.walk, up) # <<>>
        /\ Append(job.walk, up)[Len(Append(job.walk, up))] = up
    BY <1>1, <2>4, AppendProperties
  <2>6. next \in Job /\ next.walk = Append(job.walk, up)
    BY <1>0, <2>5 DEF Job
  <2> HIDE DEF next
  <2>7. pc' = "walk" /\ job' = next /\ UNCHANGED <<heads, store, backfilled>>
    BY <1>4 DEF Goto
  <2>8. Walking'
    BY <1>0, <2>1, <2>2, <2>4, <2>5, <2>6, <2>7 DEF Walking, Lowermost
  <2>9. JobInv'
    BY <2>6, <2>7, <2>8 DEF IInv, JobInv
  <2> QED BY <1>4, <2>9, GotoPreserves
<1> QED BY <1>2, <1>3, <1>4

\* The walk is committed, lowest block first, each block with its own logs.
LEMMA FetchBranchPreserves == ASSUME IInv, FetchBranch PROVE Preserves
<1> DEFINE n == Len(job.walk)
           c == [i \in 1..n |-> BlockOf(job.walk[n+1-i], LogsOf[job.walk[n+1-i]])]
<1>0. pc = "walk" /\ WalkEnds /\ job \in Job /\ Walking /\ StartBlock \in Nat
  BY CoordinatorAssumption DEF FetchBranch, IInv, JobInv
<1>1. job.walk \in Seq(Known) /\ n \in Nat \ {0} /\ Lowermost \in Known
  BY <1>0, EmptySeq, LenProperties, ElementOfSeq DEF Job, Walking, Lowermost
<1>2. Commit(c, "select")
  BY DEF FetchBranch
<1>3. \A i \in 1..n : job.walk[n+1-i] \in Known
  <2> SUFFICES ASSUME NEW i \in 1..n PROVE job.walk[n+1-i] \in Known
    OBVIOUS
  <2>1. n + 1 - i \in 1..n
    BY <1>1
  <2> QED BY <1>1, <2>1, ElementOfSeq
<1>4. \A i \in 1..n : /\ c[i] \in Block /\ c[i].hash \in Known
                      /\ HasLogs(c[i], backfilled \/ "select" = "subscribe")
  <2> SUFFICES ASSUME NEW i \in 1..n
               PROVE  /\ c[i] \in Block /\ c[i].hash \in Known
                      /\ HasLogs(c[i], backfilled \/ "select" = "subscribe")
    OBVIOUS
  <2> DEFINE h == job.walk[n+1-i]
  <2>1. h \in Known /\ c[i] = BlockOf(h, LogsOf[h])
    BY <1>3
  <2> HIDE DEF h, c
  <2>2. BlockOf(h, LogsOf[h]) \in Block
    BY <2>1, CoordinatorAssumption
  <2>3. BlockOf(h, LogsOf[h]).hash = h /\ BlockOf(h, LogsOf[h]).events = LogsOf[h]
    BY DEF BlockOf
  <2> QED BY <2>1, <2>2, <2>3 DEF HasLogs
<1>5. c \in Seq(Block) /\ Len(c) = n /\ c # <<>>
  <2>1. c \in Seq(Block) /\ Len(c) = n
    <3>1. \A i \in 1..n : BlockOf(job.walk[n+1-i], LogsOf[job.walk[n+1-i]]) \in Block
      BY <1>4
    <3> QED BY <1>1, <3>1, IsASeq
  <2> QED BY <1>1, <2>1, EmptySeq
<1>6. c[1].number = NumberOf[Lowermost]
  <2>1. 1 \in 1..n /\ n + 1 - 1 = n
    BY <1>1
  <2> QED BY <2>1 DEF BlockOf, Lowermost
<1>7. store.blocks = <<>> => c[1].number = StartBlock
  <2>1. store.blocks = <<>> => NumberOf[Lowermost] <= StartBlock /\ NumberOf[Lowermost] >= StartBlock
    BY <1>0 DEF WalkEnds, Walking
  <2>2. NumberOf[Lowermost] \in Nat
    BY <1>1, Tree
  <2> QED BY <1>0, <1>6, <2>1, <2>2
<1>8. c[Len(c)].hash = job.walk[1]
  <2>1. n \in 1..n /\ n + 1 - n = 1
    BY <1>1
  <2> QED BY <1>5, <2>1 DEF BlockOf
<1> HIDE DEF c
<1> QED BY <1>0, <1>2, <1>4, <1>5, <1>7, <1>8, CommitPreserves

\* A new call keeps the store; a restart empties it.
LEMMA CallAgainPreserves == ASSUME IInv, CallAgain PROVE Preserves
<1>1. /\ UNCHANGED <<store, canon, safe, final, notices, backfilled, job, heads>>
      /\ pc' \in {"backfill", "subscribe"} /\ err' = "ok"
  BY CoordinatorAssumption DEF CallAgain, provider
<1>2. JobInv'
  BY <1>1 DEF IInv, JobInv
<1> QED BY <1>1, <1>2, StoreAlone DEF IInv, ProviderInv, Preserves, CheckpointsAccepted

\* An empty store is one the coordinator leaves, whatever is finalized.
LEMMA EmptyOurs == ASSUME NEW missed, NEW fin PROVE Ours(EmptyStore, missed, fin)
<1>1. EmptyStore.blocks = <<>> /\ Len(<<>>) = 0
  BY DEF EmptyStore
<1> QED BY <1>1, EmptyWellFormed DEF Ours

LEMMA RestartPreserves == ASSUME IInv, Restart PROVE IInv' /\ Unspoiled
<1>1. /\ UNCHANGED <<canon, safe, final, notices, job, heads>>
      /\ store' = EmptyStore /\ backfilled' = FALSE
      /\ pc = "exited" /\ pc' \in {"backfill", "subscribe"} /\ err' = "ok"
  BY CoordinatorAssumption DEF Restart, provider
<1>2. JobInv'
  BY <1>1 DEF IInv, JobInv
<1>3. Ours(store, backfilled, final)'
  BY <1>1, EmptyOurs
<1>4. Unspoiled
  BY <1>1 DEF Unspoiled
<1> QED BY <1>1, <1>2, <1>3, <1>4 DEF IInv, ProviderInv, CheckpointsAccepted

-----------------------------------------------------------------------------
(* The theorems.                                                           *)

LEMMA InitInv == Init => IInv
<1> SUFFICES ASSUME Init PROVE IInv
  OBVIOUS
<1>1. canon \in Known /\ safe \in Branch[canon] /\ final \in Branch[safe]
  BY DEF Init
<1>2. ProviderInv
  <2>1. safe \in Known /\ final \in Branch[canon]
    BY <1>1, Branches, BranchTransitive
  <2> QED BY <1>1, <2>1, EmptySeq DEF Init, ProviderInv
<1>3. JobInv
  <2>1. Idle \in Job /\ <<>> \in Seq(Known)
    BY EmptySeq DEF Idle, Job
  <2> QED BY <2>1, CoordinatorAssumption DEF Init, JobInv
<1>4. Ours(store, backfilled, final)
  BY EmptyOurs DEF Init
<1> QED BY <1>2, <1>3, <1>4 DEF Init, IInv, CheckpointsAccepted

\* Every step keeps the invariant and commits whole; every step but a restart
\* is a move of the abstract log.
LEMMA StepPreserves ==
  ASSUME IInv, [Next]_vars
  PROVE  IInv' /\ Unspoiled /\ (Restart \/ Moves)
<1>1. CASE Restart
  BY <1>1, RestartPreserves
<1>2. CASE NewHead \/ NewSafe \/ NewFinal \/ Announce
  BY <1>2, NewHeadPreserves, NewSafePreserves, NewFinalPreserves, AnnouncePreserves DEF Preserves
<1>3. CASE BackfillLatest \/ BackfillLogs \/ BackfillHeader
  BY <1>3, BackfillLatestPreserves, BackfillLogsPreserves, BackfillHeaderPreserves DEF Preserves
<1>4. CASE RefreshSafe \/ RefreshFinal
  BY <1>4, RefreshSafePreserves, RefreshFinalPreserves DEF Preserves
<1>5. CASE Subscribe \/ CatchUp \/ TakeHead
  BY <1>5, SubscribePreserves, CatchUpPreserves, TakeHeadPreserves DEF Preserves
<1>6. CASE WalkParent \/ FetchBranch
  BY <1>6, WalkParentPreserves, FetchBranchPreserves DEF Preserves
<1>7. CASE Fail \/ CallAgain
  BY <1>7, FailPreserves, CallAgainPreserves DEF Preserves
<1>8. CASE UNCHANGED vars
  <2>1. UNCHANGED <<canon, safe, final, notices, heads, store, pc, job, err, backfilled>>
    BY <1>8 DEF vars
  <2>2. JobInv' /\ Moves /\ Unspoiled
    BY <2>1, JobAlone, StoreAlone DEF IInv
  <2> QED BY <2>1, <2>2 DEF IInv, ProviderInv, CheckpointsAccepted
<1> QED BY <1>1, <1>2, <1>3, <1>4, <1>5, <1>6, <1>7, <1>8 DEF Next, Provider, Progress

\* Every reachable state satisfies the inductive invariant.
THEOREM InvariantHolds == Spec => []IInv
<1>1. IInv /\ [Next]_vars => IInv'
  BY StepPreserves
<1> QED BY InitInv, <1>1, PTL DEF Spec

\* Whatever the provider does between any two calls, the store is one linked run
\* of blocks from StartBlock on, with the fold of exactly those blocks as state.
THEOREM StoreIsAlwaysARun == Spec => []StoreIsCanonicalRun
<1>1. IInv => StoreIsCanonicalRun
  BY DEF IInv, Ours, WellFormed, StoreIsCanonicalRun
<1> QED BY <1>1, InvariantHolds, PTL

\* What the store has marked finalized, the provider has finalized.
THEOREM FinalizedStayCanonical == Spec => []FinalizedAreTheProviders
<1>1. IInv => FinalizedAreTheProviders
  BY DEF IInv, Ours, FinalizedAreTheProviders, Indices
<1> QED BY <1>1, InvariantHolds, PTL

\* No block carries the events of another one.
THEOREM EventsStayWithTheirBlock == Spec => []EventsBelongToBlock
<1>1. IInv => EventsBelongToBlock
  BY DEF IInv, Ours, HasLogs, EventsBelongToBlock, Indices
<1> QED BY <1>1, InvariantHolds, PTL

\* A pair of checkpoints that validateCheckpoint has passed is marked.
THEOREM CheckpointsAreMarked == Spec => []CheckpointsAccepted
BY InvariantHolds, PTL DEF IInv

\* No step leaves a candidate half applied: the step that ends a call changes
\* nothing, and a step that changes the blocks takes its candidate up to the head
\* that is ingested, or up to the height the backfill set out for.
THEOREM EveryCommitIsWhole == Spec => CommitsAreWhole
<1>1. IInv /\ [Next]_vars =>
        [/\ pc # "exited" /\ pc' = "exited" => store' = store
         /\ pc = "walk" /\ store'.blocks # store.blocks => Tip(store').hash = job.walk[1]
         /\ pc = "headers" /\ store'.blocks # store.blocks => Tip(store').number = job.latest]_vars
  BY StepPreserves DEF Unspoiled
<1> QED BY <1>1, InvariantHolds, PTL DEF Spec, CommitsAreWhole

\* A reorg drops at most RetainedDepth blocks.
THEOREM ReorgsAreBounded == Spec => ReorgBounded
<1> DEFINE Bounded == \A i \in 1..(Len(store.blocks) - RetainedDepth) :
                        i \in Indices(store)' /\ store'.blocks[i].hash = store.blocks[i].hash
<1>1. Moves => Bounded
  BY DEF Moves, WithinReach, Indices
<1>2. IInv /\ [Next]_vars => [Restart \/ Bounded]_vars
  BY <1>1, StepPreserves
<1> QED BY <1>2, InvariantHolds, PTL DEF Spec, ReorgBounded

\* Between restarts the store is the canonical log: each commit appends to it or
\* rewrites a suffix above the finalized prefix, which only grows.
THEOREM StoreImplementsLog == Spec => LogImplemented
<1>1. Init => Log!Init
  <2>1. SUFFICES ASSUME Init PROVE Log!Init
    OBVIOUS
  <2>2. store = EmptyStore
    BY <2>1 DEF Init
  <2>3. WellFormed(store) /\ Len(store.blocks) = 0
    BY <2>2, EmptyWellFormed DEF EmptyStore
  <2>4. Finals(store) = 0
    BY <2>3, FinalCount DEF Finals
  <2> QED BY <2>2, <2>4 DEF Log!Init, Finals, EmptyStore
<1>2. Moves => [Log!Next]_(Log!logVars)
  <2> SUFFICES ASSUME Moves PROVE [Log!Next]_(Log!logVars)
    OBVIOUS
  <2>1. /\ LogMove(store, store')
        /\ checkpointIndex(store, Finalized)' = Finals(store')
        /\ checkpointIndex(store, Finalized) = Finals(store)
    BY DEF Moves, Finals
  <2>2. store'.blocks \in Seq(Block) /\ Log!Linked(store'.blocks)
    BY <2>1 DEF LogMove, Linear, Extends, Log!Linked
  <2>3. CASE store'.blocks = store.blocks /\ Finals(store') \in {Finals(store)} \cup (Finals(store) + 1)..Len(store.blocks)
    BY <2>1, <2>2, <2>3 DEF Log!Next, Log!Finalize, Log!logVars
  <2>4. CASE store.blocks = <<>> /\ store'.blocks # <<>> /\ Finals(store') = Finals(store)
    BY <2>1, <2>2, <2>4 DEF Log!Next, Log!Start
  <2>5. CASE /\ Finals(store') = Finals(store)
             /\ \E k \in 1..Len(store.blocks) :
                  /\ k >= Finals(store) /\ Len(store'.blocks) > k
                  /\ \A i \in 1..k : store'.blocks[i] = store.blocks[i]
    BY <2>1, <2>2, <2>5 DEF Log!Next, Log!Rewrite
  <2> QED BY <2>1, <2>3, <2>4, <2>5 DEF LogMove
<1>3. IInv /\ [Next]_vars => [Restart \/ Log!Next]_(Log!logVars)
  BY <1>2, StepPreserves
<1> QED BY <1>1, <1>3, InvariantHolds, PTL DEF Spec, LogImplemented
=============================================================================
