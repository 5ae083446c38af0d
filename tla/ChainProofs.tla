----------------------------- MODULE ChainProofs -----------------------------
(***************************************************************************)
(* Lemmas about the operators of module Chain: each operation of the Store *)
(* keeps it well formed, whatever its arguments, and all but Rollback keep *)
(* every finalized block in its place.                                     *)
(***************************************************************************)
EXTENDS Chain, SequenceTheorems, WellFoundedInduction, TLAPS

Prefix(finality) == \A i, j \in 1..Len(finality) : i <= j => finality[j] <= finality[i]

(* What every operation preserves.  That finality is a prefix property and *)
(* that the state is a fold are needed with linkage: a reorg looks up the  *)
(* newest finalized block only, and refolds only what it keeps.            *)
WellFormed(s) ==
  /\ s \in [blocks: Seq(Block), finality: Seq(Seen..Finalized), state: State]
  /\ Len(s.finality) = Len(s.blocks)
  /\ Linear(s.blocks)
  /\ Prefix(s.finality)
  /\ s.state = rebuild(s.blocks)

-----------------------------------------------------------------------------
(* Least elements, and the two search operators of Chain.                  *)

\* A set of naturals that is not empty has a least element.
LEMMA Least ==
  ASSUME NEW S \in SUBSET Nat, S # {}
  PROVE  \E i \in S : \A j \in S : i <= j
<1> DEFINE R == {ss \in Nat \X Nat : ss[1] < ss[2]}
<1>1. IsWellFoundedOn(R, Nat)
  BY NatLessThanWellFounded DEF OpToRel
<1>2. PICK x \in S : \A y \in S : ~(<<y, x>> \in R)
  BY <1>1, WFMin
<1>3. \A y \in S : ~(y < x)
  BY <1>2
<1> QED BY <1>2, <1>3

\* Lowest finds the least index of S, and answers 0 only when S is empty.
LEMMA LowestProps ==
  ASSUME NEW n \in Nat, NEW S \in SUBSET (1..n)
  PROVE  /\ S = {} => Lowest(S) = 0
         /\ S # {} => Lowest(S) \in S
         /\ Lowest(S) \in 0..n
         /\ \A j \in S : Lowest(S) <= j
<1>1. CASE S = {}
  BY <1>1 DEF Lowest
<1>2. CASE S # {}
  <2>1. \E i \in S : \A j \in S : i <= j
    BY <1>2, Least
  <2>2. Lowest(S) \in S /\ \A j \in S : Lowest(S) <= j
    BY <1>2, <2>1 DEF Lowest
  <2>3. Lowest(S) \in 0..n
    <3>1. Lowest(S) \in 1..n
      BY <2>2
    <3> QED BY <3>1
  <2> QED BY <1>2, <2>2, <2>3
<1> QED BY <1>1, <1>2

\* Highest finds the greatest index of S, and answers 0 only when S is empty.
LEMMA HighestProps ==
  ASSUME NEW n \in Nat, NEW S \in SUBSET (1..n)
  PROVE  /\ S = {} => Highest(S) = 0
         /\ S # {} => Highest(S) \in S
         /\ Highest(S) \in 0..n
         /\ \A j \in S : j <= Highest(S)
<1>1. CASE S = {}
  BY <1>1 DEF Highest
<1>2. CASE S # {}
  <2> DEFINE Bounds == {m \in Nat : \A j \in S : j <= m}
  <2>1. n \in Bounds
    OBVIOUS
  <2>2. PICK m \in Bounds : \A k \in Bounds : m <= k
    <3> HIDE DEF Bounds
    <3>1. Bounds \subseteq Nat
      BY DEF Bounds
    <3> QED BY <2>1, <3>1, Least
  <2>3. m \in S
    <3> SUFFICES ASSUME m \notin S PROVE FALSE
      OBVIOUS
    <3>1. PICK j \in S : TRUE
      BY <1>2
    <3>2. j \in 1..n /\ j <= m /\ j # m
      BY <3>1, <2>2
    <3>3. m - 1 \in Nat
      BY <3>2, <2>2
    <3>4. m - 1 \in Bounds
      BY <2>2, <3>3
    <3> QED BY <3>4, <2>2
  <2>4. \E i \in S : \A j \in S : j <= i
    BY <2>2, <2>3
  <2>5. Highest(S) \in S /\ \A j \in S : j <= Highest(S)
    BY <1>2, <2>4 DEF Highest
  <2>6. Highest(S) \in 0..n
    <3>1. Highest(S) \in 1..n
      BY <2>5
    <3> QED BY <3>1
  <2> QED BY <1>2, <2>5, <2>6
<1> QED BY <1>1, <1>2

-----------------------------------------------------------------------------
(* Linear sequences of blocks.                                             *)

\* Heights are consecutive in a linear sequence.
LEMMA Consecutive ==
  ASSUME NEW bs \in Seq(Block), Linear(bs)
  PROVE  \A i \in 1..Len(bs) : bs[i].number = bs[1].number + i - 1
<1> DEFINE Bad == {i \in 1..Len(bs) : bs[i].number # bs[1].number + i - 1}
<1>0. \A i \in 1..Len(bs) : bs[i].number \in Nat
  BY BlockAssumption
<1>1. SUFFICES ASSUME Bad # {} PROVE FALSE
  OBVIOUS
<1>2. PICK i \in Bad : \A j \in Bad : i <= j
  <2>1. Bad \subseteq Nat
    OBVIOUS
  <2> HIDE DEF Bad
  <2> QED BY <1>1, <2>1, Least
<1>3. i \in 1..Len(bs) /\ i # 1
  BY <1>0, <1>2
<1>4. i - 1 \in 1..Len(bs) /\ bs[i-1].number = bs[1].number + (i - 1) - 1
  BY <1>2, <1>3
<1>5. bs[i].number = bs[i-1].number + 1
  BY <1>3 DEF Linear, Extends
<1>6. bs[i].number # bs[1].number + i - 1
  BY <1>2
<1>7. bs[1].number \in Nat
  BY <1>0, <1>3
<1> QED BY <1>3, <1>4, <1>5, <1>6, <1>7

\* A prefix of a linear sequence is linear.
LEMMA LinearPrefix ==
  ASSUME NEW bs \in Seq(Block), Linear(bs), NEW k \in 0..Len(bs)
  PROVE  /\ SubSeq(bs, 1, k) \in Seq(Block)
         /\ Len(SubSeq(bs, 1, k)) = k
         /\ \A i \in 1..k : SubSeq(bs, 1, k)[i] = bs[i]
         /\ Linear(SubSeq(bs, 1, k))
<1>1. \A i \in 1..k : bs[i] \in Block
  BY ElementOfSeq
<1>2. /\ SubSeq(bs, 1, k) \in Seq(Block)
      /\ Len(SubSeq(bs, 1, k)) = IF 1 <= k THEN k - 1 + 1 ELSE 0
      /\ \A i \in 1..(k - 1 + 1) : SubSeq(bs, 1, k)[i] = bs[1 + i - 1]
  BY <1>1, SubSeqProperties
<1>3. /\ Len(SubSeq(bs, 1, k)) = k
      /\ \A i \in 1..k : SubSeq(bs, 1, k)[i] = bs[i]
  BY <1>2
<1> QED BY <1>2, <1>3 DEF Linear
-----------------------------------------------------------------------------
(* The fold.                                                               *)

\* Contents maps a sequence of blocks element by element.
LEMMA ContentsProps ==
  ASSUME NEW bs \in Seq(Block)
  PROVE  /\ Contents(bs) \in Seq(Entry)
         /\ Len(Contents(bs)) = Len(bs)
         /\ \A i \in 1..Len(bs) : Contents(bs)[i] = Content(bs[i])
<1>1. Len(bs) \in Nat
  BY LenProperties
<1>2. \A i \in 1..Len(bs) : Content(bs[i]) \in Entry
  BY BlockAssumption, ElementOfSeq DEF Content, Entry
<1> QED BY <1>1, <1>2, IsASeq DEF Contents

\* The digest of a fold from scratch is what was hashed, block by block.
LEMMA RebuildDigest ==
  ASSUME NEW bs \in Seq(Block)
  PROVE  /\ rebuild(bs).digest = Contents(bs)
         /\ rebuild(bs) \in State
<1>1. CASE bs = <<>>
  <2>1. Contents(bs) \in Seq(Entry) /\ Len(Contents(bs)) = 0
    BY <1>1, ContentsProps
  <2>2. Contents(bs) = <<>>
    BY <2>1, EmptySeq
  <2> QED BY <1>1, <2>1, <2>2 DEF rebuild, AdvanceAll, ZeroState, State
<1>2. CASE bs # <<>>
  <2>1. Contents(bs) \in Seq(Entry)
    BY ContentsProps
  <2>2. <<>> \o Contents(bs) = Contents(bs)
    BY <2>1, ConcatEmptySeq
  <2>3. Len(bs) \in 1..Len(bs)
    BY <1>2, EmptySeq, LenProperties
  <2>4. bs[Len(bs)].number \in Nat
    BY <2>3, ElementOfSeq, BlockAssumption
  <2> QED BY <1>2, <2>1, <2>2, <2>4 DEF rebuild, AdvanceAll, ZeroState, State
<1> QED BY <1>1, <1>2

\* Folding one more block onto the fold of bs is the fold of the longer chain.
LEMMA RebuildAppend ==
  ASSUME NEW bs \in Seq(Block), NEW b \in Block
  PROVE  advance(rebuild(bs), b) = rebuild(Append(bs, b))
<1> DEFINE cs == Append(bs, b)
<1>1. /\ cs \in Seq(Block) /\ cs # <<>> /\ Len(cs) = Len(bs) + 1
      /\ cs[Len(cs)] = b
      /\ \A i \in 1..Len(bs) : cs[i] = bs[i]
  BY AppendProperties
<1>2. Content(b) \in Entry
  BY BlockAssumption DEF Content, Entry
<1>3. Append(Contents(bs), Content(b)) = Contents(cs)
  <2>1. Append(Contents(bs), Content(b)) \in Seq(Entry)
    BY <1>2, ContentsProps, AppendProperties
  <2>2. Contents(cs) \in Seq(Entry) /\ Len(Contents(cs)) = Len(bs) + 1
    BY <1>1, ContentsProps
  <2>3. Len(Append(Contents(bs), Content(b))) = Len(bs) + 1
    BY <1>2, ContentsProps, AppendProperties
  <2>4. ASSUME NEW i \in 1..(Len(bs) + 1)
        PROVE  Append(Contents(bs), Content(b))[i] = Contents(cs)[i]
    <3> DEFINE ds == Append(Contents(bs), Content(b))
    <3>1. Contents(cs)[i] = Content(cs[i])
      BY <1>1, ContentsProps
    <3>2. /\ \A j \in 1..Len(bs) : ds[j] = Contents(bs)[j]
          /\ ds[Len(bs) + 1] = Content(b)
      BY <1>2, ContentsProps, AppendProperties
    <3>3. CASE i = Len(bs) + 1
      BY <3>1, <3>2, <3>3, <1>1
    <3>4. CASE i \in 1..Len(bs)
      BY <3>1, <3>2, <3>4, <1>1, ContentsProps
    <3>5. Len(bs) \in Nat
      BY LenProperties
    <3>6. i = Len(bs) + 1 \/ i \in 1..Len(bs)
      BY <3>5
    <3> QED BY <3>3, <3>4, <3>6
  <2> QED BY <2>1, <2>2, <2>3, <2>4, SeqEqual
<1>4. rebuild(cs) = [height |-> b.number, digest |-> Contents(cs)]
  BY <1>1, RebuildDigest DEF rebuild, AdvanceAll, ZeroState
<1>5. rebuild(bs).digest = Contents(bs)
  BY RebuildDigest
<1> QED BY <1>3, <1>4, <1>5 DEF advance

\* A sequence that lists x and then y is x \o y.
LEMMA ConcatEntries ==
  ASSUME NEW S, NEW x \in Seq(S), NEW y \in Seq(S), NEW z \in Seq(S),
         Len(z) = Len(x) + Len(y),
         \A i \in 1..Len(x) : z[i] = x[i],
         \A i \in 1..Len(y) : z[Len(x) + i] = y[i]
  PROVE  x \o y = z
<1>1. /\ x \o y \in Seq(S)
      /\ Len(x \o y) = Len(x) + Len(y)
      /\ \A i \in 1..(Len(x) + Len(y)) :
           (x \o y)[i] = IF i <= Len(x) THEN x[i] ELSE y[i - Len(x)]
  BY ConcatProperties
<1>2. Len(x) \in Nat /\ Len(y) \in Nat
  BY LenProperties
<1>3. ASSUME NEW i \in 1..(Len(x) + Len(y))
      PROVE  (x \o y)[i] = z[i]
  <2>1. CASE i <= Len(x)
    BY <2>1, <1>1, <1>2
  <2>2. CASE ~(i <= Len(x))
    <3>1. i - Len(x) \in 1..Len(y) /\ Len(x) + (i - Len(x)) = i
      BY <2>2, <1>2
    <3>2. z[i] = y[i - Len(x)]
      BY <3>1
    <3> QED BY <2>2, <3>2, <1>1
  <2> QED BY <2>1, <2>2
<1> QED BY <1>1, <1>3, SeqEqual

\* Folding the blocks of cs onto the fold of bs is the fold of the whole.
LEMMA RebuildConcat ==
  ASSUME NEW bs \in Seq(Block), NEW cs \in Seq(Block)
  PROVE  AdvanceAll(rebuild(bs), cs) = rebuild(bs \o cs)
<1>1. CASE cs = <<>>
  BY <1>1, ConcatEmptySeq DEF AdvanceAll
<1>2. CASE cs # <<>>
  <2> DEFINE all == bs \o cs
  <2>1. /\ all \in Seq(Block)
        /\ Len(all) = Len(bs) + Len(cs)
        /\ \A i \in 1..(Len(bs) + Len(cs)) :
             all[i] = IF i <= Len(bs) THEN bs[i] ELSE cs[i - Len(bs)]
    BY ConcatProperties
  <2>2. Len(bs) \in Nat /\ Len(cs) \in Nat /\ Len(cs) > 0
    BY <1>2, EmptySeq, LenProperties
  <2>3. all[Len(all)] = cs[Len(cs)]
    BY <2>1, <2>2
  <2>4. all # <<>>
    BY <2>1, <2>2
  <2>5. Contents(bs) \o Contents(cs) = Contents(all)
    <3>1. /\ Contents(bs) \in Seq(Entry) /\ Len(Contents(bs)) = Len(bs)
          /\ Contents(cs) \in Seq(Entry) /\ Len(Contents(cs)) = Len(cs)
          /\ Contents(all) \in Seq(Entry) /\ Len(Contents(all)) = Len(bs) + Len(cs)
      BY <2>1, ContentsProps
    <3>2. /\ \A i \in 1..Len(bs) : Contents(bs)[i] = Content(bs[i])
          /\ \A i \in 1..Len(cs) : Contents(cs)[i] = Content(cs[i])
          /\ \A i \in 1..(Len(bs) + Len(cs)) : Contents(all)[i] = Content(all[i])
      BY <2>1, ContentsProps
    <3>3. ASSUME NEW i \in 1..Len(bs)
          PROVE  Contents(all)[i] = Contents(bs)[i]
      <4>1. i \in 1..(Len(bs) + Len(cs)) /\ i <= Len(bs)
        BY <2>2
      <4>2. all[i] = bs[i]
        BY <4>1, <2>1
      <4> QED BY <4>1, <4>2, <3>2
    <3>4. ASSUME NEW i \in 1..Len(cs)
          PROVE  Contents(all)[Len(bs) + i] = Contents(cs)[i]
      <4>1. /\ Len(bs) + i \in 1..(Len(bs) + Len(cs))
            /\ ~(Len(bs) + i <= Len(bs))
            /\ Len(bs) + i - Len(bs) = i
        BY <2>2
      <4>2. all[Len(bs) + i] = cs[i]
        BY <4>1, <2>1
      <4> QED BY <4>1, <4>2, <3>2
    <3>5. /\ Len(Contents(all)) = Len(Contents(bs)) + Len(Contents(cs))
          /\ \A i \in 1..Len(Contents(bs)) : Contents(all)[i] = Contents(bs)[i]
          /\ \A i \in 1..Len(Contents(cs)) :
               Contents(all)[Len(Contents(bs)) + i] = Contents(cs)[i]
      BY <3>1, <3>3, <3>4
    <3> HIDE DEF all
    <3> QED BY <3>1, <3>5, ConcatEntries
  <2>6. rebuild(all) = [height |-> all[Len(all)].number, digest |-> Contents(all)]
    BY <2>1, <2>4, RebuildDigest DEF rebuild, AdvanceAll, ZeroState
  <2>7. rebuild(bs).digest = Contents(bs)
    BY RebuildDigest
  <2>8. AdvanceAll(rebuild(bs), cs)
          = [height |-> cs[Len(cs)].number, digest |-> rebuild(bs).digest \o Contents(cs)]
    BY <1>2 DEF AdvanceAll
  <2> QED BY <2>3, <2>5, <2>6, <2>7, <2>8
<1> QED BY <1>1, <1>2
-----------------------------------------------------------------------------
(* The operations.                                                         *)

\* The empty store is well formed.
LEMMA EmptyWellFormed == WellFormed(EmptyStore)
<1>1. <<>> \in Seq(Block) /\ <<>> \in Seq(Seen..Finalized) /\ Len(<<>>) = 0
  BY EmptySeq
<1>2. rebuild(<<>>) = ZeroState /\ rebuild(<<>>) \in State
  BY <1>1, RebuildDigest DEF rebuild, AdvanceAll
<1> QED BY <1>1, <1>2 DEF WellFormed, EmptyStore, Linear, Prefix

\* What WellFormed says of the fields, in the form the lemmas below use.
LEMMA Fields ==
  ASSUME NEW s, WellFormed(s)
  PROVE  /\ s.blocks \in Seq(Block) /\ s.finality \in Seq(Seen..Finalized)
         /\ s = [blocks |-> s.blocks, finality |-> s.finality, state |-> s.state]
         /\ Len(s.blocks) \in Nat /\ Len(s.finality) = Len(s.blocks)
         /\ \A i \in 1..Len(s.blocks) : s.blocks[i] \in Block
         /\ \A i \in 1..Len(s.blocks) : s.blocks[i].number \in Nat
         /\ \A i \in 1..Len(s.blocks) : s.finality[i] \in Seen..Finalized
<1>1. /\ s.blocks \in Seq(Block) /\ s.finality \in Seq(Seen..Finalized)
      /\ s = [blocks |-> s.blocks, finality |-> s.finality, state |-> s.state]
      /\ Len(s.finality) = Len(s.blocks)
  BY DEF WellFormed
<1>2. Len(s.blocks) \in Nat
  BY <1>1, LenProperties
<1>3. \A i \in 1..Len(s.blocks) : s.blocks[i] \in Block
  BY <1>1, ElementOfSeq
<1>4. \A i \in 1..Len(s.blocks) : s.finality[i] \in Seen..Finalized
  BY <1>1, ElementOfSeq
<1> QED BY <1>1, <1>2, <1>3, <1>4, BlockAssumption

\* Append keeps the store well formed, whether it accepts the block or not.
LEMMA AppendWellFormed ==
  ASSUME NEW s, WellFormed(s), NEW b \in Block
  PROVE  WellFormed(AppendBlock(s, b).store)
<1>1. CASE s.blocks # <<>> /\ ~Extends(Tip(s), b)
  BY <1>1 DEF AppendBlock, Ok, Reject
<1>2. CASE ~(s.blocks # <<>> /\ ~Extends(Tip(s), b))
  <2> DEFINE bs == Append(s.blocks, b)  fs == Append(s.finality, Seen)
  <2>1. AppendBlock(s, b).store
          = [blocks |-> bs, finality |-> fs, state |-> advance(s.state, b)]
    BY <1>2 DEF AppendBlock, Ok
  <2>2. /\ bs \in Seq(Block) /\ Len(bs) = Len(s.blocks) + 1
        /\ \A i \in 1..Len(s.blocks) : bs[i] = s.blocks[i]
        /\ bs[Len(s.blocks) + 1] = b
    BY Fields, AppendProperties
  <2>3. /\ fs \in Seq(Seen..Finalized) /\ Len(fs) = Len(s.blocks) + 1
        /\ \A i \in 1..Len(s.blocks) : fs[i] = s.finality[i]
        /\ fs[Len(s.blocks) + 1] = Seen
    <3>1. Seen \in Seen..Finalized
      BY DEF Seen, Finalized
    <3> QED BY <3>1, Fields, AppendProperties
  <2> HIDE DEF bs, fs
  <2>4. Linear(bs)
    <3> SUFFICES ASSUME NEW i \in 2..Len(bs) PROVE Extends(bs[i-1], bs[i])
      BY DEF Linear
    <3>1. CASE i \in 2..Len(s.blocks)
      <4>1. Extends(s.blocks[i-1], s.blocks[i])
        BY <3>1 DEF WellFormed, Linear
      <4>2. i \in 1..Len(s.blocks) /\ i - 1 \in 1..Len(s.blocks)
        BY <3>1, Fields
      <4> QED BY <4>1, <4>2, <2>2
    <3>2. CASE i = Len(s.blocks) + 1
      <4>1. Len(s.blocks) \in 1..Len(s.blocks)
        BY <3>2, Fields
      <4>2. s.blocks # <<>>
        BY <4>1, EmptySeq
      <4>3. Extends(Tip(s), b)
        BY <4>2, <1>2
      <4>4. bs[i-1] = Tip(s) /\ bs[i] = b
        BY <3>2, <4>1, <2>2, Fields DEF Tip
      <4> QED BY <4>3, <4>4
    <3>3. i \in 2..Len(s.blocks) \/ i = Len(s.blocks) + 1
      BY <2>2, Fields
    <3> QED BY <3>1, <3>2, <3>3
  <2>5. Prefix(fs)
    <3> SUFFICES ASSUME NEW i \in 1..Len(fs), NEW j \in 1..Len(fs), i <= j
                 PROVE  fs[j] <= fs[i]
      BY DEF Prefix
    <3>1. \A k \in 1..Len(fs) : fs[k] \in Seen..Finalized
      BY <2>3, ElementOfSeq
    <3>2. CASE j \in 1..Len(s.blocks)
      <4>1. i \in 1..Len(s.blocks)
        BY <3>2
      <4> QED BY <3>2, <4>1, <2>3, Fields DEF WellFormed, Prefix
    <3>3. CASE j = Len(s.blocks) + 1
      BY <3>1, <3>3, <2>3 DEF Seen
    <3>4. j \in 1..Len(s.blocks) \/ j = Len(s.blocks) + 1
      BY <2>3, Fields
    <3> QED BY <3>2, <3>3, <3>4
  <2>6. advance(s.state, b) = rebuild(bs)
    BY Fields, RebuildAppend DEF WellFormed, bs
  <2>7. rebuild(bs) \in State
    BY <2>2, RebuildDigest
  <2> QED BY <2>1, <2>2, <2>3, <2>4, <2>5, <2>6, <2>7 DEF WellFormed
<1> QED BY <1>1, <1>2

\* Every finalized block of s is in t, in its place and still finalized.
KeepsFinalized(s, t) ==
  \A i \in 1..Len(s.blocks) :
    s.finality[i] = Finalized =>
      /\ i \in 1..Len(t.blocks)
      /\ t.blocks[i] = s.blocks[i]
      /\ t.finality[i] = Finalized

\* Append drops no block, finalized or not.
LEMMA AppendKeeps ==
  ASSUME NEW s, WellFormed(s), NEW b \in Block
  PROVE  KeepsFinalized(s, AppendBlock(s, b).store)
<1>1. CASE AppendBlock(s, b).store = s
  BY <1>1 DEF KeepsFinalized
<1>2. CASE AppendBlock(s, b).store # s
  <2> DEFINE bs == Append(s.blocks, b)  fs == Append(s.finality, Seen)
  <2>1. AppendBlock(s, b).store
          = [blocks |-> bs, finality |-> fs, state |-> advance(s.state, b)]
    BY <1>2 DEF AppendBlock, Ok, Reject
  <2>2. Len(bs) = Len(s.blocks) + 1 /\ \A i \in 1..Len(s.blocks) : bs[i] = s.blocks[i]
    BY Fields, AppendProperties
  <2>3. \A i \in 1..Len(s.blocks) : fs[i] = s.finality[i]
    <3>1. Seen \in Seen..Finalized
      BY DEF Seen, Finalized
    <3> QED BY <3>1, Fields, AppendProperties
  <2> HIDE DEF bs, fs
  <2> QED BY <2>1, <2>2, <2>3, Fields DEF KeepsFinalized
<1> QED BY <1>1, <1>2

\* The store of the first k blocks, refolded: what a rollback leaves.
CutAt(s, k) == [blocks |-> SubSeq(s.blocks, 1, k),
                finality |-> SubSeq(s.finality, 1, k),
                state |-> rebuild(SubSeq(s.blocks, 1, k))]

\* Cutting a well-formed store leaves a well-formed store with the same prefix.
LEMMA CutWellFormed ==
  ASSUME NEW s, WellFormed(s), NEW k \in 0..Len(s.blocks)
  PROVE  /\ WellFormed(CutAt(s, k))
         /\ Len(CutAt(s, k).blocks) = k
         /\ \A i \in 1..k : /\ CutAt(s, k).blocks[i] = s.blocks[i]
                            /\ CutAt(s, k).finality[i] = s.finality[i]
<1> DEFINE bs == SubSeq(s.blocks, 1, k)  fs == SubSeq(s.finality, 1, k)
<1>1. /\ bs \in Seq(Block) /\ Len(bs) = k /\ Linear(bs)
      /\ \A i \in 1..k : bs[i] = s.blocks[i]
  BY Fields, LinearPrefix DEF WellFormed
<1>2. /\ fs \in Seq(Seen..Finalized) /\ Len(fs) = k
      /\ \A i \in 1..k : fs[i] = s.finality[i]
  <2>1. \A i \in 1..k : s.finality[i] \in Seen..Finalized
    BY Fields
  <2>2. /\ fs \in Seq(Seen..Finalized)
        /\ Len(fs) = IF 1 <= k THEN k - 1 + 1 ELSE 0
        /\ \A i \in 1..(k - 1 + 1) : fs[i] = s.finality[1 + i - 1]
    BY <2>1, SubSeqProperties
  <2> QED BY <2>2
<1>3. CutAt(s, k) = [blocks |-> bs, finality |-> fs, state |-> rebuild(bs)]
  BY DEF CutAt
<1> HIDE DEF bs, fs
<1>4. rebuild(bs) \in State
  BY <1>1, RebuildDigest
<1>5. Prefix(fs)
  BY <1>2, Fields DEF WellFormed, Prefix
<1> QED BY <1>1, <1>2, <1>3, <1>4, <1>5 DEF WellFormed

\* Rolling back to the height of the a-th block keeps exactly a blocks.
LEMMA RollbackCuts ==
  ASSUME NEW s, WellFormed(s), NEW a \in 1..Len(s.blocks)
  PROVE  Rollback(s, s.blocks[a].number) = CutAt(s, a)
<1> DEFINE Above == {i \in Indices(s) : s.blocks[i].number > s.blocks[a].number}
<1>1. \A i \in 1..Len(s.blocks) : s.blocks[i].number = s.blocks[1].number + i - 1
  BY Fields, Consecutive DEF WellFormed
<1>2. s.blocks[1].number \in Nat
  BY Fields
<1>3. Above = (a+1)..Len(s.blocks)
  <2>1. Len(s.blocks) \in Nat
    BY Fields
  <2>2. \A i \in 1..Len(s.blocks) : s.blocks[i].number > s.blocks[a].number <=> i > a
    BY <1>1, <1>2, <2>1
  <2> QED BY <2>1, <2>2 DEF Indices
<1>4. CASE a = Len(s.blocks)
  <2>1. Above = {}
    BY <1>3, <1>4, Fields
  <2>2. Rollback(s, s.blocks[a].number) = s
    BY <2>1 DEF Rollback, Lowest
  <2>3. SubSeq(s.blocks, 1, a) = s.blocks /\ SubSeq(s.finality, 1, a) = s.finality
    BY <1>4, Fields, SubSeqFull
  <2>4. CutAt(s, a) = [blocks |-> s.blocks, finality |-> s.finality, state |-> s.state]
    BY <2>3 DEF CutAt, WellFormed
  <2> QED BY <2>2, <2>4, Fields
<1>5. CASE a # Len(s.blocks)
  <2>1. a + 1 \in Above /\ Above \in SUBSET (1..Len(s.blocks))
    BY <1>3, <1>5, Fields DEF Indices
  <2> HIDE DEF Above
  <2>2. Lowest(Above) \in Above /\ \A j \in Above : Lowest(Above) <= j
    BY <2>1, LowestProps, Fields
  <2>3. Lowest(Above) = a + 1
    BY <2>1, <2>2, <1>3, Fields
  <2>4. Lowest(Above) # 0 /\ Lowest(Above) - 1 = a
    BY <2>3
  <2> QED BY <2>4 DEF Rollback, CutAt, Above
<1> QED BY <1>4, <1>5

\* Rollback to any height keeps the store well formed.
LEMMA RollbackWellFormed ==
  ASSUME NEW s, WellFormed(s), NEW to \in Nat
  PROVE  WellFormed(Rollback(s, to))
<1> DEFINE Above == {i \in Indices(s) : s.blocks[i].number > to}
<1>1. Above \in SUBSET (1..Len(s.blocks))
  BY DEF Indices
<1>2. CASE Lowest(Above) = 0
  BY <1>2 DEF Rollback
<1>3. CASE Lowest(Above) # 0
  <2> HIDE DEF Above
  <2>1. Lowest(Above) - 1 \in 0..Len(s.blocks)
    BY <1>1, <1>3, LowestProps, Fields
  <2>2. Rollback(s, to) = CutAt(s, Lowest(Above) - 1)
    BY <1>3 DEF Rollback, CutAt, Above
  <2> QED BY <2>1, <2>2, CutWellFormed
<1> QED BY <1>2, <1>3

-----------------------------------------------------------------------------
(* Reorg and reconciliation.                                               *)

\* A chain that lists a linear prefix and then a branch whose first block
\* extends the last of it is linear.
LEMMA LinearConcat ==
  ASSUME NEW bs \in Seq(Block), Linear(bs), bs # <<>>,
         NEW cs \in Seq(Block), Linear(cs), cs # <<>>,
         Extends(bs[Len(bs)], cs[1])
  PROVE  Linear(bs \o cs)
<1> DEFINE all == bs \o cs
<1>1. /\ Len(all) = Len(bs) + Len(cs)
      /\ \A i \in 1..(Len(bs) + Len(cs)) :
           all[i] = IF i <= Len(bs) THEN bs[i] ELSE cs[i - Len(bs)]
  BY ConcatProperties
<1>2. Len(bs) \in Nat \ {0} /\ Len(cs) \in Nat \ {0}
  BY EmptySeq
<1> HIDE DEF all
<1>3. SUFFICES ASSUME NEW i \in 2..Len(all) PROVE Extends(all[i-1], all[i])
  BY DEF Linear, all
<1>4. CASE i <= Len(bs)
  <2>1. i \in 2..Len(bs) /\ all[i] = bs[i] /\ all[i-1] = bs[i-1]
    BY <1>1, <1>2, <1>4
  <2> QED BY <2>1 DEF Linear
<1>5. CASE i = Len(bs) + 1
  <2>1. all[i] = cs[1] /\ all[i-1] = bs[Len(bs)]
    BY <1>1, <1>2, <1>5
  <2> QED BY <2>1
<1>6. CASE i > Len(bs) + 1
  <2>1. i - Len(bs) \in 2..Len(cs)
    BY <1>1, <1>2, <1>6
  <2>2. (i - 1) - Len(bs) = (i - Len(bs)) - 1 /\ ~(i <= Len(bs)) /\ ~(i - 1 <= Len(bs))
        /\ i \in 1..(Len(bs) + Len(cs)) /\ i - 1 \in 1..(Len(bs) + Len(cs))
    BY <1>1, <1>2, <1>6
  <2>3. all[i] = cs[i - Len(bs)] /\ all[i-1] = cs[(i - Len(bs)) - 1]
    BY <1>1, <2>2
  <2> QED BY <2>1, <2>3 DEF Linear
<1> QED BY <1>1, <1>2, <1>4, <1>5, <1>6

\* t is s with everything above its a-th block replaced by branch, and no
\* finalized block of s is above the a-th.
Rewrites(s, t, a, branch) ==
  /\ a \in 1..Len(s.blocks)
  /\ branch # <<>> /\ Linear(branch) /\ Extends(s.blocks[a], branch[1])
  /\ \A i \in 1..Len(s.blocks) : s.finality[i] = Finalized => i <= a
  /\ t = ReplaceAbove(s, s.blocks[a].number, branch)

\* What that leaves: the first a blocks with their finality, then the branch.
Rewritten(s, t, a, branch) ==
  /\ WellFormed(t)
  /\ Len(t.blocks) = a + Len(branch)
  /\ \A i \in 1..a : t.blocks[i] = s.blocks[i] /\ t.finality[i] = s.finality[i]
  /\ \A i \in 1..Len(branch) : t.blocks[a + i] = branch[i] /\ t.finality[a + i] = Seen

\* Replacing what lies above the a-th block by a branch that extends it keeps
\* the store well formed, and leaves its first a blocks and their finality.
LEMMA RewriteShape ==
  ASSUME NEW s, WellFormed(s), NEW t, NEW a, NEW branch \in Seq(Block), Rewrites(s, t, a, branch)
  PROVE  Rewritten(s, t, a, branch)
<1>0. /\ a \in 1..Len(s.blocks) /\ branch # <<>> /\ Linear(branch)
      /\ Extends(s.blocks[a], branch[1])
      /\ t = ReplaceAbove(s, s.blocks[a].number, branch)
  BY DEF Rewrites
<1> DEFINE kept == CutAt(s, a)
           seen == [i \in 1..Len(branch) |-> Seen]
<1>1. t = [blocks |-> kept.blocks \o branch,
           finality |-> kept.finality \o seen,
           state |-> AdvanceAll(kept.state, branch)]
  BY <1>0, RollbackCuts DEF ReplaceAbove
<1>2. /\ WellFormed(kept) /\ Len(kept.blocks) = a
      /\ \A i \in 1..a : /\ kept.blocks[i] = s.blocks[i]
                         /\ kept.finality[i] = s.finality[i]
  <2>1. a \in 0..Len(s.blocks)
    BY <1>0
  <2> QED BY <2>1, CutWellFormed
<1> HIDE DEF kept
<1>3. /\ kept.blocks \in Seq(Block) /\ kept.finality \in Seq(Seen..Finalized)
      /\ Len(kept.finality) = a /\ Linear(kept.blocks) /\ a \in Nat \ {0}
  BY <1>0, <1>2, Fields DEF WellFormed
<1>4. /\ seen \in Seq(Seen..Finalized) /\ Len(seen) = Len(branch)
      /\ \A i \in 1..Len(branch) : seen[i] = Seen
  <2>1. Len(branch) \in Nat /\ Seen \in Seen..Finalized
    BY LenProperties DEF Seen, Finalized
  <2> QED BY <2>1, IsASeq
<1> HIDE DEF seen
<1>5. /\ t.blocks \in Seq(Block) /\ Len(t.blocks) = a + Len(branch)
      /\ \A i \in 1..(a + Len(branch)) :
           t.blocks[i] = IF i <= a THEN kept.blocks[i] ELSE branch[i - a]
  <2>1. t.blocks = kept.blocks \o branch
    BY <1>1
  <2>2. Len(kept.blocks) = a /\ Len(branch) = Len(branch)
    BY <1>2, <1>3, <1>4
  <2>3. /\ kept.blocks \o branch \in Seq(Block)
        /\ Len(kept.blocks \o branch) = Len(kept.blocks) + Len(branch)
        /\ \A i \in 1..(Len(kept.blocks) + Len(branch)) :
             (kept.blocks \o branch)[i]
               = IF i <= Len(kept.blocks) THEN kept.blocks[i] ELSE branch[i - Len(kept.blocks)]
    BY <1>3, <1>4, ConcatProperties
  <2> QED BY <2>1, <2>2, <2>3
<1>6. /\ t.finality \in Seq(Seen..Finalized) /\ Len(t.finality) = a + Len(branch)
      /\ \A i \in 1..(a + Len(branch)) :
           t.finality[i] = IF i <= a THEN kept.finality[i] ELSE seen[i - a]
  <2>1. t.finality = kept.finality \o seen
    BY <1>1
  <2>2. Len(kept.finality) = a /\ Len(seen) = Len(branch)
    BY <1>2, <1>3, <1>4
  <2>3. ASSUME NEW S, kept.finality \in Seq(S), seen \in Seq(S)
        PROVE  /\ kept.finality \o seen \in Seq(S)
               /\ Len(kept.finality \o seen) = Len(kept.finality) + Len(seen)
               /\ \A i \in 1..(Len(kept.finality) + Len(seen)) :
                    (kept.finality \o seen)[i]
                      = IF i <= Len(kept.finality) THEN kept.finality[i] ELSE seen[i - Len(kept.finality)]
    BY ONLY <2>3, ConcatProperties
  <2>4. kept.finality \in Seq(Seen..Finalized) /\ seen \in Seq(Seen..Finalized)
    BY <1>3, <1>4
  <2> QED BY <2>1, <2>2, <2>3, <2>4
<1>7. Len(branch) \in Nat \ {0}
  BY <1>0, EmptySeq
<1>8. Linear(t.blocks)
  <2>1. kept.blocks # <<>> /\ kept.blocks[Len(kept.blocks)] = s.blocks[a]
    BY <1>2, <1>3, EmptySeq
  <2> QED BY <1>0, <1>1, <1>3, <2>1, LinearConcat
<1>9. t.state = rebuild(t.blocks)
  BY <1>1, <1>2, <1>3, RebuildConcat DEF WellFormed
<1>10. t.state \in State
  BY <1>5, <1>9, RebuildDigest
<1>11. ASSUME NEW i \in 1..a
       PROVE  t.blocks[i] = s.blocks[i] /\ t.finality[i] = s.finality[i]
  <2>1. i \in 1..(a + Len(branch)) /\ i <= a
    BY <1>3, <1>7
  <2>2. t.blocks[i] = kept.blocks[i] /\ t.finality[i] = kept.finality[i]
    BY <2>1, <1>5, <1>6
  <2> QED BY <2>2, <1>2
<1>12. ASSUME NEW i \in 1..Len(branch)
       PROVE  t.blocks[a + i] = branch[i] /\ t.finality[a + i] = Seen
  <2>1. a + i \in 1..(a + Len(branch)) /\ ~(a + i <= a) /\ (a + i) - a = i
    BY <1>3, <1>7
  <2> QED BY <2>1, <1>4, <1>5, <1>6
<1>13. Prefix(t.finality)
  <2> SUFFICES ASSUME NEW i \in 1..Len(t.finality), NEW j \in 1..Len(t.finality), i <= j
               PROVE  t.finality[j] <= t.finality[i]
    BY DEF Prefix
  <2>1. t.finality[i] \in Seen..Finalized /\ t.finality[j] \in Seen..Finalized
    BY <1>6, ElementOfSeq
  <2>2. CASE j <= a
    <3>1. i \in 1..a /\ j \in 1..a
      BY <2>2, <1>3
    <3>2. t.finality[i] = s.finality[i] /\ t.finality[j] = s.finality[j]
      BY <3>1, <1>11
    <3>3. i \in 1..Len(s.finality) /\ j \in 1..Len(s.finality)
      BY <1>0, <3>1, Fields
    <3> QED BY <3>2, <3>3 DEF WellFormed, Prefix
  <2>3. CASE ~(j <= a)
    <3>1. j - a \in 1..Len(branch)
      BY <2>3, <1>3, <1>6, <1>7
    <3>2. t.finality[j] = Seen
      BY <2>3, <3>1, <1>4, <1>6
    <3> QED BY <2>1, <3>2 DEF Seen
  <2> QED BY <2>2, <2>3
<1>14. t \in [blocks: Seq(Block), finality: Seq(Seen..Finalized), state: State]
  BY <1>1, <1>5, <1>6, <1>10
<1>15. WellFormed(t)
  BY <1>5, <1>6, <1>8, <1>9, <1>13, <1>14 DEF WellFormed
<1> QED BY <1>5, <1>11, <1>12, <1>15 DEF Rewritten

\* The newest finalized block bounds every other finalized block.
LEMMA CheckpointBounds ==
  ASSUME NEW s, WellFormed(s), NEW n \in Nat, ~BelowFinalized(s, n),
         NEW a \in 1..Len(s.blocks), s.blocks[a].number = n,
         NEW i \in 1..Len(s.blocks), s.finality[i] = Finalized
  PROVE  i <= a
<1> DEFINE Fin == {j \in Indices(s) : s.finality[j] >= Finalized}
           c == Highest(Fin)
<1>1. Fin \in SUBSET (1..Len(s.blocks)) /\ i \in Fin
  BY DEF Indices, Finalized
<1> HIDE DEF Fin
<1>2. c \in Fin /\ i <= c
  BY <1>1, HighestProps, Fields
<1> HIDE DEF c
<1>3. c \in 1..Len(s.blocks)
  BY <1>1, <1>2
<1>4. checkpointIndex(s, Finalized) = c
  BY DEF checkpointIndex, Finalized, c, Fin
<1>5. ~(n < s.blocks[c].number)
  BY <1>3, <1>4 DEF BelowFinalized
<1>6. /\ s.blocks[c].number = s.blocks[1].number + c - 1
      /\ s.blocks[a].number = s.blocks[1].number + a - 1
      /\ s.blocks[1].number \in Nat
  <2>1. \A k \in 1..Len(s.blocks) : s.blocks[k].number = s.blocks[1].number + k - 1
    BY Fields, Consecutive DEF WellFormed
  <2>2. 1 \in 1..Len(s.blocks)
    BY Fields
  <2> QED BY <1>3, <2>1, <2>2, Fields
<1> QED BY <1>2, <1>3, <1>5, <1>6

\* A branch that reorg accepts rewrites the store above a block that is no older
\* than the newest finalized one.
LEMMA ReorgAccepts ==
  ASSUME NEW s, WellFormed(s), NEW branch \in Seq(Block), branch # <<>>, NEW depth,
         Reorg(s, branch, depth).err = "ok",
         NEW t, t = Reorg(s, branch, depth).store
  PROVE  \E k \in 1..Len(s.blocks) :
           /\ Rewrites(s, t, k, branch)
           /\ depth # Unbounded => ~(Tip(s).number - s.blocks[k].number > depth)
<1> DEFINE n == branch[1].number - 1
           At == {i \in Indices(s) : s.blocks[i].number = n}
           a == IF branch[1].number = 0 THEN 0 ELSE IndexByNumber(s, n)
<1>2. /\ a # 0 /\ s.blocks[a].hash = branch[1].parent
      /\ Linear(branch)
      /\ ~BelowFinalized(s, s.blocks[a].number)
      /\ depth # Unbounded => ~(Tip(s).number - s.blocks[a].number > depth)
      /\ t = ReplaceAbove(s, s.blocks[a].number, branch)
  <2>1. Reorg(s, branch, depth)
          = IF a = 0 \/ s.blocks[a].hash # branch[1].parent THEN Reject(s, "unknownAncestor")
            ELSE IF ~Linear(branch) THEN Reject(s, "broken")
            ELSE IF \/ BelowFinalized(s, s.blocks[a].number)
                    \/ depth # Unbounded /\ Tip(s).number - s.blocks[a].number > depth
                 THEN Reject(s, "resync")
            ELSE Ok(ReplaceAbove(s, s.blocks[a].number, branch))
    BY DEF Reorg
  <2> HIDE DEF a
  <2>2. /\ Reorg(s, branch, depth) # Reject(s, "unknownAncestor")
        /\ Reorg(s, branch, depth) # Reject(s, "broken")
        /\ Reorg(s, branch, depth) # Reject(s, "resync")
    BY DEF Reject
  <2>3. ASSUME NEW r PROVE Ok(r).store = r
    BY DEF Ok
  <2>4. Reorg(s, branch, depth) = Ok(ReplaceAbove(s, s.blocks[a].number, branch))
    BY <2>1, <2>2
  <2> QED BY <2>1, <2>2, <2>3, <2>4
<1>3. At \in SUBSET (1..Len(s.blocks)) /\ a = Lowest(At)
  BY <1>2 DEF Indices, IndexByNumber
<1>4. a \in At
  <2> HIDE DEF At, a
  <2>1. Lowest(At) # 0
    BY <1>2, <1>3
  <2> QED BY <2>1, <1>3, LowestProps, Fields
<1> HIDE DEF a
<1>5. a \in 1..Len(s.blocks) /\ s.blocks[a].number = n
  BY <1>4 DEF Indices
<1>6. branch[1] \in Block
  BY EmptySeq, ElementOfSeq
<1>7. Extends(s.blocks[a], branch[1])
  BY <1>2, <1>5, <1>6, BlockAssumption DEF Extends
<1>8. \A i \in 1..Len(s.blocks) : s.finality[i] = Finalized => i <= a
  BY <1>2, <1>5, CheckpointBounds, Fields
<1> QED BY <1>2, <1>5, <1>7, <1>8 DEF Rewrites

\* reorg either leaves the store alone or rewrites it.
LEMMA ReorgShape ==
  ASSUME NEW s, WellFormed(s), NEW branch \in Seq(Block), NEW depth,
         NEW t, t = Reorg(s, branch, depth).store
  PROVE  \/ t = s
         \/ \E a \in 1..Len(s.blocks) :
              /\ Rewrites(s, t, a, branch)
              /\ depth # Unbounded => ~(Tip(s).number - s.blocks[a].number > depth)
<1>1. SUFFICES ASSUME t # s PROVE branch # <<>> /\ Reorg(s, branch, depth).err = "ok"
  BY ReorgAccepts
<1>2. branch # <<>>
  BY <1>1 DEF Reorg, Ok
<1>3. Reorg(s, branch, depth).err = "ok"
  BY <1>1 DEF Reorg, Ok, Reject
<1> QED BY <1>2, <1>3

\* Rewriting keeps the store well formed and its finalized blocks in place.
LEMMA RewritePreserves ==
  ASSUME NEW s, WellFormed(s), NEW t, NEW a, NEW branch \in Seq(Block),
         Rewrites(s, t, a, branch)
  PROVE  WellFormed(t) /\ KeepsFinalized(s, t)
<1>1. /\ WellFormed(t) /\ Len(t.blocks) = a + Len(branch)
      /\ \A i \in 1..a : t.blocks[i] = s.blocks[i] /\ t.finality[i] = s.finality[i]
  BY RewriteShape DEF Rewritten
<1>2. Len(branch) \in Nat /\ a \in 1..Len(s.blocks)
  BY LenProperties DEF Rewrites
<1>3. ASSUME NEW i \in 1..Len(s.blocks), s.finality[i] = Finalized
      PROVE  /\ i \in 1..Len(t.blocks)
             /\ t.blocks[i] = s.blocks[i]
             /\ t.finality[i] = Finalized
  <2>1. i <= a
    BY <1>3 DEF Rewrites
  <2>2. i \in 1..a /\ i \in 1..Len(t.blocks)
    BY <2>1, <1>1, <1>2
  <2> QED BY <2>2, <1>1, <1>3
<1> QED BY <1>1, <1>3 DEF KeepsFinalized

\* Reorg and reconcile keep the store well formed and its finalized blocks.
LEMMA ReorgPreserves ==
  ASSUME NEW s, WellFormed(s), NEW branch \in Seq(Block), NEW depth
  PROVE  /\ WellFormed(Reorg(s, branch, depth).store)
         /\ KeepsFinalized(s, Reorg(s, branch, depth).store)
<1> DEFINE t == Reorg(s, branch, depth).store
<1>1. CASE t = s
  BY <1>1, Fields DEF KeepsFinalized
<1>2. CASE t # s
  <2> HIDE DEF t
  <2>1. PICK a : Rewrites(s, t, a, branch)
    BY <1>2, ReorgShape DEF t
  <2> QED BY <2>1, RewritePreserves DEF t
<1> QED BY <1>1, <1>2

\* What is left of a sequence after its first h elements.
LEMMA Suffix ==
  ASSUME NEW bs \in Seq(Block), NEW h \in 0..Len(bs)
  PROVE  /\ SubSeq(bs, h + 1, Len(bs)) \in Seq(Block)
         /\ Len(SubSeq(bs, h + 1, Len(bs))) = Len(bs) - h
         /\ \A i \in 1..(Len(bs) - h) : SubSeq(bs, h + 1, Len(bs))[i] = bs[h + i]
<1>1. Len(bs) \in Nat /\ \A i \in (h + 1)..Len(bs) : bs[i] \in Block
  BY LenProperties, ElementOfSeq
<1>2. h + 1 \in Int /\ Len(bs) \in Int
  BY <1>1
<1>3. /\ SubSeq(bs, h + 1, Len(bs)) \in Seq(Block)
      /\ Len(SubSeq(bs, h + 1, Len(bs)))
           = IF h + 1 <= Len(bs) THEN Len(bs) - (h + 1) + 1 ELSE 0
      /\ \A i \in 1..(Len(bs) - (h + 1) + 1) :
           SubSeq(bs, h + 1, Len(bs))[i] = bs[(h + 1) + i - 1]
  BY <1>1, <1>2, SubSeqProperties
<1> QED BY <1>1, <1>3

\* What reconcile hands to reorg are blocks of the candidate up to its last one,
\* or it left the store alone.
LEMMA ReconcileShape ==
  ASSUME NEW s, WellFormed(s), NEW candidate \in Seq(Block), NEW depth
  PROVE  \/ Reconcile(s, candidate, depth).store = s
         \/ \E branch \in Seq(Block) :
              /\ \A i \in 1..Len(branch) : \E k \in 1..Len(candidate) : branch[i] = candidate[k]
              /\ branch # <<>> => branch[Len(branch)] = candidate[Len(candidate)]
              /\ Reconcile(s, candidate, depth) = Reorg(s, branch, depth)
<1> DEFINE S == {i \in 1..Len(candidate) : Stored(s, candidate[i])}
           rest == SubSeq(candidate, Highest(S) + 1, Len(candidate))
<1>1. Len(candidate) \in Nat /\ S \in SUBSET (1..Len(candidate))
  BY LenProperties
<1>2. Highest(S) \in 0..Len(candidate)
  <2> HIDE DEF S
  <2> QED BY <1>1, HighestProps
<1>3. /\ rest \in Seq(Block)
      /\ \A i \in 1..Len(rest) : \E k \in 1..Len(candidate) : rest[i] = candidate[k]
      /\ rest # <<>> => rest[Len(rest)] = candidate[Len(candidate)]
  <2> DEFINE h == Highest(S)
  <2>0. h \in 0..Len(candidate)
    BY <1>2
  <2> HIDE DEF S, h
  <2>2. /\ SubSeq(candidate, h + 1, Len(candidate)) \in Seq(Block)
        /\ Len(SubSeq(candidate, h + 1, Len(candidate))) = Len(candidate) - h
        /\ \A i \in 1..(Len(candidate) - h) :
             SubSeq(candidate, h + 1, Len(candidate))[i] = candidate[h + i]
    BY <2>0, Suffix
  <2>3. ASSUME NEW i \in 1..(Len(candidate) - h)
        PROVE  \E k \in 1..Len(candidate) : SubSeq(candidate, h + 1, Len(candidate))[i] = candidate[k]
    <3>1. h + i \in 1..Len(candidate)
      BY <1>1, <2>0
    <3> QED BY <2>2, <3>1
  <2> DEFINE tail == SubSeq(candidate, h + 1, Len(candidate))
  <2>4. ASSUME tail # <<>> PROVE tail[Len(tail)] = candidate[Len(candidate)]
    <3>1. Len(candidate) - h > 0
      BY <1>1, <2>0, <2>2, <2>4, EmptySeq
    <3>2. Len(candidate) - h \in 1..(Len(candidate) - h) /\ h + (Len(candidate) - h) = Len(candidate)
      BY <1>1, <2>0, <3>1
    <3> QED BY <2>2, <3>2
  <2> QED BY <2>2, <2>3, <2>4 DEF h
<1>4. CASE candidate # <<>> /\ Linear(candidate)
  <2>1. Reconcile(s, candidate, depth) = Reorg(s, rest, depth)
    BY <1>4 DEF Reconcile
  <2> QED BY <1>3, <2>1
<1>5. CASE ~(candidate # <<>> /\ Linear(candidate))
  BY <1>5 DEF Reconcile, Ok, Reject
<1> QED BY <1>4, <1>5

\* Reconcile, at any depth, keeps a store well formed and its finalized blocks.
LEMMA ReconcilePreserves ==
  ASSUME NEW s, WellFormed(s), NEW candidate \in Seq(Block), NEW depth
  PROVE  /\ WellFormed(Reconcile(s, candidate, depth).store)
         /\ KeepsFinalized(s, Reconcile(s, candidate, depth).store)
<1>1. CASE Reconcile(s, candidate, depth).store = s
  BY <1>1, Fields DEF KeepsFinalized
<1>2. CASE Reconcile(s, candidate, depth).store # s
  BY <1>2, ReconcileShape, ReorgPreserves
<1> QED BY <1>1, <1>2

-----------------------------------------------------------------------------
(* Finality.                                                               *)

\* Raising a prefix keeps the store well formed and lowers no block.
LEMMA RaiseWellFormed ==
  ASSUME NEW s, WellFormed(s), NEW k \in 0..Len(s.blocks), NEW level \in Seen..Finalized
  PROVE  /\ WellFormed(RaiseFinality(s, k, level))
         /\ RaiseFinality(s, k, level).blocks = s.blocks
         /\ KeepsFinalized(s, RaiseFinality(s, k, level))
<1> DEFINE raised(j) == IF j <= k /\ s.finality[j] < level THEN level ELSE s.finality[j]
           fs == [j \in 1..Len(s.finality) |-> raised(j)]
           t == RaiseFinality(s, k, level)
<1>1. DOMAIN s.finality = 1..Len(s.finality)
  BY Fields, LenProperties
<1>2. t = [blocks |-> s.blocks, finality |-> fs, state |-> s.state]
  BY <1>1, Fields DEF RaiseFinality
<1>3. \A j \in 1..Len(s.finality) : raised(j) \in Seen..Finalized
  BY Fields
<1>4. /\ fs \in Seq(Seen..Finalized) /\ Len(fs) = Len(s.finality)
      /\ \A j \in 1..Len(s.finality) : fs[j] = raised(j)
  <2> HIDE DEF raised
  <2>1. Len(s.finality) \in Nat
    BY Fields
  <2> QED BY <1>3, <2>1, IsASeq
<1>5. Prefix(fs)
  <2> SUFFICES ASSUME NEW i \in 1..Len(s.finality), NEW j \in 1..Len(s.finality), i <= j
               PROVE  raised(j) <= raised(i)
    BY <1>4 DEF Prefix
  <2>1. s.finality[j] <= s.finality[i]
    BY DEF WellFormed, Prefix
  <2>2. s.finality[i] \in 0..2 /\ s.finality[j] \in 0..2 /\ level \in 0..2
    BY Fields DEF Seen, Finalized
  <2> QED BY <2>1, <2>2
<1>6. KeepsFinalized(s, t)
  <2> SUFFICES \A i \in 1..Len(s.blocks) : s.finality[i] = Finalized => fs[i] = Finalized
    <3> HIDE DEF fs, raised, t
    <3>1. t.finality = fs /\ t.blocks = s.blocks
      BY <1>2
    <3>2. \A i \in 1..Len(s.blocks) : t.blocks[i] = s.blocks[i]
      BY <3>1
    <3>3. Len(t.blocks) = Len(s.blocks) /\ Len(t.blocks) \in Nat
      BY <3>1, Fields
    <3> QED BY <3>1, <3>2, <3>3 DEF KeepsFinalized
  <2> SUFFICES ASSUME NEW i \in 1..Len(s.blocks), s.finality[i] = Finalized
               PROVE  fs[i] = Finalized
    OBVIOUS
  <2>1. i \in 1..Len(s.finality) /\ level <= Finalized
    BY Fields DEF Seen, Finalized
  <2> QED BY <1>4, <2>1 DEF Finalized
<1> HIDE DEF fs, raised
<1>7. WellFormed(t)
  BY <1>2, <1>4, <1>5, Fields DEF WellFormed
<1> QED BY <1>2, <1>6, <1>7

\* MarkFinality leaves the store alone or raises a prefix of it.
LEMMA MarkShape ==
  ASSUME NEW s, WellFormed(s), NEW hash, NEW level \in Nat,
         NEW t, t = MarkFinality(s, hash, level).store
  PROVE  t = s \/ \E k \in 0..Len(s.blocks) :
                   level \in Seen..Finalized /\ t = RaiseFinality(s, k, level)
<1> DEFINE At == {i \in Indices(s) : s.blocks[i].hash = hash}
<1>1. At \in SUBSET (1..Len(s.blocks)) /\ IndexByHash(s, hash) = Lowest(At)
  BY DEF Indices, IndexByHash
<1>2. IndexByHash(s, hash) \in 0..Len(s.blocks)
  <2> HIDE DEF At
  <2> QED BY <1>1, LowestProps, Fields
<1>3. t = s \/ (t = RaiseFinality(s, IndexByHash(s, hash), level) /\ ~(level > Finalized))
  BY DEF MarkFinality, Ok, Reject
<1> QED BY <1>2, <1>3 DEF Seen, Finalized

\* MarkFinality keeps a store well formed, its blocks and its finalized blocks.
LEMMA MarkPreserves ==
  ASSUME NEW s, WellFormed(s), NEW hash, NEW level \in Nat
  PROVE  /\ WellFormed(MarkFinality(s, hash, level).store)
         /\ MarkFinality(s, hash, level).store.blocks = s.blocks
         /\ KeepsFinalized(s, MarkFinality(s, hash, level).store)
<1> DEFINE t == MarkFinality(s, hash, level).store
<1>1. CASE t = s
  BY <1>1, Fields DEF KeepsFinalized
<1>2. CASE t # s
  <2> HIDE DEF t
  <2>1. PICK k \in 0..Len(s.blocks) :
          level \in Seen..Finalized /\ t = RaiseFinality(s, k, level)
    BY <1>2, MarkShape DEF t
  <2> QED BY <2>1, RaiseWellFormed DEF t
<1> QED BY <1>1, <1>2

\* MarkCheckpoints publishes both updates or neither.
LEMMA CheckpointsPreserve ==
  ASSUME NEW s, WellFormed(s), NEW safe, NEW finalized
  PROVE  /\ WellFormed(MarkCheckpoints(s, safe, finalized).store)
         /\ MarkCheckpoints(s, safe, finalized).store.blocks = s.blocks
         /\ KeepsFinalized(s, MarkCheckpoints(s, safe, finalized).store)
<1> DEFINE u == MarkOptional(s, safe, Safe).store
           t == MarkOptional(u, finalized, Finalized).store
<1>1. WellFormed(u) /\ u.blocks = s.blocks /\ KeepsFinalized(s, u)
  <2>1. CASE safe = NoHash
    BY <2>1, Fields DEF MarkOptional, Ok, KeepsFinalized
  <2>2. CASE safe # NoHash
    <3>1. Safe \in Nat
      BY DEF Safe
    <3> QED BY <2>2, <3>1, MarkPreserves DEF MarkOptional
  <2> QED BY <2>1, <2>2
<1> HIDE DEF u
<1>2. WellFormed(t) /\ t.blocks = u.blocks /\ KeepsFinalized(u, t)
  <2>1. CASE finalized = NoHash
    BY <1>1, <2>1, Fields DEF MarkOptional, Ok, KeepsFinalized
  <2>2. CASE finalized # NoHash
    <3>1. Finalized \in Nat
      BY DEF Finalized
    <3> QED BY <1>1, <2>2, <3>1, MarkPreserves DEF MarkOptional
  <2> QED BY <2>1, <2>2
<1> HIDE DEF t
<1>3. KeepsFinalized(s, t)
  BY <1>1, <1>2 DEF KeepsFinalized
<1>4. \/ MarkCheckpoints(s, safe, finalized).store = s
      \/ MarkCheckpoints(s, safe, finalized).store = t
  BY DEF MarkCheckpoints, Ok, Reject, t, u
<1>5. KeepsFinalized(s, s)
  BY Fields DEF KeepsFinalized
<1> QED BY <1>1, <1>2, <1>3, <1>4, <1>5

-----------------------------------------------------------------------------
(* How many blocks are finalized.                                          *)

\* The number of finalized blocks: the finalized ones are blocks 1..that.
LEMMA FinalCount ==
  ASSUME NEW s, WellFormed(s)
  PROVE  /\ checkpointIndex(s, Finalized) \in 0..Len(s.blocks)
         /\ \A i \in 1..Len(s.blocks) :
              s.finality[i] = Finalized <=> i <= checkpointIndex(s, Finalized)
<1> DEFINE Fin == {j \in Indices(s) : s.finality[j] >= Finalized}
           c == Highest(Fin)
<1>1. checkpointIndex(s, Finalized) = c
  BY DEF checkpointIndex, Finalized
<1>2. Fin \in SUBSET (1..Len(s.blocks))
  BY DEF Indices
<1>3. \A j \in 1..Len(s.blocks) : j \in Fin <=> s.finality[j] = Finalized
  BY Fields DEF Indices, Seen, Finalized
<1> HIDE DEF Fin
<1>4. /\ Fin # {} => c \in Fin
      /\ Fin = {} => c = 0
      /\ c \in 0..Len(s.blocks)
      /\ \A j \in Fin : j <= c
  BY <1>2, HighestProps, Fields
<1> HIDE DEF c
<1>5. ASSUME NEW i \in 1..Len(s.blocks), i <= c
      PROVE  s.finality[i] = Finalized
  <2>1. c \in Fin /\ c \in 1..Len(s.blocks)
    BY <1>4, <1>5
  <2>2. s.finality[c] = Finalized /\ s.finality[c] <= s.finality[i]
    <3>1. i \in 1..Len(s.finality) /\ c \in 1..Len(s.finality)
      BY <2>1, Fields
    <3> QED BY <1>3, <1>5, <2>1, <3>1 DEF WellFormed, Prefix
  <2>3. s.finality[i] \in 0..2
    BY Fields DEF Seen, Finalized
  <2> QED BY <2>2, <2>3 DEF Finalized
<1> QED BY <1>1, <1>3, <1>4, <1>5

\* Two stores whose finalized blocks are at the same indices count as many.
LEMMA SameCount ==
  ASSUME NEW s, WellFormed(s), NEW t, WellFormed(t), NEW a \in Nat,
         a <= Len(s.blocks), a <= Len(t.blocks),
         \A i \in 1..a : t.finality[i] = s.finality[i],
         \A i \in 1..Len(s.blocks) : s.finality[i] = Finalized => i <= a,
         \A i \in 1..Len(t.blocks) : t.finality[i] = Finalized => i <= a
  PROVE  checkpointIndex(t, Finalized) = checkpointIndex(s, Finalized)
<1> DEFINE m == checkpointIndex(s, Finalized)  n == checkpointIndex(t, Finalized)
<1>1. m \in 0..Len(s.blocks) /\ n \in 0..Len(t.blocks)
  BY FinalCount
<1>2. /\ \A i \in 1..Len(s.blocks) : s.finality[i] = Finalized <=> i <= m
      /\ \A i \in 1..Len(t.blocks) : t.finality[i] = Finalized <=> i <= n
  BY FinalCount
<1> HIDE DEF m, n
<1>3. m <= a /\ n <= a
  BY <1>1, <1>2
<1>4. m \in 1..a => m <= n
  BY <1>2
<1>5. n \in 1..a => n <= m
  BY <1>2
<1>6. m = n
  BY <1>1, <1>3, <1>4, <1>5
<1> QED BY <1>6 DEF m, n

\* One more block that is merely seen does not change the count.
LEMMA AppendKeepsCount ==
  ASSUME NEW s, WellFormed(s), NEW t, WellFormed(t),
         Len(t.blocks) = Len(s.blocks) + 1,
         \A i \in 1..Len(s.blocks) : t.finality[i] = s.finality[i],
         t.finality[Len(s.blocks) + 1] = Seen
  PROVE  checkpointIndex(t, Finalized) = checkpointIndex(s, Finalized)
<1> DEFINE a == Len(s.blocks)
<1>1. a \in Nat /\ a <= Len(s.blocks) /\ a <= Len(t.blocks)
  BY Fields
<1>2. ASSUME NEW i \in 1..Len(t.blocks), t.finality[i] = Finalized
      PROVE  i <= a
  <2>1. i # a + 1
    BY <1>2 DEF Seen, Finalized
  <2> QED BY <2>1, <1>1
<1>3. \A i \in 1..Len(s.blocks) : s.finality[i] = Finalized => i <= a
  BY <1>1
<1> QED BY <1>1, <1>2, <1>3, SameCount

\* A rewrite above block a has as many finalized blocks as before.
LEMMA RewriteKeepsCount ==
  ASSUME NEW s, WellFormed(s), NEW t, NEW a, NEW branch \in Seq(Block),
         Rewrites(s, t, a, branch)
  PROVE  checkpointIndex(t, Finalized) = checkpointIndex(s, Finalized)
<1>1. /\ WellFormed(t) /\ Len(t.blocks) = a + Len(branch)
      /\ \A i \in 1..a : t.finality[i] = s.finality[i]
      /\ \A i \in 1..Len(branch) : t.finality[a + i] = Seen
  BY RewriteShape DEF Rewritten
<1>2. a \in 1..Len(s.blocks) /\ Len(branch) \in Nat
  BY LenProperties DEF Rewrites
<1>3. \A i \in 1..Len(t.blocks) : t.finality[i] = Finalized => i <= a
  <2> SUFFICES ASSUME NEW i \in 1..(a + Len(branch)), ~(i <= a)
               PROVE  t.finality[i] # Finalized
    BY <1>1
  <2>1. i - a \in 1..Len(branch) /\ a + (i - a) = i
    BY <1>2
  <2> QED BY <1>1, <2>1 DEF Seen, Finalized
<1>4. a \in Nat /\ a <= Len(s.blocks) /\ a <= Len(t.blocks)
  BY <1>1, <1>2
<1> QED BY <1>1, <1>3, <1>4, SameCount DEF Rewrites

-----------------------------------------------------------------------------
(* Shared history: what reconcile leaves in place.                         *)

\* Two linear sequences that share a block share its ancestors, as far as both
\* reach back.
LEMMA CommonPast ==
  ASSUME NEW bs \in Seq(Block), Linear(bs), NEW cs \in Seq(Block), Linear(cs),
         NEW i \in 1..Len(bs), NEW k \in 1..Len(cs), bs[i].hash = cs[k].hash
  PROVE  \A d \in Nat : d < i /\ d < k => bs[i - d].hash = cs[k - d].hash
<1> DEFINE Bad == {d \in Nat : d < i /\ d < k /\ bs[i - d].hash # cs[k - d].hash}
<1>1. SUFFICES ASSUME Bad # {} PROVE FALSE
  OBVIOUS
<1>2. PICK d \in Bad : \A e \in Bad : d <= e
  <2>1. Bad \in SUBSET Nat
    OBVIOUS
  <2> HIDE DEF Bad
  <2> QED BY <1>1, <2>1, Least
<1>3. d \in Nat /\ d < i /\ d < k /\ bs[i - d].hash # cs[k - d].hash
  BY <1>2
<1>4. d # 0
  BY <1>3
<1>5. d - 1 \in Nat /\ d - 1 \notin Bad
  <2>1. d - 1 \in Nat /\ ~(d <= d - 1)
    BY <1>3, <1>4
  <2> HIDE DEF Bad
  <2> QED BY <1>2, <2>1
<1>6. bs[i - (d - 1)].hash = cs[k - (d - 1)].hash
  BY <1>3, <1>5
<1>7. PICK m : m = i - (d - 1) /\ m \in 2..Len(bs) /\ m - 1 = i - d
  BY <1>3, <1>4
<1>8. PICK n : n = k - (d - 1) /\ n \in 2..Len(cs) /\ n - 1 = k - d
  BY <1>3, <1>4
<1>9. bs[m].parent = bs[i - d].hash /\ cs[n].parent = cs[k - d].hash
  BY <1>7, <1>8 DEF Linear, Extends
<1>10. bs[m] \in Block /\ cs[n] \in Block
  BY <1>7, <1>8, ElementOfSeq
<1>11. bs[m].parent = cs[n].parent
  BY <1>6, <1>7, <1>8, <1>10, BlockAssumption
<1> QED BY <1>3, <1>9, <1>11

\* A block is stored when some stored block has its hash: the height says where.
LEMMA StoredAt ==
  ASSUME NEW s, WellFormed(s), NEW b \in Block
  PROVE  Stored(s, b) <=> \E i \in 1..Len(s.blocks) : s.blocks[i].hash = b.hash
<1> DEFINE At == {i \in Indices(s) : s.blocks[i].number = b.number}
<1>1. /\ s.blocks \in Seq(Block) /\ Len(s.blocks) \in Nat
      /\ At \in SUBSET (1..Len(s.blocks))
  BY Fields DEF Indices
<1>2. Stored(s, b) <=> Lowest(At) # 0 /\ s.blocks[Lowest(At)].hash = b.hash
  BY DEF Stored, IndexByNumber
<1>3. ASSUME Stored(s, b) PROVE \E i \in 1..Len(s.blocks) : s.blocks[i].hash = b.hash
  <2> HIDE DEF At
  <2>1. Lowest(At) \in At
    BY <1>1, <1>2, <1>3, LowestProps
  <2> QED BY <1>1, <1>2, <1>3, <2>1
<1>4. ASSUME NEW i \in 1..Len(s.blocks), s.blocks[i].hash = b.hash
      PROVE  Stored(s, b)
  <2>1. s.blocks[i] \in Block
    BY <1>1, ElementOfSeq
  <2>2. s.blocks[i].number = b.number
    BY <1>4, <2>1, BlockAssumption
  <2>3. i \in At
    BY <2>2 DEF Indices
  <2>4. Lowest(At) \in At
    <3> HIDE DEF At
    <3> QED BY <1>1, <2>3, LowestProps
  <2>5. PICK l : l = Lowest(At)
    OBVIOUS
  <2>6. l \in 1..Len(s.blocks) /\ s.blocks[l].number = b.number
    BY <2>4, <2>5 DEF Indices
  <2>7. \A j \in 1..Len(s.blocks) : s.blocks[j].number = s.blocks[1].number + j - 1
    BY <1>1, Consecutive DEF WellFormed
  <2>8. s.blocks[1].number \in Nat
    BY <1>1, <2>6, ElementOfSeq, BlockAssumption
  <2>9. l = i
    BY <2>2, <2>6, <2>7, <2>8
  <2>10. l # 0 /\ s.blocks[l].hash = b.hash
    BY <1>4, <2>6, <2>9
  <2> HIDE DEF At
  <2> QED BY <1>2, <2>5, <2>10
<1> QED BY <1>3, <1>4

\* An accepted candidate is either known to its end, and changes nothing, or what
\* lies above its newest stored block h is put above that block.
LEMMA ReconcileAccepts ==
  ASSUME NEW s, WellFormed(s), NEW c \in Seq(Block), c # <<>>, NEW depth,
         Reconcile(s, c, depth).err = "ok",
         NEW t, t = Reconcile(s, c, depth).store
  PROVE  /\ Linear(c)
         /\ \/ t = s /\ Stored(s, c[Len(c)])
            \/ \E h \in 0..(Len(c) - 1), a \in 1..Len(s.blocks) :
                 /\ Rewrites(s, t, a, SubSeq(c, h + 1, Len(c)))
                 /\ h # 0 => Stored(s, c[h])
                 /\ \A k \in 1..Len(c) : Stored(s, c[k]) => k <= h
<1> DEFINE S == {k \in 1..Len(c) : Stored(s, c[k])}
<1>1. Len(c) \in Nat /\ Len(c) # 0 /\ S \in SUBSET (1..Len(c))
  BY LenProperties, EmptySeq
<1>2. PICK h : h = Highest(S)
  OBVIOUS
<1>3. Linear(c) /\ Reconcile(s, c, depth) = Reorg(s, SubSeq(c, h + 1, Len(c)), depth)
  BY <1>2 DEF Reconcile, Reject
<1>4. h \in 0..Len(c) /\ (h # 0 => h \in S) /\ \A k \in S : k <= h
  <2> HIDE DEF S
  <2> QED BY <1>1, <1>2, HighestProps
<1>5. CASE h = Len(c)
  <2>1. SubSeq(c, h + 1, Len(c)) = <<>>
    BY <1>1, <1>5, SubSeqEmpty
  <2>2. t = s
    BY <1>3, <2>1 DEF Reorg, Ok
  <2> QED BY <1>1, <1>3, <1>4, <1>5, <2>2
<1>6. CASE h # Len(c)
  <2>1. PICK branch \in Seq(Block) : branch = SubSeq(c, h + 1, Len(c))
    BY <1>4, Suffix
  <2>2. Len(branch) = Len(c) - h
    BY <1>4, <2>1, Suffix
  <2>3. branch # <<>>
    BY <1>1, <1>4, <1>6, <2>2, EmptySeq
  <2>4. PICK a \in 1..Len(s.blocks) : Rewrites(s, t, a, branch)
    BY <1>3, <2>1, <2>3, ReorgAccepts
  <2>5. h \in 0..(Len(c) - 1)
    BY <1>1, <1>4, <1>6
  <2> QED BY <1>3, <1>4, <2>1, <2>4, <2>5
<1> QED BY <1>5, <1>6

\* Handing in a candidate whose last block is stored changes nothing.
LEMMA ReconcileKnown ==
  ASSUME NEW s, NEW c \in Seq(Block), c # <<>>, Linear(c), Stored(s, c[Len(c)]), NEW depth
  PROVE  Reconcile(s, c, depth) = Ok(s)
<1> DEFINE S == {k \in 1..Len(c) : Stored(s, c[k])}
<1>1. Len(c) \in Nat /\ Len(c) # 0 /\ S \in SUBSET (1..Len(c))
  BY LenProperties, EmptySeq
<1>2. Len(c) \in S
  BY <1>1
<1>3. Highest(S) = Len(c)
  <2> HIDE DEF S
  <2>1. Highest(S) \in S /\ \A k \in S : k <= Highest(S)
    BY <1>1, <1>2, HighestProps
  <2>2. Highest(S) \in 1..Len(c) /\ Len(c) <= Highest(S)
    BY <1>1, <1>2, <2>1
  <2> QED BY <1>1, <2>2
<1>4. SubSeq(c, Len(c) + 1, Len(c)) = <<>>
  BY <1>1, SubSeqEmpty
<1> QED BY <1>3, <1>4 DEF Reconcile, Reorg

\* Every block of a candidate below one that is stored is stored too, down to the
\* oldest block of the store.
LEMMA PastStored ==
  ASSUME NEW s, WellFormed(s), NEW c \in Seq(Block), Linear(c),
         NEW h \in 1..Len(c), NEW a \in 1..Len(s.blocks), s.blocks[a].hash = c[h].hash,
         NEW k \in 1..h, c[k].number >= s.blocks[1].number
  PROVE  Stored(s, c[k])
<1>1. /\ s.blocks \in Seq(Block) /\ Linear(s.blocks) /\ Len(s.blocks) \in Nat /\ Len(c) \in Nat
      /\ k \in 1..Len(c)
  BY Fields, LenProperties DEF WellFormed
<1>2. c[k] \in Block /\ c[h] \in Block /\ s.blocks[a] \in Block /\ s.blocks[1] \in Block /\ c[1] \in Block
  BY <1>1, ElementOfSeq
<1>3. /\ s.blocks[a].number = s.blocks[1].number + a - 1
      /\ c[h].number = c[1].number + h - 1 /\ c[k].number = c[1].number + k - 1
  BY <1>1, Consecutive
<1>4. s.blocks[a].number = c[h].number
  BY <1>2, BlockAssumption
<1>5. s.blocks[1].number \in Nat /\ c[1].number \in Nat
  BY <1>2, BlockAssumption
<1>6. h - k \in Nat /\ h - k < h /\ h - k < a
  <2>1. PICK x, y : x = s.blocks[1].number /\ y = c[1].number
    OBVIOUS
  <2>2. /\ x \in Nat /\ y \in Nat
        /\ x + a - 1 = y + h - 1 /\ y + k - 1 >= x
    BY <1>3, <1>4, <1>5, <2>1
  <2>3. a \in Nat \ {0} /\ h \in Nat /\ k \in Nat \ {0} /\ k <= h
    BY <1>1
  <2> QED BY <2>2, <2>3
<1>7. PICK j : j = a - (h - k) /\ j \in 1..Len(s.blocks)
  BY <1>1, <1>6
<1>8. s.blocks[j].hash = c[h - (h - k)].hash
  BY <1>1, <1>6, <1>7, CommonPast
<1>9. h - (h - k) = k
  OBVIOUS
<1> QED BY <1>2, <1>7, <1>8, <1>9, StoredAt

\* What an accepted candidate leaves: its blocks are stored, what it agrees with
\* is where it was, and the same candidate is known to its end.
LEMMA ReconcileLeaves ==
  ASSUME NEW s, WellFormed(s), NEW c \in Seq(Block), c # <<>>, NEW depth,
         Reconcile(s, c, depth).err = "ok",
         NEW t, t = Reconcile(s, c, depth).store
  PROVE  /\ \A k \in 1..Len(c) : c[k].number >= s.blocks[1].number => Stored(t, c[k])
         /\ \A i \in 1..Len(s.blocks), k \in 1..Len(c) : c[k].hash = s.blocks[i].hash =>
              /\ i \in 1..Len(t.blocks)
              /\ t.blocks[i] = s.blocks[i]
              /\ t.finality[i] = s.finality[i]
         /\ Reconcile(t, c, depth) = Ok(t)
<1>1. Linear(c) /\ Len(c) \in Nat \ {0} /\ \A k \in 1..Len(c) : c[k] \in Block
  BY ReconcileAccepts, LenProperties, EmptySeq, ElementOfSeq
<1>2. s.blocks \in Seq(Block) /\ Len(s.blocks) \in Nat
      /\ \A i \in 1..Len(s.blocks) : s.blocks[i] \in Block
  BY Fields, ElementOfSeq
<1>3. CASE t = s /\ Stored(s, c[Len(c)])
  <2>1. PICK a \in 1..Len(s.blocks) : s.blocks[a].hash = c[Len(c)].hash
    BY <1>1, <1>3, StoredAt
  <2>2. ASSUME NEW k \in 1..Len(c), c[k].number >= s.blocks[1].number
        PROVE  Stored(t, c[k])
    BY <1>1, <1>3, <2>1, <2>2, PastStored
  <2>3. Reconcile(t, c, depth) = Ok(t)
    BY <1>1, <1>3, ReconcileKnown
  <2> QED BY <1>3, <2>2, <2>3
<1>4. ASSUME NEW h \in 0..(Len(c) - 1), NEW a \in 1..Len(s.blocks),
             Rewrites(s, t, a, SubSeq(c, h + 1, Len(c))),
             h # 0 => Stored(s, c[h]),
             \A k \in 1..Len(c) : Stored(s, c[k]) => k <= h
      PROVE  /\ \A k \in 1..Len(c) : c[k].number >= s.blocks[1].number => Stored(t, c[k])
             /\ \A i \in 1..Len(s.blocks), k \in 1..Len(c) : c[k].hash = s.blocks[i].hash =>
                  /\ i \in 1..Len(t.blocks)
                  /\ t.blocks[i] = s.blocks[i]
                  /\ t.finality[i] = s.finality[i]
             /\ Reconcile(t, c, depth) = Ok(t)
  <2>1. PICK branch \in Seq(Block) :
          /\ branch = SubSeq(c, h + 1, Len(c)) /\ Len(branch) = Len(c) - h
          /\ \A i \in 1..(Len(c) - h) : branch[i] = c[h + i]
    <3>1. h \in 0..Len(c)
      BY <1>1
    <3> QED BY <3>1, Suffix
  <2>2. Rewrites(s, t, a, branch)
    BY <1>4, <2>1
  <2>3. /\ WellFormed(t) /\ Len(t.blocks) = a + Len(branch)
        /\ \A i \in 1..a : t.blocks[i] = s.blocks[i] /\ t.finality[i] = s.finality[i]
        /\ \A i \in 1..Len(branch) : t.blocks[a + i] = branch[i]
    <3>1. Rewritten(s, t, a, branch)
      BY <2>2, RewriteShape
    <3> QED BY <3>1 DEF Rewritten
  <2>4. branch[1] = c[h + 1] /\ Extends(s.blocks[a], c[h + 1])
    BY <1>1, <2>1, <2>2 DEF Rewrites
  <2>5. ASSUME NEW k \in (h + 1)..Len(c) PROVE Stored(t, c[k])
    <3>1. PICK i : i = k - h /\ i \in 1..(Len(c) - h) /\ h + i = k
      BY <1>1
    <3>2. t.blocks[a + i] = c[k] /\ a + i \in 1..Len(t.blocks)
      <4>0. i \in 1..Len(branch) /\ i \in Nat /\ a \in Nat /\ Len(branch) \in Nat
        BY <1>1, <1>2, <2>1, <3>1, LenProperties
      <4>1. i \in 1..Len(branch) /\ a + i \in 1..(a + Len(branch))
        BY <4>0
      <4>2. t.blocks[a + i] = branch[i] /\ branch[i] = c[h + i]
        BY <2>1, <2>3, <3>1, <4>1
      <4> QED BY <2>3, <3>1, <4>1, <4>2
    <3>3. c[k] \in Block
      BY <1>1
    <3> QED BY <2>3, <3>2, <3>3, StoredAt
  <2>6. h # 0 => s.blocks[a].hash = c[h].hash /\ c[h].number = s.blocks[a].number
    <3> SUFFICES ASSUME h # 0
                 PROVE  s.blocks[a].hash = c[h].hash /\ c[h].number = s.blocks[a].number
      OBVIOUS
    <3>1. Extends(c[h], c[h + 1])
      BY <1>1 DEF Linear
    <3>2. s.blocks[a].hash = c[h].hash
      BY <2>4, <3>1 DEF Extends
    <3>3. c[h] \in Block /\ s.blocks[a] \in Block
      BY <1>1, <1>2
    <3> QED BY <3>2, <3>3, BlockAssumption
  <2>7. ASSUME NEW k \in 1..Len(c), c[k].number >= s.blocks[1].number
        PROVE  Stored(t, c[k])
    <3>1. CASE k > h
      BY <1>1, <2>5, <3>1
    <3>2. CASE ~(k > h)
      <4>1. h # 0 /\ h \in 1..Len(c) /\ k \in 1..h
        BY <1>1, <3>2
      <4>2. a \in 1..Len(t.blocks) /\ t.blocks[a].hash = c[h].hash
        BY <1>1, <1>2, <2>1, <2>3, <2>6, <4>1
      <4>3. t.blocks[1] = s.blocks[1]
        BY <1>2, <2>3
      <4> QED BY <1>1, <2>3, <2>7, <4>1, <4>2, <4>3, PastStored
    <3> QED BY <3>1, <3>2
  <2>8. ASSUME NEW i \in 1..Len(s.blocks), NEW k \in 1..Len(c), c[k].hash = s.blocks[i].hash
        PROVE  /\ i \in 1..Len(t.blocks)
               /\ t.blocks[i] = s.blocks[i]
               /\ t.finality[i] = s.finality[i]
    <3>1. Stored(s, c[k])
      BY <1>1, <2>8, StoredAt
    <3>2. k <= h /\ h # 0 /\ h \in 1..Len(c)
      BY <1>1, <1>4, <3>1
    <3>3. s.blocks[i].number = c[k].number
      BY <1>1, <1>2, <2>8, BlockAssumption
    <3>4. /\ c[k].number = c[1].number + k - 1
          /\ c[h].number = c[1].number + h - 1
      BY <1>1, <3>2, Consecutive
    <3>5. /\ s.blocks[i].number = s.blocks[1].number + i - 1
          /\ s.blocks[a].number = s.blocks[1].number + a - 1
      BY <1>2, Consecutive DEF WellFormed
    <3>6. s.blocks[1].number \in Nat /\ c[1].number \in Nat
      <4>1. s.blocks[1] \in Block /\ c[1] \in Block
        BY <1>1, <1>2
      <4> QED BY <4>1, BlockAssumption
    <3>7. i <= a
      <4>1. c[h].number = s.blocks[a].number
        BY <2>6, <3>2
      <4>2. i \in Nat /\ a \in Nat /\ k \in Nat /\ h \in Nat
        BY <1>1, <1>2
      <4>3. PICK x, y : x = s.blocks[1].number /\ y = c[1].number
        OBVIOUS
      <4>4. x \in Nat /\ y \in Nat /\ x + i - 1 = y + k - 1 /\ x + a - 1 = y + h - 1
        BY <3>3, <3>4, <3>5, <3>6, <4>1, <4>3
      <4> QED BY <3>2, <4>2, <4>4
    <3>8. i \in 1..a /\ i \in 1..Len(t.blocks)
      BY <1>1, <1>2, <2>1, <2>3, <3>7
    <3> QED BY <2>3, <3>8
  <2>9. Reconcile(t, c, depth) = Ok(t)
    <3>1. Stored(t, c[Len(c)])
      BY <1>1, <2>5
    <3> QED BY <1>1, <3>1, ReconcileKnown
  <2> QED BY <2>7, <2>8, <2>9
<1> QED BY <1>3, <1>4, ReconcileAccepts
=============================================================================
