--------------------------- MODULE SequenceLemmas ---------------------------
(***************************************************************************)
(* What the proofs of several modules need of numbers and sequences.       *)
(* Induction is done on sets of numbers, for Nat is well-founded: a        *)
(* recursive function on an interval exists, and has its type.             *)
(***************************************************************************)
EXTENDS Integers, SequencesExt, FiniteSetTheorems, SequenceTheorems, WellFoundedInduction, TLAPS

\* A set of natural numbers has a smallest one.
LEMMA SmallestNumber ==
  ASSUME NEW S \in SUBSET Nat, S # {}
  PROVE  \E k \in S : \A j \in S : k <= j
<1> DEFINE R == OpToRel(<, Nat)
<1>1. \A j, k \in Nat : j < k => <<j, k>> \in R
  BY DEF OpToRel
<1>2. IsWellFoundedOn(R, Nat)
  BY NatLessThanWellFounded, Zenon
<1> HIDE DEF R
<1>3. PICK k \in S : \A j \in S : ~(<<j, k>> \in R)
  BY <1>2, WFMin
<1>4. \A j \in S : ~(j < k)
  BY <1>1, <1>3
<1> QED
  BY <1>3, <1>4

\* A set that has 0, and with a number the next one, has every number up to n.
LEMMA SetInduction ==
  ASSUME NEW n \in Nat, NEW T, 0 \in T, \A m \in 0 .. n - 1 : m \in T => m + 1 \in T
  PROVE  n \in T
<1> SUFFICES ASSUME n \notin T PROVE FALSE
  OBVIOUS
<1> DEFINE Out == {m \in 0 .. n : m \notin T}
<1>1. Out \in SUBSET Nat /\ Out # {}
  OBVIOUS
<1>2. PICK k \in Out : \A j \in Out : k <= j
  <2> HIDE DEF Out
  <2> QED
    BY <1>1, SmallestNumber
<1>3. k # 0 /\ k - 1 \in 0 .. n - 1
  OBVIOUS
<1>4. k - 1 \in Out
  BY <1>3
<1> QED
  BY <1>2, <1>3, <1>4

\* An ordering of a finite set is a sequence of its elements.
LEMMA OrderingIsSeq ==
  ASSUME NEW S, IsFiniteSet(S), NEW s \in SetToSeqs(S)
  PROVE  s \in Seq(S)
<1>1. Cardinality(S) \in Nat
  BY FS_CardinalityType
<1>2. s \in [1 .. Cardinality(S) -> S]
  BY DEF SetToSeqs
<1> QED
  BY <1>1, <1>2, SeqDef

\* f is the concatenation of the first 1, 2, ... m of the sequences.
Accumulates(f, seqs, m) ==
  \A i \in 1 .. m : f[i] = IF i = 1 THEN seqs[i] ELSE f[i - 1] \o seqs[i]

\* The recursive function of FlattenSeq exists by induction on the length, and its
\* values are sequences over S if those it is given are.
LEMMA FlattenUnfolds ==
  ASSUME NEW S, NEW seqs \in Seq(Seq(S)), Len(seqs) # 0
  PROVE  \E c : /\ \A i \in 1 .. Len(seqs) : c[i] \in Seq(S)
                /\ Accumulates(c, seqs, Len(seqs)) /\ FlattenSeq(seqs) = c[Len(seqs)]
<1> DEFINE n == Len(seqs)
           T == {m \in 0 .. n : \E f \in [1 .. m -> Seq(S)] : Accumulates(f, seqs, m)}
<1>1. n \in Nat /\ \A i \in 1 .. n : seqs[i] \in Seq(S)
  BY LenProperties, ElementOfSeq
<1> HIDE DEF n
<1>2. 0 \in T
  <2> DEFINE f == [i \in 1 .. 0 |-> <<>>]
  <2>1. f \in [1 .. 0 -> Seq(S)] /\ Accumulates(f, seqs, 0)
    BY DEF Accumulates
  <2>2. 0 \in 0 .. n
    BY <1>1
  <2> HIDE DEF f
  <2>3. \E h \in [1 .. 0 -> Seq(S)] : Accumulates(h, seqs, 0)
    BY <2>1
  <2> QED
    BY <2>2, <2>3
<1>3. ASSUME NEW m \in 0 .. n - 1, m \in T
      PROVE  m + 1 \in T
  <2>1. PICK f \in [1 .. m -> Seq(S)] : Accumulates(f, seqs, m)
    BY <1>3
  <2> DEFINE g == [i \in 1 .. m + 1 |->
                     IF i <= m THEN f[i]
                     ELSE IF i = 1 THEN seqs[i] ELSE f[i - 1] \o seqs[i]]
  <2>2. g \in [1 .. m + 1 -> Seq(S)]
    <3> SUFFICES ASSUME NEW i \in 1 .. m + 1 PROVE g[i] \in Seq(S)
      OBVIOUS
    <3>1. CASE i <= m
      BY <1>1, <3>1
    <3>2. CASE i = m + 1 /\ i = 1
      BY <1>1, <3>2
    <3>3. CASE i = m + 1 /\ i # 1
      <4>1. f[i - 1] \in Seq(S) /\ seqs[i] \in Seq(S)
        BY <1>1, <3>3
      <4>2. f[i - 1] \o seqs[i] \in Seq(S)
        BY <4>1, ConcatProperties
      <4> QED
        BY <3>3, <4>2
    <3> QED
      BY <1>1, <3>1, <3>2, <3>3
  <2>3. Accumulates(g, seqs, m + 1)
    <3> SUFFICES ASSUME NEW i \in 1 .. m + 1
                 PROVE  g[i] = IF i = 1 THEN seqs[i] ELSE g[i - 1] \o seqs[i]
      BY DEF Accumulates
    <3>0. \A j \in 1 .. m : g[j] = f[j]
      BY <1>1
    <3>1. CASE i <= m
      <4>1. g[i] = f[i] /\ (i # 1 => g[i - 1] = f[i - 1])
        BY <1>1, <3>0, <3>1
      <4> HIDE DEF g, T
      <4>2. i \in 1 .. m
        BY <1>1, <3>1
      <4>3. f[i] = IF i = 1 THEN seqs[i] ELSE f[i - 1] \o seqs[i]
        BY <2>1, <4>2 DEF Accumulates
      <4> QED
        BY <4>1, <4>3
    <3>2. CASE i = m + 1
      <4>1. g[i] = IF i = 1 THEN seqs[i] ELSE f[i - 1] \o seqs[i]
        BY <1>1, <3>2
      <4>2. i # 1 => g[i - 1] = f[i - 1]
        BY <1>1, <3>0, <3>2
      <4> HIDE DEF g
      <4> QED
        BY <4>1, <4>2
    <3> QED
      BY <1>1, <3>1, <3>2
  <2> HIDE DEF g
  <2> QED
    BY <1>1, <2>2, <2>3
<1>4. n \in T
  <2> HIDE DEF T
  <2> QED
    BY <1>1, <1>2, <1>3, SetInduction
<1>5. PICK f \in [1 .. n -> Seq(S)] : Accumulates(f, seqs, n)
  BY <1>4
<1>6. n # 0
  BY DEF n
<1> QED
  <2> DEFINE Body(h) == [i \in 1 .. n |-> IF i = 1 THEN seqs[i] ELSE h[i - 1] \o seqs[i]]
             c == CHOOSE h : h = Body(h)
  <2>1. f = Body(f)
    BY <1>5 DEF Accumulates
  <2>2. c = Body(c)
    BY <2>1
  <2>7. FlattenSeq(seqs) = c[n]
    BY <1>6 DEF FlattenSeq, n
  <2> HIDE DEF c, T
  <2>3. \A i \in 1 .. n : c[i] = IF i = 1 THEN seqs[i] ELSE c[i - 1] \o seqs[i]
    <3> DEFINE d == Body(c)
    <3>1. \A i \in 1 .. n : d[i] = IF i = 1 THEN seqs[i] ELSE c[i - 1] \o seqs[i]
      OBVIOUS
    <3>2. c = d
      BY <2>2
    <3> HIDE DEF d
    <3> QED
      BY <3>1, <3>2
  <2> DEFINE U == {m \in 0 .. n : \A i \in 1 .. m : c[i] \in Seq(S)}
  <2>4. 0 \in U
    BY <1>1
  <2>5. ASSUME NEW m \in 0 .. n - 1, m \in U
        PROVE  m + 1 \in U
    <3>1. c[m + 1] \in Seq(S)
      <4>1. CASE m = 0
        <5>1. m + 1 = 1 /\ 1 \in 1 .. n
          BY <1>1, <4>1
        <5>2. c[1] = seqs[1]
          BY <2>3, <5>1
        <5> QED
          BY <1>1, <5>1, <5>2
      <4>2. CASE m # 0
        <5>1. c[m + 1] = c[m] \o seqs[m + 1]
          <6> DEFINE i == m + 1
          <6>1. i \in 1 .. n /\ i # 1 /\ i - 1 = m
            BY <1>1, <4>2
          <6> HIDE DEF i
          <6>2. c[i] = c[i - 1] \o seqs[i]
            BY <6>1, <2>3
          <6> QED
            BY <6>1, <6>2 DEF i
        <5>2. c[m] \in Seq(S) /\ seqs[m + 1] \in Seq(S)
          BY <1>1, <2>5, <4>2
        <5> QED
          BY <5>1, <5>2, ConcatProperties
      <4> QED
        BY <4>1, <4>2
    <3> QED
      BY <1>1, <2>5, <3>1
  <2>6. n \in U
    <3> HIDE DEF U
    <3> QED
      BY <1>1, <2>4, <2>5, SetInduction
  <2>8. Accumulates(c, seqs, n)
    BY <2>3 DEF Accumulates
  <2> QED
    BY <2>6, <2>7, <2>8 DEF n

\* FlattenSeq of a sequence of sequences over S is a sequence over S ...
LEMMA FlattenIsSeq ==
  ASSUME NEW S, NEW seqs \in Seq(Seq(S))
  PROVE  FlattenSeq(seqs) \in Seq(S)
<1>1. CASE Len(seqs) = 0
  BY <1>1 DEF FlattenSeq
<1>2. CASE Len(seqs) # 0
  BY <1>2, FlattenUnfolds, LenProperties
<1> QED
  BY <1>1, <1>2
=============================================================================
