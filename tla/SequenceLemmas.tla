---------------------------- MODULE SequenceLemmas ----------------------------
(***************************************************************************)
(* Facts about numbers and sequences that the proofs of several modules rest *)
(* on. The induction theorems of the library take an operator as a          *)
(* parameter; what follows goes by the least counterexample instead, which a *)
(* set can express.                                                        *)
(***************************************************************************)
EXTENDS Integers, SequencesExt, FiniteSetTheorems, WellFoundedInduction, SequenceTheorems, TLAPS

(* The naturals are well-founded, so that a nonempty set of them has a least. *)
LEMMA NatOrder ==
  \E R : IsWellFoundedOn(R, Nat) /\ (\A k, m \in Nat : k < m => <<k, m>> \in R)
<1>1. \A k, m \in Nat : k < m => <<k, m>> \in OpToRel(<, Nat)
  BY Zenon DEF OpToRel
<1>2. IsWellFoundedOn(OpToRel(<, Nat), Nat)
  BY Zenon, NatLessThanWellFounded
<1> QED
  BY <1>1, <1>2, Zenon

LEMMA LeastNatural ==
  ASSUME NEW S, S \subseteq Nat, S # {}
  PROVE  \E m \in S : \A k \in S : m <= k
<1>1. PICK R : IsWellFoundedOn(R, Nat) /\ (\A k, m \in Nat : k < m => <<k, m>> \in R)
  BY NatOrder
<1>2. PICK m \in S : \A k \in S : ~ (<<k, m>> \in R)
  <2>1. IsWellFoundedOn(R, Nat)
    BY <1>1, Zenon
  <2> QED
    BY <2>1, WFMin, Zenon
<1>3. ASSUME NEW k \in S PROVE m <= k
  <2>1. k \in Nat /\ m \in Nat
    OBVIOUS
  <2>2. ~ (k < m)
    BY <1>1, <1>2, <2>1
  <2> QED
    BY <2>1, <2>2
<1> QED
  BY <1>3

(* The latest of finitely many positions exists.                            *)
LEMMA LatestExists ==
  ASSUME NEW n \in Nat, NEW T, T \subseteq 1..n, T # {}
  PROVE  \E i \in T : \A j \in T : j <= i
<1> DEFINE D == {m \in Nat : \E i \in T : m = n - i}
<1>1. D \subseteq Nat /\ D # {}
  <2>1. PICK i \in T : TRUE
    OBVIOUS
  <2>2. i \in Nat /\ i <= n
    BY <2>1
  <2>3. n - i \in Nat
    BY <2>2
  <2>4. n - i \in D
    BY <2>1, <2>3
  <2> QED
    BY <2>4
<1>2. PICK m \in D : \A k \in D : m <= k
  BY <1>1, LeastNatural
<1>3. PICK i \in T : m = n - i
  BY <1>2
<1>4. ASSUME NEW j \in T PROVE j <= i
  <2>1. i \in Nat /\ j \in Nat /\ i <= n /\ j <= n
    OBVIOUS
  <2>2. n - j \in Nat
    BY <2>1
  <2>3. n - j \in D
    BY <2>2
  <2>4. n - i <= n - j
    BY <1>2, <1>3, <2>3
  <2> QED
    BY <2>1, <2>4
<1> QED
  BY <1>4

LEMMA ConcatElements ==
  ASSUME NEW S, NEW s \in Seq(S), NEW t \in Seq(S)
  PROVE  s \o t \in Seq(S) /\ ToSet(s \o t) = ToSet(s) \cup ToSet(t)
<1>1. Range(s \o t) = Range(s) \cup Range(t)
  BY RangeConcatenation
<1>2. s \o t \in Seq(S)
  BY ConcatProperties
<1> QED
  BY <1>1, <1>2 DEF Range, ToSet

(* FlattenSeq, which takes the sequences one after the other, gives their        *)
(* elements and no others.                                                   *)
LEMMA FlattenSeqElements ==
  ASSUME NEW S, NEW seqs \in Seq(Seq(S))
  PROVE  /\ FlattenSeq(seqs) \in Seq(S)
         /\ ToSet(FlattenSeq(seqs)) = UNION {ToSet(seqs[i]) : i \in DOMAIN seqs}
<1> DEFINE n == Len(seqs)
           IsFlat(f, m) == f = [i \in 1..m |-> IF i = 1 THEN seqs[i] ELSE f[i - 1] \o seqs[i]]
<1>1. n \in Nat /\ DOMAIN seqs = 1..n /\ \A i \in 1..n : seqs[i] \in Seq(S)
  BY LenProperties, ElementOfSeq
<1> HIDE DEF n, IsFlat
<1>2. \A m \in 0..n : \E f : IsFlat(f, m)
  <2> DEFINE Bad == {m \in 0..n : ~ \E f : IsFlat(f, m)}
  <2>1. SUFFICES ASSUME Bad # {} PROVE FALSE
    OBVIOUS
  <2>2. PICK m \in Bad : \A k \in Bad : m <= k
    <3>1. Bad \subseteq Nat
      BY <1>1
    <3> HIDE DEF Bad
    <3> QED
      BY <2>1, <3>1, LeastNatural
  <2>3. m \in Nat /\ m <= n /\ ~ \E f : IsFlat(f, m)
    BY <1>1, <2>2
  <2>4. m # 0
    <3>1. IsFlat([i \in 1..0 |-> <<>>], 0)
      BY DEF IsFlat
    <3> QED
      BY <2>3, <3>1
  <2>5. m - 1 \in 0..n /\ m - 1 \notin Bad
    BY <1>1, <2>2, <2>3, <2>4
  <2>6. PICK g : IsFlat(g, m - 1)
    BY <2>5
  <2> DEFINE f == [i \in 1..m |-> IF i < m THEN g[i]
                                  ELSE IF i = 1 THEN seqs[i] ELSE g[i - 1] \o seqs[i]]
  <2>7. IsFlat(f, m)
    <3>1. ASSUME NEW i \in 1..m
          PROVE  f[i] = IF i = 1 THEN seqs[i] ELSE f[i - 1] \o seqs[i]
      <4>1. CASE i < m
        <5>1. i \in 1..(m - 1)
          BY <2>3, <4>1
        <5>2. g[i] = IF i = 1 THEN seqs[i] ELSE g[i - 1] \o seqs[i]
          BY <2>6, <5>1, Zenon DEF IsFlat
        <5>3. i # 1 => i - 1 \in 1..m /\ i - 1 < m
          BY <2>3, <4>1
        <5> QED
          BY <4>1, <5>2, <5>3
      <4>2. CASE i = m
        <5>1. i # 1 => i - 1 \in 1..m /\ i - 1 < m
          BY <2>3, <4>2
        <5> QED
          BY <4>2, <5>1
      <4> QED
        BY <2>3, <4>1, <4>2
    <3>2. f = [i \in 1..m |-> f[i]]
      OBVIOUS
    <3> HIDE DEF f
    <3> QED
      BY <3>1, <3>2 DEF IsFlat
  <2> QED
    BY <2>3, <2>7
<1>3. ASSUME NEW f, IsFlat(f, n)
      PROVE  \A k \in 1..n : f[k] \in Seq(S) /\ ToSet(f[k]) = UNION {ToSet(seqs[i]) : i \in 1..k}
  <2> DEFINE Good(k) == f[k] \in Seq(S) /\ ToSet(f[k]) = UNION {ToSet(seqs[i]) : i \in 1..k}
             Bad == {k \in 1..n : ~ Good(k)}
  <2>1. SUFFICES ASSUME Bad # {} PROVE FALSE
    OBVIOUS
  <2>2. PICK k \in Bad : \A j \in Bad : k <= j
    <3>1. Bad \subseteq Nat
      BY <1>1
    <3> HIDE DEF Bad
    <3> QED
      BY <2>1, <3>1, LeastNatural
  <2>3. k \in 1..n /\ ~ Good(k)
    BY <2>2
  <2>4. f[k] = IF k = 1 THEN seqs[k] ELSE f[k - 1] \o seqs[k]
    BY <1>3, <2>3, Zenon DEF IsFlat
  <2>5. k # 1
    <3>1. ASSUME k = 1 PROVE Good(k)
      <4>1. f[k] = seqs[k] /\ seqs[k] \in Seq(S)
        BY <1>1, <2>3, <2>4, <3>1
      <4>2. 1..k = {k}
        BY <3>1
      <4> QED
        BY <4>1, <4>2
    <3> QED
      BY <2>3, <3>1
  <2>6. k - 1 \in 1..n /\ k - 1 \notin Bad
    <3>1. k - 1 \in 1..n /\ k - 1 < k
      BY <1>1, <2>3, <2>5
    <3>2. k - 1 \in Bad => k <= k - 1
      BY <2>2, Zenon
    <3> QED
      BY <2>3, <3>1, <3>2
  <2>7. f[k - 1] \in Seq(S) /\ ToSet(f[k - 1]) = UNION {ToSet(seqs[i]) : i \in 1..(k - 1)}
    BY <2>6
  <2>8. f[k] \in Seq(S) /\ ToSet(f[k]) = ToSet(f[k - 1]) \cup ToSet(seqs[k])
    BY <1>1, <2>3, <2>4, <2>5, <2>7, ConcatElements
  <2>9. 1..k = 1..(k - 1) \cup {k}
    BY <1>1, <2>3
  <2>10. Good(k)
    <3> HIDE DEF Bad
    <3>1. UNION {ToSet(seqs[i]) : i \in 1..k}
            = (UNION {ToSet(seqs[i]) : i \in 1..(k - 1)}) \cup ToSet(seqs[k])
      BY <2>9, Zenon
    <3> QED
      BY <2>7, <2>8, <3>1
  <2> QED
    BY <2>3, <2>10
<1>4. CASE n = 0
  <2>1. FlattenSeq(seqs) = seqs /\ seqs = <<>>
    BY <1>4, EmptySeq DEF FlattenSeq, n
  <2>2. DOMAIN seqs = {}
    BY <1>1, <1>4
  <2> QED
    BY <2>1, <2>2 DEF ToSet
<1>5. CASE n # 0
  <2>1. \E f : IsFlat(f, n)
    BY <1>1, <1>2
  <2>2. IsFlat(CHOOSE f : IsFlat(f, n), n)
    BY <2>1, Zenon
  <2>3. FlattenSeq(seqs) = (CHOOSE f : IsFlat(f, n))[n]
    BY <1>5 DEF FlattenSeq, IsFlat, n
  <2>4. n \in 1..n
    BY <1>1, <1>5
  <2> DEFINE flat == CHOOSE f : IsFlat(f, n)
  <2>5. /\ flat[n] \in Seq(S)
        /\ ToSet(flat[n]) = UNION {ToSet(seqs[i]) : i \in 1..n}
    <3>1. IsFlat(flat, n)
      BY <2>2
    <3> HIDE DEF flat
    <3> QED
      BY <1>3, <2>4, <3>1
  <2>6. FlattenSeq(seqs) = flat[n]
    BY <2>3
  <2> HIDE DEF flat
  <2> QED
    BY <1>1, <2>5, <2>6
<1> QED
  BY <1>4, <1>5
=============================================================================
