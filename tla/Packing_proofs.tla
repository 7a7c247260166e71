--------------------------- MODULE Packing_proofs ---------------------------
(***************************************************************************)
(* Theorems about Packing, for any ranks, properties, sizes and calls: the *)
(* types, that every object is with its owner, that every element arrives  *)
(* whole, and that the caller's lists tell of it.  What the operators      *)
(* compute from sequences comes first (sums, flattened and sorted lists),  *)
(* then what Outgoing sends, the invariant that nothing is lost, the types *)
(* of the loop over the buffers, the one order that sorting can give them, *)
(* what the loop makes of each object, and what a rank has at the end.     *)
(***************************************************************************)
EXTENDS Packing, FiniteSetTheorems, SequenceTheorems, WellFoundedInduction, TLAPS

----------------------------------------------------------------------------
(* Numbers.  What is defined by recursion is reasoned about by induction   *)
(* over sets of numbers.                                                   *)

LEMMA Smallest ==
    ASSUME NEW T, T \subseteq Nat, T # {}
    PROVE  \E m \in T : \A n \in T : m <= n
<1> DEFINE R == OpToRel(<, Nat)
<1>1. IsWellFoundedOn(R, Nat)
  BY NatLessThanWellFounded, Zenon
<1> HIDE DEF R
<1>2. IsWellFoundedOn(R, T)
  BY <1>1, IsWellFoundedOnSubset, Zenon
<1>3. PICK m \in T : \A y \in T : <<y, m>> \notin R
  BY <1>2, WFMin, Zenon
<1>4. \A y \in T : ~(y < m)
  BY <1>3 DEF R, OpToRel
<1> QED
  BY <1>3, <1>4

LEMMA Induction ==
    ASSUME NEW T, 0 \in T, \A n \in Nat : n \in T => n + 1 \in T
    PROVE  Nat \subseteq T
<1> SUFFICES ASSUME Nat \ T # {}
             PROVE  FALSE
  OBVIOUS
<1>1. PICK m \in Nat \ T : \A n \in Nat \ T : m <= n
  BY Smallest
<1>2. m # 0 /\ m - 1 \in Nat /\ ~(m - 1 \in Nat \ T)
  BY <1>1
<1> QED
  BY <1>1, <1>2

\* The same up to a bound.
LEMMA InductionTo ==
    ASSUME NEW N \in Nat, NEW T, 0 \in T, \A n \in 0..(N - 1) : n \in T => n + 1 \in T
    PROVE  0..N \subseteq T
<1> DEFINE U == {n \in Nat : n <= N => n \in T}
<1>1. 0 \in U /\ \A n \in Nat : n \in U => n + 1 \in U
  OBVIOUS
<1> HIDE DEF U
<1>2. Nat \subseteq U
  BY <1>1, Induction
<1> QED
  BY <1>2 DEF U

LEMMA Largest ==
    ASSUME NEW N \in Nat, NEW s \in SUBSET (1..N), s # {}
    PROVE  Max(s) \in s /\ \A y \in s : Max(s) >= y
<1>1. \E m \in s : \A y \in s : m >= y
  <2> DEFINE T == {N - y : y \in s}
  <2>5. \A y \in s : y \in Nat /\ N - y \in Nat
    OBVIOUS
  <2>1. T \subseteq Nat /\ T # {}
    BY <2>5
  <2>2. PICK m \in T : \A n \in T : m <= n
    BY <2>1, Smallest
  <2>3. PICK y \in s : m = N - y
    OBVIOUS
  <2>4. ASSUME NEW z \in s
        PROVE  y >= z
    <3>1. m <= N - z
      BY <2>2
    <3>2. y \in Nat /\ z \in Nat
      BY <2>5
    <3> QED
      BY <2>3, <3>1, <3>2
  <2> QED
    BY <2>4
<1> QED
  BY <1>1 DEF Max

LEMMA FirstNumbers ==
    ASSUME NEW N \in Nat, NEW k \in 1..N
    PROVE  1..k \in SUBSET (1..N) /\ 1..k # {} /\ Max(1..k) = k /\ (1..k) \ {k} = 1..(k - 1)
<1>1. 1..k \in SUBSET (1..N) /\ k \in 1..k
  OBVIOUS
<1>2. Max(1..k) \in 1..k /\ Max(1..k) >= k
  BY <1>1, Largest
<1>3. (1..k) \ {k} = 1..(k - 1)
  OBVIOUS
<1> QED
  BY <1>1, <1>2, <1>3

----------------------------------------------------------------------------
(* Functions that are defined by recursion exist, if they have a type.     *)

Recurs(N, b, G, h) == h[0] = b /\ \A k \in 1..N : h[k] = G[k][h[k - 1]]

LEMMA Recursion ==
    ASSUME NEW N \in Nat, NEW V, NEW b \in V, NEW G \in [1..N -> [V -> V]]
    PROVE  \E h \in [0..N -> V] : Recurs(N, b, G, h)
<1> DEFINE T == {n \in 0..N : \E h \in [0..n -> V] : Recurs(n, b, G, h)}
<1>1. 0 \in T
  <2>1. PICK h : h = [k \in 0..0 |-> b]
    OBVIOUS
  <2>2. h \in [0..0 -> V] /\ Recurs(0, b, G, h)
    BY <2>1 DEF Recurs
  <2>3. 0 \in 0..N
    OBVIOUS
  <2> QED
    BY <2>2, <2>3, Zenon
<1>2. ASSUME NEW n \in 0..(N - 1), n \in T
      PROVE  n + 1 \in T
  <2>1. PICK h \in [0..n -> V] : Recurs(n, b, G, h)
    BY <1>2
  <2>2. PICK g : g = [k \in 0..(n + 1) |-> IF k = n + 1 THEN G[n + 1][h[n]] ELSE h[k]]
    OBVIOUS
  <2>3. g \in [0..(n + 1) -> V]
    BY <2>1, <2>2
  <2>4. Recurs(n + 1, b, G, g)
    BY <2>1, <2>2 DEF Recurs
  <2> QED
    BY <2>3, <2>4
<1> HIDE DEF T
<1>3. 0..N \subseteq T
  BY <1>1, <1>2, InductionTo
<1> QED
  BY <1>3 DEF T

\* Over the subsets of 1..N, as a fold is defined, the largest number last.
Folded(N, b, G, h) ==
    \A s \in SUBSET (1..N) : h[s] = IF s = {} THEN b ELSE G[Max(s)][h[s \ {Max(s)}]]

LEMMA SetRecursion ==
    ASSUME NEW N \in Nat, NEW V, NEW b \in V, NEW G \in [1..N -> [V -> V]]
    PROVE  \E h \in [SUBSET (1..N) -> V] : Folded(N, b, G, h)
<1> DEFINE Small(n) == {s \in SUBSET (1..N) : Cardinality(s) <= n}
           Good(n, h) == \A s \in Small(n) : h[s] = IF s = {} THEN b ELSE G[Max(s)][h[s \ {Max(s)}]]
           T == {n \in 0..N : \E h \in [Small(n) -> V] : Good(n, h)}
<1>1. \A s \in SUBSET (1..N) :
         /\ IsFiniteSet(s) /\ Cardinality(s) \in Nat /\ Cardinality(s) <= N
         /\ Cardinality(s) = 0 <=> s = {}
         /\ s # {} => /\ Max(s) \in 1..N /\ s \ {Max(s)} \in SUBSET (1..N)
                      /\ Cardinality(s \ {Max(s)}) = Cardinality(s) - 1
  <2> TAKE s \in SUBSET (1..N)
  <2>1. IsFiniteSet(1..N) /\ Cardinality(1..N) = N
    BY FS_Interval
  <2>2. IsFiniteSet(s) /\ Cardinality(s) <= N
    <3>1. s \in SUBSET (1..N)
      OBVIOUS
    <3>2. IsFiniteSet(s) /\ Cardinality(s) <= Cardinality(1..N)
      BY <2>1, <3>1, FS_Subset, Zenon
    <3> QED
      BY <2>1, <3>2
  <2>3. Cardinality(s) \in Nat /\ (Cardinality(s) = 0 <=> s = {})
    BY <2>2, FS_CardinalityType, FS_EmptySet
  <2>4. ASSUME s # {}
        PROVE  /\ Max(s) \in 1..N /\ s \ {Max(s)} \in SUBSET (1..N)
               /\ Cardinality(s \ {Max(s)}) = Cardinality(s) - 1
    <3>1. Max(s) \in s
      BY <2>4, Largest
    <3> QED
      BY <2>2, <3>1, FS_RemoveElement
  <2> QED
    BY <2>2, <2>3, <2>4
<1>2. 0 \in T
  <2>1. PICK h : h = [s \in Small(0) |-> b]
    OBVIOUS
  <2>2. h \in [Small(0) -> V] /\ Good(0, h)
    BY <1>1, <2>1
  <2>3. 0 \in 0..N
    OBVIOUS
  <2> QED
    BY <2>2, <2>3, Zenon
<1>3. ASSUME NEW n \in 0..(N - 1), n \in T
      PROVE  n + 1 \in T
  <2>1. PICK h \in [Small(n) -> V] : Good(n, h)
    BY <1>3
  <2>2. PICK g : g = [s \in Small(n + 1) |-> IF s = {} THEN b ELSE G[Max(s)][h[s \ {Max(s)}]]]
    OBVIOUS
  <2>3. ASSUME NEW s \in Small(n + 1), s # {}
        PROVE  s \ {Max(s)} \in Small(n)
    <3>1. s \in SUBSET (1..N) /\ Cardinality(s) <= n + 1
      OBVIOUS
    <3>2. s \ {Max(s)} \in SUBSET (1..N) /\ Cardinality(s \ {Max(s)}) = Cardinality(s) - 1
      BY <1>1, <2>3, <3>1
    <3>4. Cardinality(s) \in Nat
      BY <1>1, <3>1
    <3>3. Cardinality(s \ {Max(s)}) <= n
      BY <3>1, <3>2, <3>4
    <3> QED
      BY <3>2, <3>3
  <2>4. g \in [Small(n + 1) -> V]
    <3>1. ASSUME NEW s \in Small(n + 1), s # {}
          PROVE  G[Max(s)][h[s \ {Max(s)}]] \in V
      <4>1. h[s \ {Max(s)}] \in V /\ Max(s) \in 1..N
        BY <1>1, <2>1, <2>3, <3>1
      <4> QED
        BY <4>1
    <3> QED
      BY <2>2, <3>1
  <2>5. \A s \in Small(n) : g[s] = h[s]
    <3>1. ASSUME NEW s \in Small(n)
          PROVE  s \in Small(n + 1)
      <4>1. s \in SUBSET (1..N) /\ Cardinality(s) <= n
        OBVIOUS
      <4>3. Cardinality(s) \in Nat
        BY <1>1, <4>1
      <4>2. Cardinality(s) <= n + 1
        BY <4>1, <4>3
      <4> QED
        BY <4>1, <4>2
    <3> QED
      BY <2>1, <2>2, <3>1
  <2>6. Good(n + 1, g)
    BY <2>2, <2>3, <2>5
  <2>7. n + 1 \in 0..N
    OBVIOUS
  <2> QED
    BY <2>4, <2>6, <2>7, Zenon
<1> HIDE DEF T
<1>4. 0..N \subseteq T
  BY <1>2, <1>3, InductionTo
<1>5. Small(N) = SUBSET (1..N)
  BY <1>1
<1>6. N \in T
  BY <1>4
<1> QED
  BY <1>5, <1>6 DEF T, Folded

----------------------------------------------------------------------------
(* Sums and flattened sequences, one element after the other.              *)

\* h tells how a sum comes about.
Summing(seq, h) ==
    /\ h \in [0..Len(seq) -> Nat] /\ h[0] = 0
    /\ \A k \in 1..Len(seq) : h[k] = h[k - 1] + seq[k]

LEMMA SumOf ==
    ASSUME NEW seq \in Seq(Nat)
    PROVE  \E h : Summing(seq, h) /\ Sum(seq) = h[Len(seq)]
<1> DEFINE D == 1..Len(seq)
           Iter(it) == it = [s \in SUBSET D |-> IF s = {} THEN 0 ELSE it[s \ {Max(s)}] + seq[Max(s)]]
<1>1. Len(seq) \in Nat /\ DOMAIN seq = D /\ \A k \in D : seq[k] \in Nat
  BY LenProperties, ElementOfSeq
<1>2. PICK G \in [D -> [Nat -> Nat]] : \A k \in D, v \in Nat : G[k][v] = v + seq[k]
  <2>1. PICK G : G = [k \in D |-> [v \in Nat |-> v + seq[k]]]
    OBVIOUS
  <2>2. \A k \in D : [v \in Nat |-> v + seq[k]] \in [Nat -> Nat]
    BY <1>1
  <2>3. G \in [D -> [Nat -> Nat]] /\ \A k \in D, v \in Nat : G[k][v] = v + seq[k]
    BY <2>1, <2>2
  <2> QED
    BY <2>3
<1>3. PICK g \in [SUBSET D -> Nat] : Folded(Len(seq), 0, G, g)
  <2>1. 0 \in Nat
    OBVIOUS
  <2> QED
    BY <1>1, <1>2, <2>1, SetRecursion
<1>4. Iter(g)
  <2>1. ASSUME NEW s \in SUBSET D, s # {}
        PROVE  g[s] = g[s \ {Max(s)}] + seq[Max(s)]
    <3>1. Max(s) \in D /\ s \ {Max(s)} \in SUBSET D
      BY <1>1, <2>1, Largest
    <3>2. g[s \ {Max(s)}] \in Nat
      BY <3>1
    <3> QED
      BY <1>1, <1>2, <1>3, <2>1, <3>1, <3>2 DEF Folded
  <2>2. g[{}] = 0
    BY <1>1, <1>3 DEF Folded
  <2> QED
    BY <1>3, <2>1, <2>2
<1>5. PICK it : Iter(it) /\ Sum(seq) = it[D]
  <2>1. Sum(seq) = (CHOOSE it : Iter(it))[D]
    BY <1>1 DEF Sum, FoldLeft, MapThenFoldSet
  <2>2. Iter(CHOOSE it : Iter(it))
    BY <1>4
  <2> QED
    BY <2>1, <2>2
<1> HIDE DEF Iter
<1>6. PICK h : h = [k \in 0..Len(seq) |-> it[1..k]]
  OBVIOUS
<1>7. h[0] = 0
  BY <1>1, <1>5, <1>6 DEF Iter
<1>8. ASSUME NEW k \in D
      PROVE  h[k] = h[k - 1] + seq[k]
  <2>1. 1..k \in SUBSET D /\ 1..k # {} /\ Max(1..k) = k /\ (1..k) \ {k} = 1..(k - 1)
    BY <1>1, FirstNumbers
  <2>3. it[1..k] = it[1..(k - 1)] + seq[k]
    BY <1>5, <2>1 DEF Iter
  <2> QED
    BY <1>1, <1>6, <2>3
<1>9. \A k \in 0..Len(seq) : h[k] \in Nat
  <2> DEFINE T == {k \in 0..Len(seq) : h[k] \in Nat}
  <2>1. 0 \in T
    BY <1>1, <1>7
  <2>2. \A k \in 0..(Len(seq) - 1) : k \in T => k + 1 \in T
    BY <1>1, <1>8
  <2> HIDE DEF T
  <2>3. 0..Len(seq) \subseteq T
    BY <1>1, <2>1, <2>2, InductionTo
  <2> QED
    BY <2>3 DEF T
<1>10. h \in [0..Len(seq) -> Nat]
  BY <1>6, <1>9
<1>11. Summing(seq, h)
  BY <1>7, <1>8, <1>10 DEF Summing
<1>12. Sum(seq) = h[Len(seq)]
  <2>1. Len(seq) \in 0..Len(seq) /\ Sum(seq) = it[1..Len(seq)]
    BY <1>1, <1>5
  <2> QED
    BY <1>6, <2>1
<1> QED
  BY <1>11, <1>12

\* Where the parts of a flattened sequence begin: part k after o[k - 1].
Offsets(ss, o) ==
    /\ o \in [0..Len(ss) -> Nat] /\ o[0] = 0
    /\ \A k \in 1..Len(ss) : o[k] = o[k - 1] + Len(ss[k])

LEMMA OffsetsExist ==
    ASSUME NEW S, NEW ss \in Seq(Seq(S))
    PROVE  \E o : Offsets(ss, o)
<1>1. Len(ss) \in Nat /\ \A k \in 1..Len(ss) : Len(ss[k]) \in Nat
  <2>1. Len(ss) \in Nat /\ \A k \in 1..Len(ss) : ss[k] \in Seq(S)
    BY LenProperties, ElementOfSeq
  <2> QED
    BY <2>1, LenProperties
<1>2. PICK G : G = [k \in 1..Len(ss) |-> [v \in Nat |-> v + Len(ss[k])]]
  OBVIOUS
<1>3. \A k \in 1..Len(ss) : [v \in Nat |-> v + Len(ss[k])] \in [Nat -> Nat]
  BY <1>1
<1>4. G \in [1..Len(ss) -> [Nat -> Nat]]
  BY <1>2, <1>3
<1>5. PICK o \in [0..Len(ss) -> Nat] : Recurs(Len(ss), 0, G, o)
  <2>1. 0 \in Nat
    OBVIOUS
  <2> QED
    BY <1>1, <1>4, <2>1, Recursion
<1>6. ASSUME NEW k \in 1..Len(ss)
      PROVE  o[k] = o[k - 1] + Len(ss[k])
  <2>1. k - 1 \in 0..Len(ss)
    BY <1>1
  <2>2. o[k - 1] \in Nat
    BY <1>5, <2>1
  <2> QED
    BY <1>2, <1>5, <2>2 DEF Recurs
<1> QED
  BY <1>5, <1>6 DEF Offsets, Recurs

LEMMA OffsetsGrow ==
    ASSUME NEW S, NEW ss \in Seq(Seq(S)), NEW o, Offsets(ss, o),
           NEW k \in 0..Len(ss), NEW l \in 0..Len(ss), k <= l
    PROVE  o[k] \in Nat /\ o[l] \in Nat /\ o[k] <= o[l]
<1>1. Len(ss) \in Nat /\ \A i \in 1..Len(ss) : Len(ss[i]) \in Nat
  <2>1. Len(ss) \in Nat /\ \A i \in 1..Len(ss) : ss[i] \in Seq(S)
    BY LenProperties, ElementOfSeq
  <2> QED
    BY <2>1, LenProperties
<1>2. \A i \in 0..Len(ss) : o[i] \in Nat
  BY DEF Offsets
<1> DEFINE T == {i \in 0..Len(ss) : k <= i => o[k] <= o[i]}
<1>3. 0 \in T
  BY <1>1, <1>2
<1>4. ASSUME NEW i \in 0..(Len(ss) - 1), i \in T
      PROVE  i + 1 \in T
  <2>1. i \in 0..Len(ss) /\ i + 1 \in 1..Len(ss) /\ (i + 1) - 1 = i /\ i + 1 \in 0..Len(ss)
    BY <1>1
  <2>2. o[i + 1] = o[i] + Len(ss[i + 1]) /\ Len(ss[i + 1]) \in Nat
    BY <1>1, <2>1 DEF Offsets
  <2>3. o[i] \in Nat /\ o[k] \in Nat /\ o[i + 1] \in Nat /\ o[i] <= o[i + 1]
    BY <1>2, <2>1, <2>2
  <2>5. k <= i => o[k] <= o[i]
    BY <1>4
  <2>6. k <= i + 1 => k <= i \/ k = i + 1
    BY <1>1, <2>1
  <2>4. k <= i + 1 => o[k] <= o[i + 1]
    BY <2>3, <2>5, <2>6
  <2> QED
    BY <2>1, <2>4
<1> HIDE DEF T
<1>5. 0..Len(ss) \subseteq T
  BY <1>1, <1>3, <1>4, InductionTo
<1> QED
  BY <1>2, <1>5 DEF T

LEMMA OffsetsType ==
    ASSUME NEW S, NEW ss \in Seq(Seq(S)), NEW o, Offsets(ss, o)
    PROVE  /\ Len(ss) \in Nat /\ \A k \in 1..Len(ss) : ss[k] \in Seq(S) /\ Len(ss[k]) \in Nat
           /\ o[0] = 0 /\ \A k \in 0..Len(ss) : o[k] \in Nat
           /\ \A k \in 1..Len(ss) : k \in Nat /\ k - 1 \in 0..Len(ss) /\ k \in 0..Len(ss)
                                    /\ o[k] = o[k - 1] + Len(ss[k])
<1>1. Len(ss) \in Nat /\ \A k \in 1..Len(ss) : ss[k] \in Seq(S)
  BY LenProperties, ElementOfSeq
<1>2. \A k \in 1..Len(ss) : Len(ss[k]) \in Nat
  BY <1>1, LenProperties
<1>3. \A k \in 1..Len(ss) : k \in Nat /\ k - 1 \in 0..Len(ss) /\ k \in 0..Len(ss)
  BY <1>1
<1>4. o[0] = 0 /\ (\A k \in 0..Len(ss) : o[k] \in Nat) /\ \A k \in 1..Len(ss) : o[k] = o[k - 1] + Len(ss[k])
  BY DEF Offsets
<1> QED
  BY <1>1, <1>2, <1>3, <1>4

\* What a flattened sequence has at each place.
FlatTo(ss, o, h, n) ==
    /\ Len(h) = o[n]
    /\ \A k \in 1..n : \A j \in 1..Len(ss[k]) : h[o[k - 1] + j] = ss[k][j]

LEMMA Within ==
    ASSUME NEW a \in Nat, NEW b \in Nat, NEW j \in 1..b, NEW c \in Nat, a + b <= c
    PROVE  a + j \in 1..c /\ a + j <= c /\ ~(a + j <= a) /\ (a + j) - a = j
OBVIOUS

LEMMA FlatStep ==
    ASSUME NEW S, NEW ss \in Seq(Seq(S)), NEW o, Offsets(ss, o),
           NEW n \in Nat, n + 1 \in 1..Len(ss), NEW h \in Seq(S), FlatTo(ss, o, h, n)
    PROVE  /\ h \o ss[n + 1] \in Seq(S)
           /\ FlatTo(ss, o, h \o ss[n + 1], n + 1)
<1> DEFINE g == h \o ss[n + 1]
<1>1. /\ Len(ss) \in Nat /\ n \in 0..Len(ss) /\ o[n] \in Nat
      /\ ss[n + 1] \in Seq(S) /\ Len(ss[n + 1]) \in Nat /\ o[n + 1] = o[n] + Len(ss[n + 1])
  <2>1. n \in 0..Len(ss) /\ (n + 1) - 1 = n
    BY LenProperties
  <2> QED
    BY <2>1, OffsetsType
<1>2. Len(h) = o[n] /\ \A k \in 1..n : \A j \in 1..Len(ss[k]) : h[o[k - 1] + j] = ss[k][j]
  BY DEF FlatTo
<1>3. /\ g \in Seq(S) /\ Len(g) = o[n] + Len(ss[n + 1])
      /\ \A i \in 1..Len(g) : g[i] = IF i <= o[n] THEN h[i] ELSE ss[n + 1][i - o[n]]
  <2>1. PICK t : t = ss[n + 1]
    OBVIOUS
  <2>2. t \in Seq(S) /\ g = h \o t
    BY <1>1, <2>1
  <2>3. /\ h \o t \in Seq(S) /\ Len(h \o t) = Len(h) + Len(t)
        /\ \A i \in 1..(Len(h) + Len(t)) : (h \o t)[i] = IF i <= Len(h) THEN h[i] ELSE t[i - Len(h)]
    BY <2>2, ConcatProperties
  <2> QED
    BY <1>2, <2>1, <2>2, <2>3
<1> HIDE DEF g
<1>4. ASSUME NEW k \in 1..(n + 1), NEW j \in 1..Len(ss[k])
      PROVE  g[o[k - 1] + j] = ss[k][j]
  <2>0. k \in Nat /\ j \in Nat /\ k - 1 \in 0..Len(ss) /\ k \in 0..Len(ss) /\ k \in 1..Len(ss)
    BY <1>1
  <2>1. CASE k = n + 1
    <3>1. o[k - 1] = o[n] /\ j \in 1..Len(ss[n + 1])
      BY <2>1
    <3>2. o[n] + j \in 1..Len(g) /\ ~(o[n] + j <= o[n]) /\ (o[n] + j) - o[n] = j
      <4>1. Len(g) \in Nat /\ o[n] + Len(ss[n + 1]) <= Len(g)
        BY <1>1, <1>3
      <4>2. o[n] \in Nat /\ Len(ss[n + 1]) \in Nat
        BY <1>1
      <4>3. PICK a \in Nat, b \in Nat, c \in Nat : a = o[n] /\ b = Len(ss[n + 1]) /\ c = Len(g)
        BY <4>1, <4>2
      <4>4. j \in 1..b /\ a + b <= c
        BY <3>1, <4>1, <4>3
      <4>5. a + j \in 1..c /\ ~(a + j <= a) /\ (a + j) - a = j
        BY <4>4, Within
      <4> QED
        BY <4>3, <4>5
    <3>3. g[o[n] + j] = ss[n + 1][j]
      BY <1>3, <3>2
    <3> QED
      BY <2>1, <3>1, <3>3
  <2>2. CASE k # n + 1
    <3>1. k \in 1..n /\ k <= n
      BY <2>2
    <3>2. o[k] = o[k - 1] + Len(ss[k]) /\ o[k - 1] \in Nat /\ Len(ss[k]) \in Nat
      BY <2>0, OffsetsType
    <3>3. o[k] \in Nat /\ o[k] <= o[n]
      BY <1>1, <2>0, <3>1, OffsetsGrow
    <3>4. o[k - 1] + j <= o[n]
      <4>1. o[k - 1] + Len(ss[k]) <= o[n]
        BY <3>2, <3>3
      <4>2. o[n] \in Nat
        BY <1>1
      <4> QED
        BY <3>2, <4>1, <4>2, Within
    <3>6. o[k - 1] + j \in 1..Len(g)
      <4>2. Len(g) = o[n] + Len(ss[n + 1]) /\ o[n] \in Nat /\ Len(ss[n + 1]) \in Nat
        BY <1>1, <1>3
      <4>3. o[k - 1] + Len(ss[k]) = o[k] /\ o[k] \in Nat /\ o[k] <= o[n]
        BY <3>2, <3>3
      <4>1. Len(g) \in Nat /\ o[k - 1] + Len(ss[k]) <= Len(g)
        BY <4>2, <4>3, SMTT(30)
      <4> QED
        BY <3>2, <4>1, Within, Zenon
    <3>5. g[o[k - 1] + j] = h[o[k - 1] + j]
      BY <1>3, <3>4, <3>6
    <3> QED
      BY <1>2, <3>1, <3>5
  <2> QED
    BY <2>1, <2>2
<1>5. FlatTo(ss, o, g, n + 1)
  BY <1>1, <1>3, <1>4 DEF FlatTo
<1> QED
  BY <1>3, <1>5 DEF g

LEMMA Flattened ==
    ASSUME NEW S, NEW ss \in Seq(Seq(S)), NEW o, Offsets(ss, o)
    PROVE  /\ FlattenSeq(ss) \in Seq(S)
           /\ FlatTo(ss, o, FlattenSeq(ss), Len(ss))
<1> DEFINE N == Len(ss)
           Flat(f) == f = [i \in 1..N |-> IF i = 1 THEN ss[i] ELSE f[i - 1] \o ss[i]]
<1>1. N \in Nat /\ \A k \in 1..N : ss[k] \in Seq(S)
  BY OffsetsType
<1>2. <<>> \in Seq(S) /\ Len(<<>>) = 0 /\ \A x \in Seq(S) : <<>> \o x = x
  BY EmptySeq, ConcatEmptySeq
<1>3. PICK h \in [0..N -> Seq(S)] : h[0] = <<>> /\ \A k \in 1..N : h[k] = h[k - 1] \o ss[k]
  <2> HIDE DEF N
  <2>1. PICK G : G = [k \in 1..N |-> [v \in Seq(S) |-> v \o ss[k]]]
    OBVIOUS
  <2>2. \A k \in 1..N : [v \in Seq(S) |-> v \o ss[k]] \in [Seq(S) -> Seq(S)]
    BY <1>1, ConcatProperties
  <2>3. G \in [1..N -> [Seq(S) -> Seq(S)]]
    BY <2>1, <2>2
  <2>4. PICK h \in [0..N -> Seq(S)] : Recurs(N, <<>>, G, h)
    BY <1>1, <1>2, <2>3, Recursion
  <2>5. ASSUME NEW k \in 1..N
        PROVE  h[k] = h[k - 1] \o ss[k]
    <3>1. h[k - 1] \in Seq(S)
      BY <1>1, <2>4
    <3>2. h[k] = G[k][h[k - 1]]
      BY <2>4 DEF Recurs
    <3>3. G[k] = [v \in Seq(S) |-> v \o ss[k]]
      BY <2>1
    <3> QED
      BY <3>1, <3>2, <3>3
  <2> QED
    BY <2>4, <2>5 DEF Recurs
<1>4. CASE N = 0
  <2>1. FlattenSeq(ss) = <<>>
    BY <1>4, EmptySeq DEF FlattenSeq
  <2>2. o[0] = 0
    BY DEF Offsets
  <2> QED
    BY <1>2, <1>4, <2>1, <2>2 DEF FlatTo
<1>5. CASE N # 0
  <2>1. PICK f : Flat(f) /\ FlattenSeq(ss) = f[N]
    <3>1. PICK f : f = [k \in 1..N |-> h[k]]
      OBVIOUS
    <3>2. ASSUME NEW k \in 1..N
          PROVE  f[k] = IF k = 1 THEN ss[k] ELSE f[k - 1] \o ss[k]
      <4> HIDE DEF N
      <4>1. f[k] = h[k - 1] \o ss[k] /\ ss[k] \in Seq(S)
        BY <1>1, <1>3, <3>1
      <4>2. CASE k = 1
        <5>1. h[k - 1] = <<>>
          BY <1>3, <4>2
        <5> QED
          BY <1>2, <4>1, <4>2, <5>1
      <4>3. CASE k # 1
        <5>1. k - 1 \in 1..N
          BY <1>1, <4>3
        <5> QED
          BY <3>1, <4>1, <4>3, <5>1
      <4> QED
        BY <4>2, <4>3
    <3>3. Flat(f)
      BY <3>1, <3>2
    <3>4. Flat(CHOOSE g : Flat(g))
      BY <3>3
    <3>5. FlattenSeq(ss) = (CHOOSE g : Flat(g))[N]
      BY <1>5 DEF FlattenSeq
    <3> QED
      BY <3>4, <3>5
  <2>2. ASSUME NEW k \in 1..N
        PROVE  f[k] = IF k = 1 THEN ss[k] ELSE f[k - 1] \o ss[k]
    BY <2>1
  <2> HIDE DEF Flat, N
  <2> DEFINE T == {n \in 0..N : n # 0 => f[n] = h[n]}
  <2>3. 0 \in T
    BY <1>1
  <2>4. ASSUME NEW n \in 0..(N - 1), n \in T
        PROVE  n + 1 \in T
    <3>1. n + 1 \in 1..N /\ (n + 1) - 1 = n /\ n \in 0..N /\ n \in Nat /\ n + 1 \in 0..N
      BY <1>1
    <3>2. h[n + 1] = h[n] \o ss[n + 1]
      BY <1>3, <3>1
    <3>3. f[n + 1] = IF n + 1 = 1 THEN ss[n + 1] ELSE f[n] \o ss[n + 1]
      BY <2>2, <3>1
    <3>4. CASE n = 0
      <4>1. h[n] = <<>> /\ ss[n + 1] \in Seq(S)
        BY <1>1, <1>3, <3>1, <3>4
      <4>2. h[n + 1] = ss[n + 1]
        BY <1>2, <3>2, <4>1
      <4>3. f[n + 1] = ss[n + 1]
        BY <3>3, <3>4
      <4> QED
        BY <3>1, <4>2, <4>3
    <3>5. CASE n # 0
      <4>1. f[n] = h[n]
        BY <2>4, <3>5
      <4>2. n + 1 # 1
        BY <3>1, <3>5
      <4> QED
        BY <3>1, <3>2, <3>3, <4>1, <4>2
    <3> QED
      BY <3>4, <3>5
  <2> HIDE DEF T
  <2>5. 0..N \subseteq T
    BY <1>1, <2>3, <2>4, InductionTo
  <2>6. N \in T
    BY <1>1, <2>5
  <2>7. FlattenSeq(ss) = h[N]
    BY <1>5, <2>1, <2>6 DEF T
  <2> DEFINE U == {n \in 0..N : FlatTo(ss, o, h[n], n)}
  <2>8. 0 \in U
    <3>1. o[0] = 0 /\ 0 \in 0..N
      BY <1>1 DEF Offsets
    <3> QED
      BY <1>2, <1>3, <3>1 DEF FlatTo
  <2>9. ASSUME NEW n \in 0..(N - 1), n \in U
        PROVE  n + 1 \in U
    <3>1. n \in Nat /\ n + 1 \in 1..Len(ss) /\ n + 1 \in 0..N /\ (n + 1) - 1 = n /\ n \in 0..N
      BY <1>1 DEF N
    <3>2. h[n] \in Seq(S) /\ FlatTo(ss, o, h[n], n)
      BY <1>3, <2>9, <3>1
    <3>3. FlatTo(ss, o, h[n] \o ss[n + 1], n + 1)
      BY <3>1, <3>2, FlatStep
    <3>4. h[n + 1] = h[n] \o ss[n + 1]
      BY <1>3, <3>1 DEF N
    <3> QED
      BY <3>1, <3>3, <3>4
  <2> HIDE DEF U
  <2>10. 0..N \subseteq U
    BY <1>1, <2>8, <2>9, InductionTo
  <2>11. N \in 0..N /\ N \in U
    BY <1>1, <2>10
  <2>12. h[N] \in Seq(S) /\ FlatTo(ss, o, h[N], N)
    BY <1>3, <2>11 DEF U
  <2> QED
    BY <2>7, <2>12 DEF N
<1> QED
  BY <1>4, <1>5

\* Every place of a flattened sequence is in one of its parts.
LEMMA PlaceInPart ==
    ASSUME NEW S, NEW ss \in Seq(Seq(S)), NEW o, Offsets(ss, o), NEW l \in 1..o[Len(ss)]
    PROVE  \E k \in 1..Len(ss) : \E j \in 1..Len(ss[k]) : l = o[k - 1] + j
<1> DEFINE T == {i \in 0..Len(ss) : l <= o[i]}
<1>1. Len(ss) \in Nat /\ Len(ss) \in 0..Len(ss) /\ o[Len(ss)] \in Nat
  <2>1. Len(ss) \in 0..Len(ss)
    BY LenProperties
  <2> QED
    BY <2>1, OffsetsType
<1>2. l \in Nat /\ l >= 1 /\ l <= o[Len(ss)]
  BY <1>1
<1>3. T \subseteq Nat /\ Len(ss) \in T
  BY <1>1, <1>2
<1>4. PICK k \in T : \A i \in T : k <= i
  BY <1>3, Smallest
<1>5. k \in 0..Len(ss) /\ l <= o[k]
  BY <1>4
<1>6. k # 0
  <2>1. o[0] = 0
    BY DEF Offsets
  <2> QED
    BY <1>2, <1>5, <2>1
<1>7. k \in 1..Len(ss) /\ k - 1 \in 0..Len(ss) /\ ~(k <= k - 1)
  BY <1>1, <1>5, <1>6
<1>8. o[k - 1] \in Nat /\ o[k] = o[k - 1] + Len(ss[k]) /\ Len(ss[k]) \in Nat
  BY <1>7, OffsetsType
<1>9. ~(l <= o[k - 1])
  BY <1>4, <1>7
<1> HIDE DEF T
<1>10. l - o[k - 1] \in 1..Len(ss[k]) /\ l = o[k - 1] + (l - o[k - 1])
  BY <1>2, <1>5, <1>8, <1>9
<1> QED
  BY <1>7, <1>10

\* Products: places of parts of equal length.
LEMMA Times ==
    ASSUME NEW a \in Nat, NEW c \in Nat
    PROVE  a * c \in Nat /\ (a + 1) * c = a * c + c
OBVIOUS

LEMMA TimesGrow ==
    ASSUME NEW a \in Nat, NEW b \in Nat, NEW c \in Nat, a < b
    PROVE  a * c + c <= b * c
<1> DEFINE T == {n \in Nat : (a + 1) * c <= (a + 1 + n) * c}
<1>1. 0 \in T
  OBVIOUS
<1>2. ASSUME NEW n \in Nat, n \in T
      PROVE  n + 1 \in T
  <2>1. a + 1 + n \in Nat /\ a + 1 + (n + 1) = (a + 1 + n) + 1
    OBVIOUS
  <2>2. (a + 1 + (n + 1)) * c = (a + 1 + n) * c + c /\ (a + 1 + n) * c \in Nat
    BY <2>1, Times
  <2>3. (a + 1) * c \in Nat /\ (a + 1) * c <= (a + 1 + n) * c
    <3>1. a + 1 \in Nat
      OBVIOUS
    <3> QED
      BY <1>2, <3>1, Times
  <2> QED
    BY <2>2, <2>3
<1> HIDE DEF T
<1>3. Nat \subseteq T
  BY <1>1, <1>2, Induction
<1>4. b - (a + 1) \in Nat /\ a + 1 + (b - (a + 1)) = b
  OBVIOUS
<1>5. (a + 1) * c <= b * c
  BY <1>3, <1>4 DEF T
<1> QED
  BY <1>5, Times

\* Parts of equal length.
UniformParts(ss, c) == \A k \in 1..Len(ss) : Len(ss[k]) = c

Uniform(f, ss, c) ==
    /\ Len(f) = Len(ss) * c
    /\ \A k \in 1..Len(ss), j \in 1..c :
          (k - 1) * c + j \in 1..(Len(ss) * c) /\ f[(k - 1) * c + j] = ss[k][j]
    /\ \A l \in 1..(Len(ss) * c) : \E k \in 1..Len(ss), j \in 1..c : l = (k - 1) * c + j

LEMMA FlatUniform ==
    ASSUME NEW S, NEW ss \in Seq(Seq(S)), NEW c \in Nat, UniformParts(ss, c)
    PROVE  FlattenSeq(ss) \in Seq(S) /\ Uniform(FlattenSeq(ss), ss, c)
<1>1. PICK o : Offsets(ss, o)
  BY OffsetsExist
<1>2. Len(ss) \in Nat
  BY LenProperties
<1>20. \A k \in 1..Len(ss) : Len(ss[k]) = c
  BY DEF UniformParts
<1> DEFINE T == {k \in 0..Len(ss) : o[k] = k * c}
<1>3. 0 \in T
  BY <1>1, <1>2 DEF Offsets
<1>4. ASSUME NEW k \in 0..(Len(ss) - 1), k \in T
      PROVE  k + 1 \in T
  <2>1. k \in Nat /\ k + 1 \in 1..Len(ss) /\ (k + 1) - 1 = k /\ k + 1 \in 0..Len(ss)
    BY <1>2
  <2>2. o[k + 1] = o[k] + Len(ss[k + 1])
    BY <1>1, <2>1, OffsetsType
  <2>3. o[k] = k * c /\ Len(ss[k + 1]) = c
    BY <1>4, <1>20, <2>1
  <2>4. (k + 1) * c = k * c + c
    BY <2>1, Times
  <2> QED
    BY <2>1, <2>2, <2>3, <2>4
<1> HIDE DEF T
<1>5. \A k \in 0..Len(ss) : o[k] = k * c
  <2>1. 0..Len(ss) \subseteq T
    BY <1>2, <1>3, <1>4, InductionTo
  <2> QED
    BY <2>1 DEF T
<1>6. Len(ss) \in 0..Len(ss) /\ o[Len(ss)] = Len(ss) * c
  BY <1>2, <1>5
<1>7. FlattenSeq(ss) \in Seq(S) /\ FlatTo(ss, o, FlattenSeq(ss), Len(ss))
  BY <1>1, Flattened
<1>8. ASSUME NEW k \in 1..Len(ss), NEW j \in 1..c
      PROVE  /\ (k - 1) * c + j \in 1..(Len(ss) * c)
             /\ FlattenSeq(ss)[(k - 1) * c + j] = ss[k][j]
  <2>1. k - 1 \in Nat /\ k - 1 < Len(ss) /\ k - 1 \in 0..Len(ss)
    BY <1>2
  <2>2. (k - 1) * c + c <= Len(ss) * c
    BY <1>2, <2>1, TimesGrow
  <2>3. (k - 1) * c \in Nat /\ Len(ss) * c \in Nat
    BY <1>2, <2>1, Times
  <2>4. (k - 1) * c + j \in 1..(Len(ss) * c)
    BY <2>2, <2>3, Within
  <2>5. o[k - 1] = (k - 1) * c /\ j \in 1..Len(ss[k])
    BY <1>5, <1>20, <2>1
  <2>6. FlattenSeq(ss)[o[k - 1] + j] = ss[k][j]
    BY <1>7, <2>5 DEF FlatTo
  <2> QED
    BY <2>4, <2>5, <2>6
<1>9. ASSUME NEW l \in 1..(Len(ss) * c)
      PROVE  \E k \in 1..Len(ss), j \in 1..c : l = (k - 1) * c + j
  <2>1. l \in 1..o[Len(ss)]
    BY <1>6
  <2>2. PICK k \in 1..Len(ss) : \E j \in 1..Len(ss[k]) : l = o[k - 1] + j
    BY <1>1, <2>1, PlaceInPart
  <2>3. PICK j \in 1..Len(ss[k]) : l = o[k - 1] + j
    BY <2>2
  <2>4. k - 1 \in 0..Len(ss) /\ j \in 1..c
    BY <1>2, <1>20, <2>2, <2>3
  <2>5. o[k - 1] = (k - 1) * c
    BY <1>5, <2>4
  <2> QED
    BY <2>3, <2>4, <2>5
<1>10. Len(FlattenSeq(ss)) = Len(ss) * c
  BY <1>6, <1>7 DEF FlatTo
<1> QED
  BY <1>7, <1>8, <1>9, <1>10 DEF Uniform

LEMMA FunSeq ==
    ASSUME NEW S, NEW n \in Nat, NEW f \in [1..n -> S]
    PROVE  f \in Seq(S) /\ Len(f) = n
<1>1. f \in Seq(S)
  BY SeqDef
<1>2. 1..Len(f) = 1..n /\ Len(f) \in Nat
  BY <1>1, LenProperties
<1> QED
  BY <1>1, <1>2

----------------------------------------------------------------------------
(* A finite set of numbers in ascending order.                             *)

LEMMA InjectiveOnto ==
    ASSUME NEW S, IsFiniteSet(S), NEW f \in [1..Cardinality(S) -> S],
           \A i, k \in 1..Cardinality(S) : f[i] = f[k] => i = k, NEW x \in S
    PROVE  \E i \in 1..Cardinality(S) : f[i] = x
<1> DEFINE D == 1..Cardinality(S)
<1>1. Cardinality(S) \in Nat
  BY FS_CardinalityType
<1>2. IsFiniteSet(D) /\ Cardinality(D) = Cardinality(S)
  <2>1. 1 \in Int /\ Cardinality(S) \in Int
    BY <1>1
  <2>2. IsFiniteSet(D) /\ Cardinality(D) = IF 1 > Cardinality(S) THEN 0 ELSE Cardinality(S) - 1 + 1
    BY <2>1, FS_Interval
  <2> QED
    BY <1>1, <2>2
<1>3. f \in Injection(D, S)
  BY DEF Injection, IsInjective
<1>4. f \in Surjection(D, S)
  BY <1>2, <1>3, FS_Injection
<1> QED
  BY <1>4 DEF Surjection

Increasing(s) == \A i, k \in DOMAIN s : i < k => s[i] < s[k]

LEMMA AscendingExists ==
    ASSUME NEW R, R \subseteq Nat, IsFiniteSet(R)
    PROVE  \E s \in [1..Cardinality(R) -> R] : Increasing(s)
<1> DEFINE Has(S) == \E s \in [1..Cardinality(S) -> S] : Increasing(s)
           T == {n \in Nat : \A S \in SUBSET Nat : IsFiniteSet(S) /\ Cardinality(S) = n => Has(S)}
<1>1. 0 \in T
  <2>1. ASSUME NEW S \in SUBSET Nat, IsFiniteSet(S), Cardinality(S) = 0
        PROVE  Has(S)
    <3>1. PICK s : s = [i \in 1..0 |-> 0]
      OBVIOUS
    <3>2. s \in [1..Cardinality(S) -> S]
      BY <2>1, <3>1
    <3>3. Increasing(s)
      BY <3>1 DEF Increasing
    <3> QED
      BY <3>2, <3>3
  <2> QED
    BY <2>1
<1>2. ASSUME NEW n \in Nat, n \in T
      PROVE  n + 1 \in T
  <2>1. ASSUME NEW S \in SUBSET Nat, IsFiniteSet(S), Cardinality(S) = n + 1
        PROVE  Has(S)
    <3>1. S # {}
      BY <2>1, FS_EmptySet
    <3>2. PICK m \in S : \A x \in S : m <= x
      BY <3>1, Smallest
    <3> DEFINE U == S \ {m}
    <3>3. U \in SUBSET Nat /\ IsFiniteSet(U) /\ Cardinality(U) = n
      <4>1. IsFiniteSet(U) /\ Cardinality(U) = Cardinality(S) - 1
        BY <2>1, <3>2, FS_RemoveElement
      <4> QED
        BY <2>1, <4>1
    <3>4. Has(U)
      BY <1>2, <3>3
    <3>5. PICK s \in [1..n -> U] : Increasing(s)
      BY <3>3, <3>4
    <3>6. PICK t : t = [i \in 1..(n + 1) |-> IF i = 1 THEN m ELSE s[i - 1]]
      OBVIOUS
    <3>7. \A i \in 1..(n + 1) : i # 1 => i - 1 \in 1..n /\ s[i - 1] \in U /\ s[i - 1] \in Nat /\ m < s[i - 1]
      <4>1. \A i \in 1..(n + 1) : i # 1 => i - 1 \in 1..n
        OBVIOUS
      <4>2. \A x \in U : x \in Nat /\ m < x
        BY <3>2
      <4> QED
        BY <4>1, <4>2
    <3>8. t \in [1..Cardinality(S) -> S]
      <4>1. \A i \in 1..(n + 1) : t[i] \in S
        BY <3>6, <3>7
      <4> QED
        BY <2>1, <3>6, <4>1
    <3>9. ASSUME NEW i \in 1..(n + 1), NEW k \in 1..(n + 1), i < k
          PROVE  t[i] < t[k]
      <4>1. k # 1 /\ t[k] = s[k - 1] /\ k - 1 \in 1..n
        BY <3>6, <3>7, <3>9
      <4>2. CASE i = 1
        BY <3>6, <3>7, <4>1, <4>2
      <4>3. CASE i # 1
        <5>1. t[i] = s[i - 1] /\ i - 1 \in 1..n /\ i - 1 < k - 1
          BY <3>6, <3>7, <3>9, <4>3
        <5>2. DOMAIN s = 1..n
          BY <3>5
        <5> QED
          BY <3>5, <4>1, <5>1, <5>2 DEF Increasing
      <4> QED
        BY <4>2, <4>3
    <3>10. Increasing(t)
      <4>1. DOMAIN t = 1..(n + 1)
        BY <3>6
      <4> QED
        BY <3>9, <4>1 DEF Increasing
    <3> QED
      BY <3>8, <3>10
  <2> HIDE DEF Has
  <2> QED
    BY <2>1
<1> HIDE DEF T
<1>3. Nat \subseteq T
  BY <1>1, <1>2, Induction
<1>4. Cardinality(R) \in Nat
  BY FS_CardinalityType
<1>5. Cardinality(R) \in T
  BY <1>3, <1>4
<1> HIDE DEF Has
<1>6. Has(R)
  BY <1>5 DEF T
<1> QED
  BY <1>6 DEF Has

LEMMA AscendingHas ==
    ASSUME NEW R, R \subseteq Nat, IsFiniteSet(R)
    PROVE  /\ Cardinality(R) \in Nat
           /\ Ascending(R) \in [1..Cardinality(R) -> R]
           /\ Ascending(R) \in Seq(R) /\ Len(Ascending(R)) = Cardinality(R)
           /\ \A i, k \in 1..Cardinality(R) : i < k => Ascending(R)[i] < Ascending(R)[k]
           /\ \A i, k \in 1..Cardinality(R) : Ascending(R)[i] = Ascending(R)[k] => i = k
           /\ \A x \in R : \E i \in 1..Cardinality(R) : Ascending(R)[i] = x
<1> DEFINE N == Cardinality(R)
<1>1. N \in Nat
  BY FS_CardinalityType
<1>2. PICK a : a = Ascending(R)
  OBVIOUS
<1>3. a \in [1..N -> R] /\ Increasing(a)
  <2>1. \E s \in [1..N -> R] : \A i, k \in DOMAIN s : i < k => s[i] < s[k]
    BY AscendingExists DEF Increasing
  <2> QED
    BY <1>2, <2>1 DEF Ascending, Increasing
<1>4. ASSUME NEW i \in 1..N, NEW k \in 1..N
      PROVE  (i < k => a[i] < a[k]) /\ (a[i] = a[k] => i = k)
  <2>1. DOMAIN a = 1..N
    BY <1>3
  <2>2. \A x, y \in 1..N : x < y => a[x] < a[y]
    BY <1>3, <2>1 DEF Increasing
  <2>3. a[i] \in Nat /\ a[k] \in Nat
    BY <1>3
  <2>4. i < k \/ i = k \/ k < i
    BY <1>1
  <2> QED
    BY <2>2, <2>3, <2>4
<1>5. a \in Seq(R) /\ Len(a) = N
  BY <1>1, <1>3, FunSeq
<1>6. \A x \in R : \E i \in 1..N : a[i] = x
  <2>1. a \in [1..Cardinality(R) -> R] /\ \A i, k \in 1..Cardinality(R) : a[i] = a[k] => i = k
    BY <1>3, <1>4
  <2> HIDE DEF N
  <2>2. ASSUME NEW x \in R
        PROVE  \E i \in 1..Cardinality(R) : a[i] = x
    BY <2>1, InjectiveOnto
  <2> QED
    BY <2>2 DEF N
<1> QED
  BY <1>1, <1>2, <1>3, <1>4, <1>5, <1>6

----------------------------------------------------------------------------
(* Partial sums.                                                           *)

LEMMA SummingGrow ==
    ASSUME NEW seq \in Seq(Nat), NEW h, Summing(seq, h), NEW k \in 0..Len(seq)
    PROVE  \A l \in k..Len(seq) : h[k] \in Nat /\ h[l] \in Nat /\ h[k] <= h[l]
<1>1. Len(seq) \in Nat /\ \A l \in 1..Len(seq) : seq[l] \in Nat
  BY LenProperties, ElementOfSeq
<1>2. /\ \A l \in 0..Len(seq) : h[l] \in Nat
      /\ \A l \in 1..Len(seq) : h[l] = h[l - 1] + seq[l]
  BY DEF Summing
<1> DEFINE T == {l \in 0..Len(seq) : k <= l => h[k] <= h[l]}
<1>3. 0 \in T
  BY <1>1, <1>2
<1>4. ASSUME NEW l \in 0..(Len(seq) - 1), l \in T
      PROVE  l + 1 \in T
  <2>1. l \in 0..Len(seq) /\ l + 1 \in 1..Len(seq) /\ (l + 1) - 1 = l /\ l + 1 \in 0..Len(seq)
    BY <1>1
  <2>2. h[l + 1] = h[l] + seq[l + 1] /\ seq[l + 1] \in Nat /\ h[l] \in Nat /\ h[k] \in Nat
    BY <1>1, <1>2, <2>1
  <2>3. h[l] <= h[l + 1]
    BY <2>2
  <2>4. k <= l => h[k] <= h[l]
    BY <1>4
  <2>5. k <= l + 1 => k <= l \/ k = l + 1
    BY <1>1, <2>1
  <2>6. h[l + 1] \in Nat
    BY <1>2, <2>1
  <2>7. k <= l + 1 => h[k] <= h[l + 1]
    BY <2>2, <2>3, <2>4, <2>5, <2>6
  <2> QED
    BY <2>1, <2>7
<1> HIDE DEF T
<1>5. 0..Len(seq) \subseteq T
  BY <1>1, <1>3, <1>4, InductionTo
<1>6. ASSUME NEW l \in k..Len(seq)
      PROVE  h[k] \in Nat /\ h[l] \in Nat /\ h[k] <= h[l]
  <2>1. l \in 0..Len(seq) /\ k <= l
    BY <1>1
  <2> QED
    BY <1>2, <1>5, <2>1 DEF T
<1> QED
  BY <1>6

LEMMA SumAtLeast ==
    ASSUME NEW seq \in Seq(Nat)
    PROVE  Sum(seq) \in Nat /\ \A k \in 1..Len(seq) : seq[k] <= Sum(seq)
<1>1. PICK h : Summing(seq, h) /\ Sum(seq) = h[Len(seq)]
  BY SumOf
<1>2. Len(seq) \in Nat /\ \A l \in 1..Len(seq) : seq[l] \in Nat
  BY LenProperties, ElementOfSeq
<1>3. \A l \in 0..Len(seq) : h[l] \in Nat
  BY <1>1 DEF Summing
<1>4. ASSUME NEW k \in 1..Len(seq)
      PROVE  seq[k] <= Sum(seq)
  <2>1. k \in 0..Len(seq) /\ k - 1 \in 0..Len(seq) /\ Len(seq) \in k..Len(seq)
    BY <1>2
  <2>2. h[k] = h[k - 1] + seq[k]
    BY <1>1 DEF Summing
  <2>3. h[k] <= h[Len(seq)]
    BY <1>1, <2>1, SummingGrow
  <2>4. h[k - 1] \in Nat /\ h[k] \in Nat /\ h[Len(seq)] \in Nat /\ seq[k] \in Nat
    BY <1>2, <1>3, <2>1
  <2> QED
    BY <1>1, <2>2, <2>3, <2>4
<1>5. Len(seq) \in 0..Len(seq)
  BY <1>2
<1> QED
  BY <1>1, <1>3, <1>4, <1>5

LEMMA SumOne ==
    ASSUME NEW x \in Nat
    PROVE  Sum(<<x>>) = x
<1>1. PICK s : s = <<x>>
  OBVIOUS
<1>2. s \in Seq(Nat) /\ Len(s) = 1 /\ s[1] = x
  BY <1>1
<1>3. PICK h : Summing(s, h) /\ Sum(s) = h[Len(s)]
  BY <1>2, SumOf
<1>4. 1 \in 1..Len(s)
  BY <1>2
<1>5. h[0] = 0 /\ h[1] = h[1 - 1] + s[1]
  BY <1>3, <1>4 DEF Summing
<1> QED
  BY <1>1, <1>2, <1>3, <1>5

\* The sums of the beginnings of a sequence.
LEMMA PartialSums ==
    ASSUME NEW n \in Nat, NEW t \in [1..n -> Nat]
    PROVE  \E h : /\ Summing(t, h) /\ t \in Seq(Nat) /\ Len(t) = n
                  /\ \A m \in 0..n : Sum([k \in 1..m |-> t[k]]) = h[m]
<1>1. t \in Seq(Nat) /\ Len(t) = n
  BY FunSeq
<1>2. PICK h : Summing(t, h)
  BY <1>1, SumOf
<1>3. \A l \in 1..n : h[l] = h[l - 1] + t[l]
  BY <1>1, <1>2 DEF Summing
<1>4. ASSUME NEW m \in 0..n
      PROVE  Sum([k \in 1..m |-> t[k]]) = h[m]
  <2>1. PICK s : s = [k \in 1..m |-> t[k]]
    OBVIOUS
  <2>2. s \in [1..m -> Nat] /\ m \in Nat
    BY <2>1
  <2>3. s \in Seq(Nat) /\ Len(s) = m
    BY <2>2, FunSeq
  <2>4. PICK g : Summing(s, g) /\ Sum(s) = g[m]
    BY <2>3, SumOf
  <2> DEFINE T == {l \in 0..m : g[l] = h[l]}
  <2>5. 0 \in T
    BY <1>2, <2>2, <2>4 DEF Summing
  <2>6. ASSUME NEW l \in 0..(m - 1), l \in T
        PROVE  l + 1 \in T
    <3>1. l + 1 \in 1..m /\ l + 1 \in 1..n /\ (l + 1) - 1 = l /\ l + 1 \in 0..m
      BY <2>2
    <3>2. g[l + 1] = g[l] + s[l + 1]
      BY <2>3, <2>4, <3>1 DEF Summing
    <3>3. h[l + 1] = h[l] + t[l + 1]
      BY <1>3, <3>1
    <3> QED
      BY <2>1, <2>6, <3>1, <3>2, <3>3
  <2> HIDE DEF T
  <2>7. 0..m \subseteq T
    BY <2>2, <2>5, <2>6, InductionTo
  <2>8. m \in T
    BY <2>2, <2>7
  <2> QED
    BY <2>1, <2>4, <2>8 DEF T
<1> QED
  BY <1>1, <1>2, <1>4

----------------------------------------------------------------------------
(* Types of the constants and of the call.                                 *)

LEMMA PropsType ==
    /\ Len(PropSize) \in Nat \ {0} /\ Props = 1..Len(PropSize)
    /\ \A j \in Props : PropSize[j] \in Nat \ {0}
    /\ RowSize \in Nat \ {0}
<1>1. PropSize \in Seq(Nat \ {0}) /\ PropSize # <<>>
  BY PackingAssumption
<1>2. Len(PropSize) \in Nat \ {0}
  BY <1>1, EmptySeq
<1>3. Props = 1..Len(PropSize) /\ \A j \in Props : PropSize[j] \in Nat \ {0}
  BY <1>1, LenProperties, ElementOfSeq DEF Props
<1>4. PropSize \in Seq(Nat)
  <2>1. PropSize \in [1..Len(PropSize) -> Nat] /\ Len(PropSize) \in Nat
    BY <1>1, LenProperties
  <2> QED
    BY <2>1, FunSeq
<1>5. Sum(PropSize) \in Nat /\ \A j \in 1..Len(PropSize) : PropSize[j] <= Sum(PropSize)
  BY <1>4, SumAtLeast
<1>6. RowSize = Sum(PropSize)
  BY DEF RowSize, Sum
<1>7. 1 \in 1..Len(PropSize) /\ PropSize[1] \in Nat \ {0}
  BY <1>2, <1>3
<1> QED
  BY <1>2, <1>3, <1>5, <1>6, <1>7

LEMMA CallType ==
    ASSUME call \in Calls
    PROVE  /\ call.form \in {"SSendRecv", "SGather", "SScatter"} /\ call.root \in Proc
           /\ call.layout \in {"packed", "lin", "inte"} /\ call.base \in {"lin", "inte"}
           /\ call.opt \in {"NONE", "RECEIVE_KNOWN", "KNOWN_ELEMENT"}
           /\ call.direct \in BOOLEAN /\ call.aware \in BOOLEAN /\ call.prps \in Seq(Props)
           /\ call.op \in {"add", "merge", "merge_gpu", "gg_recv_merge", "gg_recv_merge_run_device"}
           /\ \A p \in Proc : Objects(p) \in Seq([dst : Proc, n : Nat])
           /\ AsDeclared(call)
<1>1. call \in Call /\ AsDeclared(call)
  BY PackingAssumption
<1> QED
  BY <1>1 DEF Call, Objects

LEMMA ObjectsType ==
    ASSUME call \in Calls, NEW p \in Proc
    PROVE  /\ Len(Objects(p)) \in Nat /\ DOMAIN Objects(p) = 1..Len(Objects(p))
           /\ \A i \in 1..Len(Objects(p)) :
                 Objects(p)[i] \in [dst : Proc, n : Nat] /\ Objects(p)[i].dst \in Proc /\ Objects(p)[i].n \in Nat
<1>1. Objects(p) \in Seq([dst : Proc, n : Nat])
  BY CallType
<1>2. Len(Objects(p)) \in Nat /\ DOMAIN Objects(p) = 1..Len(Objects(p))
  BY <1>1, LenProperties
<1>3. \A i \in 1..Len(Objects(p)) : Objects(p)[i] \in [dst : Proc, n : Nat]
  BY <1>1, ElementOfSeq
<1> QED
  BY <1>2, <1>3

----------------------------------------------------------------------------
(* Packing.                                                                *)

\* The buffers of an object, and the place of one of them in the lists.
Parts == IF call.layout = "inte" THEN Len(PropSize) ELSE 1
Place(i, j) == (i - 1) * Parts + j
Sized(o) == o.n # 0 \/ call.layout = "packed"
Bufs == [src : Nat, obj : Nat, n : Nat, prp : SUBSET Props, current : BOOLEAN]

LEMMA PartsType ==
    Parts \in Nat \ {0}
BY PropsType DEF Parts

LEMMA RequestType ==
    ASSUME call \in Calls, NEW o, o.n \in Nat
    PROVE  /\ packingRequest(o) \in Seq(Nat) /\ Len(packingRequest(o)) = Parts
           /\ \A j \in 1..Parts : packingRequest(o)[j] \in Nat /\ (packingRequest(o)[j] # 0 <=> Sized(o))
<1>1. RowSize \in Nat \ {0} /\ Header \in Nat \ {0} /\ Len(PropSize) \in Nat \ {0}
      /\ Props = 1..Len(PropSize) /\ \A j \in Props : PropSize[j] \in Nat \ {0}
  BY PropsType, PackingAssumption
<1>0. ASSUME NEW a \in Nat, NEW b \in Nat \ {0}
      PROVE  a * b \in Nat /\ (a * b # 0 <=> a # 0)
  <2>1. a * b \in Nat
    BY Times
  <2>2. a # 0 => a * b # 0
    <3>1. SUFFICES ASSUME a # 0
                   PROVE  a * b # 0
      OBVIOUS
    <3>2. 0 * b + b <= a * b
      BY <3>1, TimesGrow
    <3> QED
      BY <2>1, <3>2
  <2> QED
    BY <2>1, <2>2
<1>2. CASE call.layout = "packed"
  <2>1. packingRequest(o) = <<Header + o.n * RowSize>> /\ Parts = 1
    BY <1>2 DEF packingRequest, Parts
  <2>2. o.n * RowSize \in Nat
    BY <1>0, <1>1
  <2>3. Header + o.n * RowSize \in Nat \ {0}
    BY <1>1, <2>2
  <2> QED
    BY <1>2, <2>1, <2>3 DEF Sized
<1>3. CASE call.layout = "lin"
  <2>1. packingRequest(o) = <<o.n * RowSize>> /\ Parts = 1
    BY <1>3 DEF packingRequest, Parts
  <2>2. o.n * RowSize \in Nat /\ (o.n * RowSize # 0 <=> o.n # 0)
    BY <1>0, <1>1
  <2> QED
    BY <1>3, <2>1, <2>2 DEF Sized
<1>4. CASE call.layout = "inte"
  <2>1. packingRequest(o) = [j \in 1..Len(PropSize) |-> o.n * PropSize[j]] /\ Parts = Len(PropSize)
    BY <1>1, <1>4 DEF packingRequest, Parts
  <2>2. \A j \in 1..Len(PropSize) : o.n * PropSize[j] \in Nat /\ (o.n * PropSize[j] # 0 <=> o.n # 0)
    BY <1>0, <1>1
  <2>3. packingRequest(o) \in [1..Len(PropSize) -> Nat]
    BY <2>1, <2>2
  <2>4. packingRequest(o) \in Seq(Nat) /\ Len(packingRequest(o)) = Len(PropSize)
    BY <1>1, <2>3, FunSeq
  <2> QED
    BY <1>4, <2>1, <2>2, <2>4 DEF Sized
<1> QED
  BY <1>2, <1>3, <1>4, CallType

\* Where the objects of a rank begin.
LEMMA EndsGrow ==
    ASSUME call \in Calls, NEW p \in Proc
    PROVE  /\ \A i \in 1..Len(Objects(p)) : EndOf(p, i) \in Nat
           /\ \A i \in 1..Len(Objects(p)), k \in 1..Len(Objects(p)) :
                 i < k => EndOf(p, i) + Sum(packingRequest(Objects(p)[i])) <= EndOf(p, k)
<1> DEFINE N == Len(Objects(p))
<1>1. N \in Nat
  BY ObjectsType
<1>2. \A k \in 1..N : Sum(packingRequest(Objects(p)[k])) \in Nat
  BY ObjectsType, RequestType, SumAtLeast
<1>3. PICK t : t = [k \in 1..N |-> Sum(packingRequest(Objects(p)[k]))]
  OBVIOUS
<1> HIDE DEF N
<1>4. t \in [1..N -> Nat]
  BY <1>2, <1>3
<1>5. PICK h : /\ Summing(t, h) /\ t \in Seq(Nat) /\ Len(t) = N
               /\ \A m \in 0..N : Sum([k \in 1..m |-> t[k]]) = h[m]
  BY <1>1, <1>4, PartialSums
<1>6. ASSUME NEW i \in 1..N
      PROVE  EndOf(p, i) = h[i - 1] /\ i - 1 \in 0..N
  <2>1. i - 1 \in 0..N
    BY <1>1
  <2>2. [k \in 1..(i - 1) |-> Sum(packingRequest(Objects(p)[k]))] = [k \in 1..(i - 1) |-> t[k]]
    BY <1>1, <1>3
  <2>3. Sum([k \in 1..(i - 1) |-> t[k]]) = h[i - 1]
    BY <1>5, <2>1
  <2> QED
    BY <2>1, <2>2, <2>3 DEF EndOf
<1>7. \A m \in 0..N : h[m] \in Nat
  BY <1>5 DEF Summing
<1>8. ASSUME NEW i \in 1..N, NEW k \in 1..N, i < k
      PROVE  EndOf(p, i) + Sum(packingRequest(Objects(p)[i])) <= EndOf(p, k)
  <2>1. h[i] = h[i - 1] + t[i]
    BY <1>5 DEF Summing
  <2>2. i \in 0..N /\ k - 1 \in i..N
    BY <1>1, <1>8
  <2>3. h[i] <= h[k - 1]
    BY <1>5, <2>2, SummingGrow
  <2> QED
    BY <1>3, <1>6, <2>1, <2>3
<1> QED
  BY <1>6, <1>7, <1>8 DEF N

\* What lies where an object was packed is that object, or an empty one that is
\* not sent.
LEMMA WhatBegins ==
    ASSUME call \in Calls, NEW p \in Proc, NEW i \in 1..Len(Objects(p))
    PROVE  /\ Beginning(p, EndOf(p, i)) \in 1..Len(Objects(p))
           /\ Sized(Objects(p)[i]) => Beginning(p, EndOf(p, i)) = i
<1> DEFINE N == Len(Objects(p))
           here == {k \in 1..N : EndOf(p, k) = EndOf(p, i)}
<1>1. N \in Nat /\ DOMAIN Objects(p) = 1..N
  BY ObjectsType
<1>2. PICK b : b = Beginning(p, EndOf(p, i))
  OBVIOUS
<1>3. here \in SUBSET (1..N) /\ here # {}
  OBVIOUS
<1>4. \E k \in here : \A l \in here : l <= k
  <2>1. Max(here) \in here /\ \A y \in here : Max(here) >= y
    BY <1>1, <1>3, Largest
  <2>2. Max(here) \in Nat
    BY <2>1
  <2> QED
    BY <2>1, <2>2
<1>5. b = CHOOSE k \in here : \A l \in here : l <= k
  BY <1>1, <1>2, <1>3 DEF Beginning
<1>6. b \in here /\ \A l \in here : l <= b
  BY <1>4, <1>5
<1>7. ASSUME Sized(Objects(p)[i]), i < b
      PROVE  FALSE
  <2>1. EndOf(p, i) \in Nat /\ EndOf(p, i) + Sum(packingRequest(Objects(p)[i])) <= EndOf(p, b)
    BY <1>6, <1>7, EndsGrow
  <2>2. EndOf(p, b) = EndOf(p, i)
    BY <1>6
  <2>3. /\ packingRequest(Objects(p)[i]) \in Seq(Nat)
        /\ 1 \in 1..Len(packingRequest(Objects(p)[i]))
        /\ packingRequest(Objects(p)[i])[1] \in Nat \ {0}
    <3>1. 1 \in 1..Parts
      BY PartsType
    <3> QED
      BY <1>7, <3>1, ObjectsType, RequestType
  <2>4. Sum(packingRequest(Objects(p)[i])) \in Nat \ {0}
    BY <2>3, SumAtLeast
  <2> QED
    BY <2>1, <2>2, <2>4
<1>8. i <= b /\ i \in Nat /\ b \in Nat
  BY <1>1, <1>6
<1>9. Sized(Objects(p)[i]) => b = i
  BY <1>7, <1>8
<1> QED
  BY <1>2, <1>6, <1>9

\* What the buffers of an object are.
IsBuffer(b, p, k, prp, current) ==
    b \in Bufs /\ b.src = p /\ b.obj = k /\ b.n = Objects(p)[k].n /\ b.prp = prp /\ b.current = current

LEMMA BufferType ==
    ASSUME call \in Calls, NEW p \in Proc, NEW k \in 1..Len(Objects(p)), NEW prp \in SUBSET Props,
           NEW current \in BOOLEAN
    PROVE  IsBuffer(Buffer(p, k, prp, current), p, k, prp, current)
<1>1. k # 0 /\ k \in Nat /\ p \in Nat /\ Objects(p)[k].n \in Nat
  BY ObjectsType, PackingAssumption
<1>2. Buffer(p, k, prp, current) =
         [src |-> p, obj |-> k, n |-> Objects(p)[k].n, prp |-> prp, current |-> current]
  BY <1>1 DEF Buffer
<1> QED
  BY <1>1, <1>2 DEF IsBuffer, Bufs

\* Which object buffer j of object i holds, with which properties, and if they are what
\* the application has.
Holds(p, i, j) ==
    IsBuffer(packing(p, i)[j], p,
             IF call.form = "SScatter" THEN Beginning(p, EndOf(p, i)) ELSE i,
             IF call.layout = "inte" THEN {j} ELSE Props,
             call.layout = "inte" \/ ~call.direct)

LEMMA PackingType ==
    ASSUME call \in Calls, NEW p \in Proc, NEW i \in 1..Len(Objects(p))
    PROVE  /\ packing(p, i) \in Seq(Bufs) /\ Len(packing(p, i)) = Parts
           /\ \A j \in 1..Parts : packing(p, i)[j] \in Bufs /\ Holds(p, i, j)
<1>1. /\ call.direct \in BOOLEAN /\ call.aware \in BOOLEAN
      /\ call.layout \in {"packed", "lin", "inte"} /\ (call.form = "SScatter" => call.layout = "lin")
  BY CallType DEF AsDeclared
<1>2. Len(PropSize) \in Nat \ {0} /\ Props = 1..Len(PropSize)
  BY PropsType
<1>3. (Home = "host") = (~call.direct) /\ (~call.direct) \in BOOLEAN
  BY <1>1 DEF Home
<1> DEFINE K == IF call.form = "SScatter" THEN Beginning(p, EndOf(p, i)) ELSE i
<1>4. CASE call.layout # "inte"
  <2>1. packing(p, i) = <<Buffer(p, K, Props, Home = "host")>>
    <3>1. call.layout = "packed" => Beginning(p, EndOf(p, i)) = i
      BY WhatBegins DEF Sized
    <3> QED
      BY <1>1, <1>4, <3>1 DEF packing, PointerEnd
  <2>2. K \in 1..Len(Objects(p))
    BY WhatBegins
  <2> HIDE DEF K
  <2>3. PICK b : b = Buffer(p, K, Props, ~call.direct)
    OBVIOUS
  <2>4. packing(p, i) = <<b>>
    BY <1>3, <2>1, <2>3, Zenon
  <2>5. IsBuffer(b, p, K, Props, ~call.direct)
    <3>1. Props \in SUBSET Props
      OBVIOUS
    <3>2. IsBuffer(Buffer(p, K, Props, ~call.direct), p, K, Props, ~call.direct)
      BY <1>3, <2>2, <3>1, BufferType, Zenon
    <3> QED
      BY <2>3, <3>2, Zenon
  <2>6. b \in Bufs
    BY <2>5 DEF IsBuffer
  <2>7. packing(p, i) \in Seq(Bufs) /\ Len(packing(p, i)) = 1 /\ packing(p, i)[1] = b
    BY <2>4, <2>6
  <2>8. Parts = 1
    BY <1>4 DEF Parts
  <2>9. (call.layout = "inte" \/ ~call.direct) = (~call.direct)
    BY <1>1, <1>4
  <2>10. (IF call.layout = "inte" THEN {1} ELSE Props) = Props
    BY <1>4
  <2>11. Holds(p, i, 1)
    BY <2>5, <2>7, <2>9, <2>10, Zenon DEF Holds, K
  <2>12. \A j \in 1..1 : j = 1
    OBVIOUS
  <2> QED
    BY <2>6, <2>7, <2>8, <2>11, <2>12
<1>5. CASE call.layout = "inte"
  <2> DEFINE at == IF call.direct /\ call.aware THEN "device" ELSE "host"
             copied == call.direct /\ ~call.aware
  <2>1. packing(p, i) = [j \in Props |-> Buffer(p, i, {j}, at = Home \/ copied)] /\ Parts = Len(PropSize)
    BY <1>1, <1>5 DEF packing, Parts, set_buf_pointer_for_each_prop
  <2>2. (at = Home \/ copied) = TRUE
    BY <1>1 DEF Home
  <2> HIDE DEF at, copied
  <2>3. ASSUME NEW j \in 1..Len(PropSize)
        PROVE  packing(p, i)[j] \in Bufs /\ Holds(p, i, j)
    <3>1. {j} \in SUBSET Props /\ j \in Props
      BY <1>2
    <3>2. packing(p, i)[j] = Buffer(p, i, {j}, at = Home \/ copied)
      BY <2>1, <3>1
    <3>3. packing(p, i)[j] = Buffer(p, i, {j}, TRUE)
      BY <2>2, <3>2, Zenon
    <3>4. TRUE \in BOOLEAN
      OBVIOUS
    <3>5. IsBuffer(Buffer(p, i, {j}, TRUE), p, i, {j}, TRUE)
      BY <3>1, <3>4, BufferType, Zenon
    <3>6. (call.layout = "inte" \/ ~call.direct) = TRUE
      BY <1>1, <1>5
    <3>7. (IF call.layout = "inte" THEN {j} ELSE Props) = {j}
          /\ (IF call.form = "SScatter" THEN Beginning(p, EndOf(p, i)) ELSE i) = i
      BY <1>1, <1>5
    <3>8. Holds(p, i, j)
      BY <3>3, <3>5, <3>6, <3>7, Zenon DEF Holds
    <3>9. packing(p, i)[j] \in Bufs
      BY <3>3, <3>5 DEF IsBuffer
    <3> QED
      BY <3>8, <3>9
  <2>6. packing(p, i) \in [1..Len(PropSize) -> Bufs]
    BY <1>2, <2>1, <2>3
  <2>7. packing(p, i) \in Seq(Bufs) /\ Len(packing(p, i)) = Len(PropSize)
    BY <1>2, <2>6, FunSeq
  <2> QED
    BY <2>1, <2>3, <2>7
<1> QED
  BY <1>4, <1>5

\* The same without the value that counts.
LEMMA PackingOf ==
    ASSUME call \in Calls, NEW p \in Proc, NEW i \in 1..Len(Objects(p)), NEW j \in 1..Parts
    PROVE  /\ packing(p, i)[j].src = p
           /\ packing(p, i)[j].obj \in 1..Len(Objects(p))
           /\ (Sized(Objects(p)[i]) \/ call.form # "SScatter" =>
                  packing(p, i)[j].obj = i /\ packing(p, i)[j].n = Objects(p)[i].n)
<1>1. Holds(p, i, j)
  BY PackingType
<1> DEFINE K == IF call.form = "SScatter" THEN Beginning(p, EndOf(p, i)) ELSE i
<1>2. K \in 1..Len(Objects(p)) /\ (Sized(Objects(p)[i]) \/ call.form # "SScatter" => K = i)
  BY WhatBegins
<1>3. /\ packing(p, i)[j].src = p /\ packing(p, i)[j].obj = K
      /\ packing(p, i)[j].n = Objects(p)[K].n
      /\ packing(p, i)[j].prp = IF call.layout = "inte" THEN {j} ELSE Props
  BY <1>1 DEF Holds, IsBuffer
<1> QED
  BY <1>2, <1>3

LEMMA PackingPrp ==
    ASSUME call \in Calls, NEW p \in Proc, NEW i \in 1..Len(Objects(p)), NEW j \in 1..Parts
    PROVE  packing(p, i)[j].prp = IF call.layout = "inte" THEN {j} ELSE Props
<1>1. Holds(p, i, j)
  BY PackingType
<1> QED
  BY <1>1 DEF Holds, IsBuffer

----------------------------------------------------------------------------
(* The lists of what is sent.                                              *)

Listed(f, p, ss) ==
    /\ Len(f) = Len(Objects(p)) * Parts
    /\ \A i \in 1..Len(Objects(p)), j \in 1..Parts :
          Place(i, j) \in 1..(Len(Objects(p)) * Parts) /\ f[Place(i, j)] = ss[i][j]
    /\ \A l \in 1..(Len(Objects(p)) * Parts) :
          \E i \in 1..Len(Objects(p)), j \in 1..Parts : l = Place(i, j)

LEMMA Lists ==
    ASSUME call \in Calls, NEW p \in Proc, NEW S, NEW ss \in [1..Len(Objects(p)) -> Seq(S)],
           \A i \in 1..Len(Objects(p)) : Len(ss[i]) = Parts
    PROVE  FlattenSeq(ss) \in Seq(S) /\ Listed(FlattenSeq(ss), p, ss)
<1>1. Len(Objects(p)) \in Nat /\ Parts \in Nat
  BY ObjectsType, PartsType
<1>2. ss \in Seq(Seq(S)) /\ Len(ss) = Len(Objects(p))
  BY <1>1, FunSeq
<1>3. UniformParts(ss, Parts)
  BY <1>2 DEF UniformParts
<1>4. FlattenSeq(ss) \in Seq(S) /\ Uniform(FlattenSeq(ss), ss, Parts)
  BY <1>1, <1>2, <1>3, FlatUniform
<1> QED
  BY <1>2, <1>4 DEF Place, Uniform, Listed

LEMMA SendBuf ==
    ASSUME call \in Calls, NEW p \in Proc
    PROVE  /\ send_buf(p) \in Seq(Bufs) /\ Len(send_buf(p)) = Len(Objects(p)) * Parts
           /\ \A i \in 1..Len(Objects(p)), j \in 1..Parts : send_buf(p)[Place(i, j)] = packing(p, i)[j]
<1>1. PICK ss : ss = [i \in 1..Len(Objects(p)) |-> packing(p, i)]
  OBVIOUS
<1>2. ss \in [1..Len(Objects(p)) -> Seq(Bufs)] /\ \A i \in 1..Len(Objects(p)) : Len(ss[i]) = Parts
  BY <1>1, PackingType
<1>3. send_buf(p) = FlattenSeq(ss)
  BY <1>1, ObjectsType DEF send_buf
<1> QED
  <2>1. FlattenSeq(ss) \in Seq(Bufs) /\ Listed(FlattenSeq(ss), p, ss)
    BY <1>2, Lists
  <2> QED
    BY <1>1, <1>3, <2>1 DEF Listed

LEMMA SendSizes ==
    ASSUME call \in Calls, NEW p \in Proc
    PROVE  /\ send_sz_byte(p) \in Seq(Nat) /\ Len(send_sz_byte(p)) = Len(Objects(p)) * Parts
           /\ \A i \in 1..Len(Objects(p)), j \in 1..Parts :
                 send_sz_byte(p)[Place(i, j)] = packingRequest(Objects(p)[i])[j]
<1>1. PICK ss : ss = [i \in 1..Len(Objects(p)) |-> packingRequest(Objects(p)[i])]
  OBVIOUS
<1>4. \A i \in 1..Len(Objects(p)) : Objects(p)[i].n \in Nat
  BY ObjectsType
<1>2. ss \in [1..Len(Objects(p)) -> Seq(Nat)] /\ \A i \in 1..Len(Objects(p)) : Len(ss[i]) = Parts
  BY <1>1, <1>4, RequestType
<1>3. send_sz_byte(p) = FlattenSeq(ss)
  BY <1>1, ObjectsType DEF send_sz_byte
<1> QED
  <2>1. FlattenSeq(ss) \in Seq(Nat) /\ Listed(FlattenSeq(ss), p, ss)
    BY <1>2, Lists
  <2> QED
    BY <1>1, <1>3, <2>1 DEF Listed

LEMMA PrcSend ==
    ASSUME call \in Calls, NEW p \in Proc
    PROVE  /\ prc_send(p) \in Seq(Proc) /\ Len(prc_send(p)) = Len(Objects(p))
           /\ \A i \in 1..Len(Objects(p)) : prc_send(p)[i] = Objects(p)[i].dst
<1>1. Len(Objects(p)) \in Nat /\ prc_send(p) = [i \in 1..Len(Objects(p)) |-> Objects(p)[i].dst]
  BY ObjectsType DEF prc_send
<1>2. prc_send(p) \in [1..Len(Objects(p)) -> Proc]
  BY <1>1, ObjectsType
<1> QED
  BY <1>1, <1>2, FunSeq

LEMMA PlaceOne ==
    ASSUME Parts = 1, NEW i \in Nat
    PROVE  Place(i, 1) = i
BY DEF Place

LEMMA ConstructPrc ==
    ASSUME call \in Calls, NEW p \in Proc
    PROVE  /\ construct_prc(p) \in Seq(Proc) /\ Len(construct_prc(p)) = Len(Objects(p)) * Parts
           /\ \A i \in 1..Len(Objects(p)), j \in 1..Parts : construct_prc(p)[Place(i, j)] = Objects(p)[i].dst
<1>1. CASE call.layout = "inte"
  <2>1. PICK ss : ss = [i \in 1..Len(Objects(p)) |-> [j \in 1..Parts |-> Objects(p)[i].dst]]
    OBVIOUS
  <2>2. construct_prc(p) = FlattenSeq(ss)
    <3>1. \A i \in 1..Len(Objects(p)) : prc_send(p)[i] = Objects(p)[i].dst
      BY PrcSend
    <3>2. Props = 1..Parts /\ DOMAIN Objects(p) = 1..Len(Objects(p))
      BY <1>1, PropsType, ObjectsType DEF Parts
    <3>3. [i \in DOMAIN Objects(p) |-> [j \in Props |-> prc_send(p)[i]]] = ss
      BY <2>1, <3>1, <3>2
    <3> QED
      BY <1>1, <3>3 DEF construct_prc
  <2>3. ASSUME NEW i \in 1..Len(Objects(p))
        PROVE  ss[i] \in Seq(Proc) /\ Len(ss[i]) = Parts
    <3>1. ss[i] = [j \in 1..Parts |-> Objects(p)[i].dst]
      BY <2>1
    <3>2. ss[i] \in [1..Parts -> Proc]
      BY <3>1, ObjectsType
    <3>3. Parts \in Nat
      BY PartsType
    <3> QED
      BY <3>2, <3>3, FunSeq
  <2>4. ss \in [1..Len(Objects(p)) -> Seq(Proc)] /\ \A i \in 1..Len(Objects(p)) : Len(ss[i]) = Parts
    BY <2>1, <2>3
  <2>5. FlattenSeq(ss) \in Seq(Proc) /\ Listed(FlattenSeq(ss), p, ss)
    BY <2>4, Lists
  <2> QED
    BY <2>1, <2>2, <2>5 DEF Listed
<1>2. CASE call.layout # "inte"
  <2>1. construct_prc(p) = prc_send(p) /\ Parts = 1
    BY <1>2 DEF construct_prc, Parts
  <2>2. Len(Objects(p)) \in Nat /\ Len(Objects(p)) * Parts = Len(Objects(p))
    BY <2>1, ObjectsType
  <2>3. ASSUME NEW i \in 1..Len(Objects(p)), NEW j \in 1..Parts
        PROVE  construct_prc(p)[Place(i, j)] = Objects(p)[i].dst
    <3>1. j = 1 /\ i \in Nat
      BY <2>1, <2>2
    <3>2. Place(i, j) = i
      BY <2>1, <3>1, PlaceOne
    <3> QED
      BY <2>1, <3>2, PrcSend
  <2> QED
    BY <2>1, <2>2, <2>3, PrcSend
<1> QED
  BY <1>1, <1>2

Messages == [src : Proc, dst : Proc, tag : Nat, bytes : Nat, of : Bufs, at : {"wire", "host", "device"}]

LEMMA OutgoingType ==
    ASSUME call \in Calls, NEW p \in Proc, NEW m \in Outgoing(p)
    PROVE  m \in Messages /\ m.src = p /\ m.at = "wire" /\ m.tag # 0
<1> DEFINE prc == IF Known THEN prc_send(p) ELSE construct_prc(p)
<1>1. PICK k \in DOMAIN prc :
         m = [src |-> p, dst |-> prc[k], tag |-> k, bytes |-> send_sz_byte(p)[k], of |-> send_buf(p)[k], at |-> "wire"]
  BY DEF Outgoing
<1>2. Len(Objects(p)) \in Nat /\ Parts \in Nat \ {0}
  BY ObjectsType, PartsType
<1>3. Len(Objects(p)) * Parts \in Nat /\ Len(Objects(p)) <= Len(Objects(p)) * Parts
  <2>1. CASE Len(Objects(p)) = 0
    BY <1>2, <2>1
  <2>2. CASE Len(Objects(p)) # 0
    <3> DEFINE N == Len(Objects(p))
               P == Parts - 1
    <3>1. N \in Nat /\ P \in Nat /\ Parts = P + 1
      BY <1>2
    <3>2. N * (P + 1) = N * P + N /\ N * P \in Nat
      BY <3>1, Times
    <3> QED
      BY <3>1, <3>2
  <2> QED
    BY <2>1, <2>2
<1>4. prc \in Seq(Proc) /\ Len(prc) <= Len(Objects(p)) * Parts
  BY <1>3, PrcSend, ConstructPrc
<1> HIDE DEF prc
<1>5. k \in 1..Len(prc) /\ k \in Nat /\ prc[k] \in Proc
  BY <1>4, LenProperties, ElementOfSeq
<1>6. k \in 1..Len(send_sz_byte(p)) /\ k \in 1..Len(send_buf(p))
  <2>1. k <= Len(Objects(p)) * Parts
    <3>1. Len(prc) \in Nat
      BY <1>4, LenProperties
    <3> QED
      BY <1>3, <1>4, <1>5, <3>1
  <2> QED
    BY <1>3, <1>5, <2>1, SendBuf, SendSizes
<1>7. send_sz_byte(p)[k] \in Nat /\ send_buf(p)[k] \in Bufs
  BY <1>6, SendBuf, SendSizes, ElementOfSeq
<1>8. k # 0
  <2>1. Len(prc) \in Nat
    BY <1>4, LenProperties
  <2> QED
    BY <1>5, <2>1
<1> QED
  BY <1>1, <1>5, <1>7, <1>8 DEF Messages

\* Buffer j of object i as a message.
MessageOf(p, i, j) ==
    [src |-> p, dst |-> Objects(p)[i].dst, tag |-> Place(i, j),
     bytes |-> packingRequest(Objects(p)[i])[j], of |-> packing(p, i)[j], at |-> "wire"]

LEMMA OutgoingOf ==
    ASSUME call \in Calls, NEW p \in Proc, Known => call.layout # "inte"
    PROVE  /\ \A m \in Outgoing(p) :
                 Sends(p) /\ \E i \in 1..Len(Objects(p)), j \in 1..Parts :
                                (Known \/ Sized(Objects(p)[i])) /\ m = MessageOf(p, i, j)
           /\ \A i \in 1..Len(Objects(p)), j \in 1..Parts :
                 Sends(p) /\ (Known \/ Sized(Objects(p)[i])) => MessageOf(p, i, j) \in Outgoing(p)
<1> DEFINE prc == IF Known THEN prc_send(p) ELSE construct_prc(p)
           N == Len(Objects(p))
<1>1. N \in Nat /\ Parts \in Nat \ {0} /\ N * Parts \in Nat
  BY ObjectsType, PartsType, Times
<1>2. /\ prc \in Seq(Proc) /\ Len(prc) = N * Parts
      /\ \A i \in 1..N, j \in 1..Parts : prc[Place(i, j)] = Objects(p)[i].dst
  <2>1. CASE Known
    <3>1. Parts = 1
      BY <2>1 DEF Parts
    <3>2. prc = construct_prc(p)
      BY <2>1 DEF construct_prc
    <3> QED
      BY <3>2, ConstructPrc
  <2>2. CASE ~Known
    BY <2>2, ConstructPrc
  <2> QED
    BY <2>1, <2>2
<1> HIDE DEF prc
<1>3. DOMAIN prc = 1..(N * Parts)
  BY <1>2, LenProperties
<1>4. /\ \A i \in 1..N, j \in 1..Parts : Place(i, j) \in 1..(N * Parts)
      /\ \A l \in 1..(N * Parts) : \E i \in 1..N, j \in 1..Parts : l = Place(i, j)
  <2>1. PICK ss : ss = [i \in 1..N |-> packing(p, i)]
    OBVIOUS
  <2>2. ss \in [1..N -> Seq(Bufs)] /\ \A i \in 1..N : Len(ss[i]) = Parts
    BY <2>1, PackingType
  <2>3. Listed(FlattenSeq(ss), p, ss)
    BY <2>2, Lists
  <2> QED
    BY <2>3 DEF Listed
<1>5. ASSUME NEW i \in 1..N, NEW j \in 1..Parts
      PROVE  /\ MessageOf(p, i, j) =
                   [src |-> p, dst |-> prc[Place(i, j)], tag |-> Place(i, j),
                    bytes |-> send_sz_byte(p)[Place(i, j)], of |-> send_buf(p)[Place(i, j)], at |-> "wire"]
             /\ send_sz_byte(p)[Place(i, j)] # 0 <=> Sized(Objects(p)[i])
  <2>1. send_sz_byte(p)[Place(i, j)] = packingRequest(Objects(p)[i])[j]
    BY SendSizes
  <2>2. send_buf(p)[Place(i, j)] = packing(p, i)[j]
    BY SendBuf
  <2>3. prc[Place(i, j)] = Objects(p)[i].dst
    BY <1>2
  <2>4. Objects(p)[i].n \in Nat
    BY ObjectsType
  <2>5. packingRequest(Objects(p)[i])[j] # 0 <=> Sized(Objects(p)[i])
    BY <2>4, RequestType
  <2> QED
    BY <2>1, <2>2, <2>3, <2>5 DEF MessageOf
<1>6. Outgoing(p) =
         IF ~Sends(p) THEN {}
         ELSE {[src |-> p, dst |-> prc[k], tag |-> k, bytes |-> send_sz_byte(p)[k], of |-> send_buf(p)[k], at |-> "wire"] :
                k \in {l \in DOMAIN prc : Known \/ send_sz_byte(p)[l] # 0}}
  BY DEF Outgoing, prc
<1>7. ASSUME NEW m \in Outgoing(p)
      PROVE  Sends(p) /\ \E i \in 1..N, j \in 1..Parts : (Known \/ Sized(Objects(p)[i])) /\ m = MessageOf(p, i, j)
  <2>1. Sends(p)
    BY <1>6
  <2>2. PICK k \in 1..(N * Parts) :
           /\ Known \/ send_sz_byte(p)[k] # 0
           /\ m = [src |-> p, dst |-> prc[k], tag |-> k, bytes |-> send_sz_byte(p)[k], of |-> send_buf(p)[k], at |-> "wire"]
    BY <1>3, <1>6, <2>1
  <2>3. PICK i \in 1..N, j \in 1..Parts : k = Place(i, j)
    BY <1>4
  <2>4. m = MessageOf(p, i, j) /\ (Known \/ Sized(Objects(p)[i]))
    BY <1>5, <2>2, <2>3
  <2> QED
    BY <2>1, <2>4
<1>8. ASSUME NEW i \in 1..N, NEW j \in 1..Parts, Sends(p), Known \/ Sized(Objects(p)[i])
      PROVE  MessageOf(p, i, j) \in Outgoing(p)
  <2>1. Place(i, j) \in DOMAIN prc /\ (Known \/ send_sz_byte(p)[Place(i, j)] # 0)
    BY <1>3, <1>4, <1>5, <1>8
  <2>2. PICK k \in {l \in DOMAIN prc : Known \/ send_sz_byte(p)[l] # 0} : k = Place(i, j)
    BY <2>1
  <2>3. MessageOf(p, i, j) =
           [src |-> p, dst |-> prc[k], tag |-> k, bytes |-> send_sz_byte(p)[k], of |-> send_buf(p)[k], at |-> "wire"]
    BY <1>5, <2>2
  <2> QED
    BY <1>6, <1>8, <2>2, <2>3
<1> QED
  BY <1>7, <1>8

----------------------------------------------------------------------------
(* Sorting.                                                                *)

StrictOrder(R, D) ==
    /\ \A i \in D : <<i, i>> \notin R
    /\ \A i, k \in D : i # k => <<i, k>> \in R \/ <<k, i>> \in R
    /\ \A i, k, l \in D : <<i, k>> \in R /\ <<k, l>> \in R => <<i, l>> \in R

SortedBy(f, N, R) ==
    /\ f \in [1..N -> 1..N]
    /\ \A x \in 1..N : \E n \in 1..N : f[n] = x
    /\ \A n, k \in 1..N : n < k => <<f[n], f[k]>> \in R

LEMMA IntervalSize ==
    ASSUME NEW N \in Nat
    PROVE  IsFiniteSet(1..N) /\ Cardinality(1..N) = N
<1>1. 1 \in Int /\ N \in Int
  OBVIOUS
<1>2. IsFiniteSet(1..N) /\ Cardinality(1..N) = IF 1 > N THEN 0 ELSE N - 1 + 1
  BY <1>1, FS_Interval
<1> QED
  BY <1>2

Smaller(R, N, i) == {l \in 1..N : <<l, i>> \in R}

LEMMA Ranks ==
    ASSUME NEW N \in Nat, NEW R, StrictOrder(R, 1..N)
    PROVE  \E c \in [1..N -> 0..(N - 1)] :
              /\ \A i \in 1..N : Cardinality(Smaller(R, N, i)) = c[i]
              /\ \A i, k \in 1..N : <<i, k>> \in R => c[i] < c[k]
              /\ \A i, k \in 1..N : c[i] = c[k] => i = k
              /\ \A n \in 1..N : \E i \in 1..N : c[i] = n - 1
<1>1. IsFiniteSet(1..N) /\ Cardinality(1..N) = N
  BY IntervalSize
<1>2. ASSUME NEW i \in 1..N
      PROVE  IsFiniteSet(Smaller(R, N, i)) /\ Cardinality(Smaller(R, N, i)) \in 0..(N - 1)
  <2>1. PICK s : s = Smaller(R, N, i)
    OBVIOUS
  <2>2. s \in SUBSET (1..N) /\ i \notin s
    BY <2>1 DEF StrictOrder, Smaller
  <2>3. IsFiniteSet(s) /\ Cardinality(s) <= Cardinality(1..N) /\ (Cardinality(1..N) = Cardinality(s) => 1..N = s)
    BY <1>1, <2>2, FS_Subset, Zenon
  <2>4. Cardinality(s) \in Nat
    BY <2>3, FS_CardinalityType
  <2>5. Cardinality(s) # N
    BY <1>1, <2>2, <2>3
  <2>6. Cardinality(s) \in 0..(N - 1)
    BY <1>1, <2>3, <2>4, <2>5
  <2> QED
    BY <2>1, <2>3, <2>6
<1>3. ASSUME NEW i \in 1..N, NEW k \in 1..N, <<i, k>> \in R
      PROVE  Cardinality(Smaller(R, N, i)) < Cardinality(Smaller(R, N, k))
  <2>1. PICK s, t : s = Smaller(R, N, i) /\ t = Smaller(R, N, k)
    OBVIOUS
  <2>2. i \in t /\ i \notin s
    BY <1>3, <2>1 DEF StrictOrder, Smaller
  <2>3. \A l \in s : l \in t
    BY <1>3, <2>1 DEF StrictOrder, Smaller
  <2>4. IsFiniteSet(t) /\ Cardinality(s) \in Nat /\ Cardinality(t) \in Nat
    <3>1. Cardinality(Smaller(R, N, i)) \in 0..(N - 1) /\ Cardinality(Smaller(R, N, k)) \in 0..(N - 1)
      BY <1>2
    <3>2. IsFiniteSet(Smaller(R, N, k))
      BY <1>2
    <3> QED
      BY <2>1, <3>1, <3>2
  <2>5. s \in SUBSET t /\ s # t
    BY <2>2, <2>3
  <2>6. Cardinality(s) <= Cardinality(t) /\ (Cardinality(t) = Cardinality(s) => t = s)
    BY <2>4, <2>5, FS_Subset, Zenon
  <2>7. Cardinality(s) < Cardinality(t)
    BY <2>4, <2>5, <2>6
  <2> QED
    BY <2>1, <2>7
<1>4. PICK c : c = [i \in 1..N |-> Cardinality(Smaller(R, N, i))]
  OBVIOUS
<1>5. /\ c \in [1..N -> 0..(N - 1)]
      /\ \A i \in 1..N : Cardinality(Smaller(R, N, i)) = c[i]
  BY <1>2, <1>4
<1>6. \A i, k \in 1..N : <<i, k>> \in R => c[i] < c[k]
  BY <1>3, <1>5
<1>7. ASSUME NEW i \in 1..N, NEW k \in 1..N, c[i] = c[k]
      PROVE  i = k
  <2>1. c[i] \in Nat /\ ~(c[i] < c[k]) /\ ~(c[k] < c[i])
    BY <1>5, <1>7
  <2>2. <<i, k>> \notin R /\ <<k, i>> \notin R
    BY <1>6, <2>1
  <2> QED
    BY <2>2 DEF StrictOrder
<1>8. ASSUME NEW n \in 1..N
      PROVE  \E i \in 1..N : c[i] = n - 1
  <2>1. PICK g : g = [i \in 1..N |-> c[i] + 1]
    OBVIOUS
  <2>2. \A i \in 1..N : c[i] \in Nat /\ g[i] = c[i] + 1 /\ g[i] \in 1..N
    BY <1>5, <2>1
  <2>3. g \in [1..N -> 1..N]
    BY <2>1, <2>2
  <2>4. \A i, k \in 1..N : g[i] = g[k] => i = k
    BY <1>7, <2>2
  <2>5. PICK S : S = 1..N
    OBVIOUS
  <2>6. IsFiniteSet(S) /\ g \in [1..Cardinality(S) -> S] /\ n \in S
        /\ \A i, k \in 1..Cardinality(S) : g[i] = g[k] => i = k
    BY <1>1, <2>3, <2>4, <2>5
  <2>7. \E i \in 1..Cardinality(S) : g[i] = n
    BY <2>6, InjectiveOnto
  <2>8. PICK i \in 1..N : g[i] = n
    BY <1>1, <2>5, <2>7
  <2>9. c[i] \in Nat /\ c[i] + 1 = n
    BY <2>2, <2>8
  <2> QED
    BY <2>9
<1> QED
  BY <1>5, <1>6, <1>7, <1>8

\* The element with n - 1 smaller ones is at place n.
LEMMA ByRank ==
    ASSUME NEW N \in Nat, NEW R, StrictOrder(R, 1..N), NEW f \in [1..N -> 1..N],
           \A n \in 1..N : Cardinality(Smaller(R, N, f[n])) = n - 1
    PROVE  SortedBy(f, N, R)
<1>1. PICK c \in [1..N -> 0..(N - 1)] :
              /\ \A i \in 1..N : Cardinality(Smaller(R, N, i)) = c[i]
              /\ \A i, k \in 1..N : <<i, k>> \in R => c[i] < c[k]
              /\ \A i, k \in 1..N : c[i] = c[k] => i = k
  BY Ranks, ZenonT(60)
<1>2. \A n \in 1..N : f[n] \in 1..N /\ c[f[n]] = n - 1
  BY <1>1
<1>3. ASSUME NEW x \in 1..N
      PROVE  \E n \in 1..N : f[n] = x
  <2>1. PICK n \in 1..N : n = c[x] + 1
    BY <1>1
  <2>2. c[x] \in Nat /\ n - 1 = c[x]
    BY <1>1, <2>1
  <2>3. f[n] = x
    BY <1>1, <1>2, <2>2
  <2> QED
    BY <2>3
<1>4. ASSUME NEW n \in 1..N, NEW k \in 1..N, n < k
      PROVE  <<f[n], f[k]>> \in R
  <2>1. PICK x \in 1..N, y \in 1..N : x = f[n] /\ y = f[k] /\ c[x] = n - 1 /\ c[y] = k - 1
    BY <1>2
  <2>2. x # y /\ ~(c[y] < c[x])
    BY <1>4, <2>1
  <2>3. <<y, x>> \notin R
    BY <1>1, <2>2
  <2> QED
    BY <2>1, <2>2, <2>3 DEF StrictOrder
<1> QED
  BY <1>3, <1>4 DEF SortedBy

\* What is compared of buffer i, and how two of them are ordered.
Entry(p, i) == [proc |-> prc_recv[p][i], tag |-> IF i \in DOMAIN tags[p] THEN tags[p][i] ELSE 0]
Earlier(p, N) ==
    {e \in (1..N) \X (1..N) :
        \/ Before(Entry(p, e[1]), Entry(p, e[2]))
        \/ e[1] < e[2] /\ ~Before(Entry(p, e[2]), Entry(p, e[1]))}

LEMMA SortingSorts ==
    ASSUME NEW p, NEW N \in Nat, DOMAIN recv_buf[p] = 1..N,
           \A i \in 1..N : Entry(p, i).proc \in Nat /\ Entry(p, i).tag \in Nat
    PROVE  SortedBy(Sorting(p), N, Earlier(p, N))
<1> DEFINE R == Earlier(p, N)
<1>1. \A i, k \in 1..N : <<i, k>> \in R <=>
         \/ Before(Entry(p, i), Entry(p, k))
         \/ i < k /\ ~Before(Entry(p, k), Entry(p, i))
  BY DEF Earlier
<1> HIDE DEF R
<1>2. PICK a, b : /\ a = [i \in 1..N |-> Entry(p, i).proc] /\ b = [i \in 1..N |-> Entry(p, i).tag]
  OBVIOUS
<1>3. a \in [1..N -> Nat] /\ b \in [1..N -> Nat]
  BY <1>2
<1>4. \A i, k \in 1..N : <<i, k>> \in R <=>
         \/ a[i] < a[k]
         \/ a[i] = a[k] /\ b[i] < b[k]
         \/ a[i] = a[k] /\ b[i] = b[k] /\ i < k
  <2>1. ASSUME NEW i \in 1..N, NEW k \in 1..N
        PROVE  Before(Entry(p, i), Entry(p, k)) <=> a[i] < a[k] \/ (a[i] = a[k] /\ b[i] < b[k])
    BY <1>2 DEF Before
  <2>2. \A i \in 1..N : a[i] \in Nat /\ b[i] \in Nat
    BY <1>3
  <2>3. ASSUME NEW i \in 1..N, NEW k \in 1..N
        PROVE  <<i, k>> \in R <=>
                 \/ a[i] < a[k]
                 \/ a[i] = a[k] /\ b[i] < b[k]
                 \/ a[i] = a[k] /\ b[i] = b[k] /\ i < k
    <3>1. <<i, k>> \in R <=> \/ a[i] < a[k] \/ (a[i] = a[k] /\ b[i] < b[k])
                             \/ i < k /\ ~(a[k] < a[i] \/ (a[k] = a[i] /\ b[k] < b[i]))
      BY <1>1, <2>1
    <3>2. a[i] \in Nat /\ b[i] \in Nat /\ a[k] \in Nat /\ b[k] \in Nat
      BY <2>2
    <3> QED
      BY <3>1, <3>2
  <2> QED
    BY <2>3
<1>5. StrictOrder(R, 1..N)
  <2>1. \A i \in 1..N : a[i] \in Nat /\ b[i] \in Nat /\ i \in Nat
    BY <1>3
  <2>2. \A i \in 1..N : <<i, i>> \notin R
    BY <1>4, <2>1
  <2>3. ASSUME NEW i \in 1..N, NEW k \in 1..N, i # k
        PROVE  <<i, k>> \in R \/ <<k, i>> \in R
    <3>1. a[i] \in Nat /\ b[i] \in Nat /\ i \in Nat /\ a[k] \in Nat /\ b[k] \in Nat /\ k \in Nat
      BY <2>1
    <3> QED
      BY <1>4, <2>3, <3>1
  <2>4. ASSUME NEW i \in 1..N, NEW k \in 1..N, NEW l \in 1..N, <<i, k>> \in R, <<k, l>> \in R
        PROVE  <<i, l>> \in R
    <3>1. /\ a[i] \in Nat /\ b[i] \in Nat /\ i \in Nat /\ a[k] \in Nat /\ b[k] \in Nat /\ k \in Nat
          /\ a[l] \in Nat /\ b[l] \in Nat /\ l \in Nat
      BY <2>1
    <3>2. a[i] < a[k] \/ (a[i] = a[k] /\ b[i] < b[k]) \/ (a[i] = a[k] /\ b[i] = b[k] /\ i < k)
      BY <1>4, <2>4
    <3>3. a[k] < a[l] \/ (a[k] = a[l] /\ b[k] < b[l]) \/ (a[k] = a[l] /\ b[k] = b[l] /\ k < l)
      BY <1>4, <2>4
    <3>4. a[i] < a[l] \/ (a[i] = a[l] /\ b[i] < b[l]) \/ (a[i] = a[l] /\ b[i] = b[l] /\ i < l)
      BY <3>1, <3>2, <3>3
    <3> QED
      BY <1>4, <3>4
  <2> QED
    BY <2>2, <2>3, <2>4 DEF StrictOrder
<1>6. PICK f : f = Sorting(p)
  OBVIOUS
<1>7. \A i \in 1..N : Smaller(R, N, i) =
           {l \in 1..N : \/ Before(Entry(p, l), Entry(p, i))
                         \/ l < i /\ ~Before(Entry(p, i), Entry(p, l))}
  BY <1>1 DEF Smaller
<1>8. ASSUME NEW n \in 1..N
      PROVE  f[n] \in 1..N /\ Cardinality(Smaller(R, N, f[n])) = n - 1
  <2>1. \E i \in 1..N : Cardinality(Smaller(R, N, i)) = n - 1
    BY <1>5, Ranks
  <2> DEFINE rank(i) == Cardinality({l \in 1..N :
                            \/ Before(Entry(p, l), Entry(p, i))
                            \/ l < i /\ ~Before(Entry(p, i), Entry(p, l))})
  <2>2. f[n] = CHOOSE i \in 1..N : rank(i) = n - 1
    BY <1>6 DEF Sorting, Entry
  <2>3. \A i \in 1..N : rank(i) = Cardinality(Smaller(R, N, i))
    BY <1>7
  <2> HIDE DEF rank
  <2>4. \E i \in 1..N : rank(i) = n - 1
    BY <2>1, <2>3
  <2>5. f[n] \in 1..N /\ rank(f[n]) = n - 1
    BY <2>2, <2>4
  <2> QED
    BY <2>3, <2>5
<1>9. f \in [1..N -> 1..N]
  BY <1>6, <1>8 DEF Sorting
<1>10. SortedBy(f, N, R)
  BY <1>5, <1>8, <1>9, ByRank
<1> QED
  BY <1>6, <1>10 DEF R

----------------------------------------------------------------------------
(* What the application knows.                                             *)

LEMMA FlatType ==
    ASSUME NEW S, NEW ss \in Seq(Seq(S))
    PROVE  FlattenSeq(ss) \in Seq(S)
<1>1. PICK o : Offsets(ss, o)
  BY OffsetsExist
<1> QED
  BY <1>1, Flattened

Arrs == [src : Proc, obj : Nat, n : Nat]

\* What object i of rank q contributes to the arrivals at rank p.
ArrivalOf(p, q, i) ==
    IF Objects(q)[i].dst = p /\ Sized(Objects(q)[i])
    THEN <<[src |-> q, obj |-> i, n |-> Objects(q)[i].n]>> ELSE <<>>

LEMMA ArriveParts ==
    ASSUME call \in Calls, NEW q \in Proc, NEW p
    PROVE  LET ss == [i \in 1..Len(Objects(q)) |-> ArrivalOf(p, q, i)] IN
           /\ ss \in Seq(Seq(Arrs)) /\ Len(ss) = Len(Objects(q))
           /\ \A i \in 1..Len(Objects(q)) : ss[i] = ArrivalOf(p, q, i)
           /\ Arrive(p, q) = FlattenSeq(ss)
<1>1. PICK ss : ss = [i \in 1..Len(Objects(q)) |-> ArrivalOf(p, q, i)]
  OBVIOUS
<1>2. Len(Objects(q)) \in Nat /\ DOMAIN Objects(q) = 1..Len(Objects(q))
  BY ObjectsType
<1>3. ASSUME NEW i \in 1..Len(Objects(q))
      PROVE  ArrivalOf(p, q, i) \in Seq(Arrs)
  <2>1. PICK a : a = [src |-> q, obj |-> i, n |-> Objects(q)[i].n]
    OBVIOUS
  <2>2. i \in Nat /\ Objects(q)[i].n \in Nat
    BY <1>2, ObjectsType
  <2>3. a \in Arrs
    BY <2>1, <2>2 DEF Arrs
  <2>4. <<a>> \in Seq(Arrs) /\ <<>> \in Seq(Arrs)
    BY <2>3
  <2> QED
    BY <2>1, <2>4 DEF ArrivalOf
<1>4. ss \in [1..Len(Objects(q)) -> Seq(Arrs)]
  BY <1>1, <1>3
<1>5. ss \in Seq(Seq(Arrs)) /\ Len(ss) = Len(Objects(q))
  BY <1>2, <1>4, FunSeq
<1>6. Arrive(p, q) = FlattenSeq(ss)
  BY <1>1, <1>2 DEF Arrive, ArrivalOf, Sized
<1> QED
  BY <1>1, <1>5, <1>6

LEMMA SendersType ==
    ASSUME call \in Calls, NEW p \in Proc
    PROVE  Senders(p) \subseteq Proc /\ Senders(p) \subseteq Nat /\ IsFiniteSet(Senders(p))
<1>1. Senders(p) \subseteq Proc
  BY CallType DEF Senders
<1>2. IsFiniteSet(Proc) /\ Proc \subseteq Nat
  BY PackingAssumption
<1>3. IsFiniteSet(Senders(p))
  BY <1>1, <1>2, FS_Subset
<1> QED
  BY <1>1, <1>2, <1>3

LEMMA ArrivalsType ==
    ASSUME call \in Calls, NEW p \in Proc
    PROVE  /\ \A q \in Proc : Arrive(p, q) \in Seq(Arrs)
           /\ Arrivals(p) \in Seq(Arrs)
           /\ Len(Arrivals(p)) \in Nat /\ DOMAIN Arrivals(p) = 1..Len(Arrivals(p))
           /\ \A m \in 1..Len(Arrivals(p)) :
                 Arrivals(p)[m] \in Arrs /\ Arrivals(p)[m].src \in Proc /\ Arrivals(p)[m].n \in Nat
<1>1. ASSUME NEW q \in Proc
      PROVE  Arrive(p, q) \in Seq(Arrs)
  BY ArriveParts, FlatType
<1>2. /\ Ascending(Senders(p)) \in Seq(Senders(p))
      /\ Cardinality(Senders(p)) \in Nat /\ Len(Ascending(Senders(p))) = Cardinality(Senders(p))
  BY SendersType, AscendingHas
<1>3. PICK ss : ss = [k \in 1..Cardinality(Senders(p)) |-> Arrive(p, Ascending(Senders(p))[k])]
  OBVIOUS
<1>4. Arrivals(p) = FlattenSeq(ss)
  BY <1>2, <1>3, LenProperties DEF Arrivals
<1>5. \A k \in 1..Cardinality(Senders(p)) : Ascending(Senders(p))[k] \in Proc
  BY <1>2, SendersType, ElementOfSeq
<1>6. ss \in [1..Cardinality(Senders(p)) -> Seq(Arrs)]
  BY <1>1, <1>3, <1>5
<1>7. Arrivals(p) \in Seq(Arrs)
  BY <1>2, <1>4, <1>6, FunSeq, FlatType
<1>8. Len(Arrivals(p)) \in Nat /\ DOMAIN Arrivals(p) = 1..Len(Arrivals(p))
  BY <1>7, LenProperties
<1>9. ASSUME NEW m \in 1..Len(Arrivals(p))
      PROVE  Arrivals(p)[m] \in Arrs /\ Arrivals(p)[m].src \in Proc /\ Arrivals(p)[m].n \in Nat
  <2>1. Arrivals(p)[m] \in Arrs
    BY <1>7, ElementOfSeq
  <2> QED
    BY <2>1 DEF Arrs
<1> QED
  BY <1>1, <1>7, <1>8, <1>9

ReverseOf(s, t) == \A i \in 1..Len(s) : t[i] = s[Len(s) - i + 1]

LEMMA KnownSendersType ==
    ASSUME call \in Calls, NEW p \in Proc
    PROVE  /\ KnownSenders(p) \in Seq(Proc) /\ Len(KnownSenders(p)) \in Nat
           /\ DOMAIN KnownSenders(p) = 1..Len(KnownSenders(p))
           /\ \A i \in 1..Len(KnownSenders(p)) :
                 KnownSenders(p)[i] \in {Arrivals(p)[m].src : m \in 1..Len(Arrivals(p))}
           /\ \A i, k \in 1..Len(KnownSenders(p)) : KnownSenders(p)[i] = KnownSenders(p)[k] => i = k
           /\ \A m \in 1..Len(Arrivals(p)) : \E i \in 1..Len(KnownSenders(p)) : KnownSenders(p)[i] = Arrivals(p)[m].src
<1> DEFINE R == {Arrivals(p)[m].src : m \in 1..Len(Arrivals(p))}
           a == Ascending(R)
           C == Cardinality(R)
<1>1. R \subseteq Proc
  BY ArrivalsType
<1>2. R \subseteq Nat /\ IsFiniteSet(R)
  BY <1>1, PackingAssumption, FS_Subset
<1>3. KnownSenders(p) = Reverse(a)
  BY ArrivalsType DEF KnownSenders
<1>8. \A m \in 1..Len(Arrivals(p)) : Arrivals(p)[m].src \in R
  OBVIOUS
<1> HIDE DEF R
<1>4. /\ C \in Nat /\ a \in [1..C -> R] /\ Len(a) = C
      /\ \A i, k \in 1..C : a[i] = a[k] => i = k
      /\ \A x \in R : \E i \in 1..C : a[i] = x
  BY <1>2, AscendingHas
<1> HIDE DEF a, C
<1>5. PICK t : t = [i \in 1..C |-> a[C - i + 1]]
  OBVIOUS
<1>6. KnownSenders(p) = t
  BY <1>3, <1>4, <1>5 DEF Reverse
<1>7. \A i \in 1..C : C - i + 1 \in 1..C /\ t[i] = a[C - i + 1] /\ t[i] \in R
  BY <1>4, <1>5
<1>9. t \in [1..C -> Proc]
  BY <1>1, <1>5, <1>7
<1>10. t \in Seq(Proc) /\ Len(t) = C
  BY <1>4, <1>9, FunSeq
<1>11. ASSUME NEW i \in 1..C, NEW k \in 1..C, t[i] = t[k]
       PROVE  i = k
  <2>1. C - i + 1 = C - k + 1
    BY <1>4, <1>7, <1>11
  <2> QED
    BY <1>4, <2>1
<1>12. ASSUME NEW x \in R
       PROVE  \E i \in 1..C : t[i] = x
  <2>1. PICK k \in 1..C : a[k] = x
    BY <1>4
  <2>2. C - k + 1 \in 1..C /\ C - (C - k + 1) + 1 = k
    BY <1>4
  <2>3. t[C - k + 1] = x
    BY <1>5, <2>1, <2>2
  <2> QED
    BY <2>2, <2>3
<1> QED
  BY <1>4, <1>6, <1>7, <1>8, <1>9, <1>10, <1>11, <1>12 DEF R

----------------------------------------------------------------------------
(* Nothing is lost and nothing is kept twice.                              *)

Stripped(m) == [m EXCEPT !.at = "wire"]

ListsInv ==
    /\ call \in Calls
    /\ pc \in [Proc -> {"app", "wait", "done"}]
    /\ flight \subseteq Messages
    /\ recv_buf \in [Proc -> Seq(Messages \cup {NoBuffer})]
    /\ tags \in [Proc -> Seq(Nat)]
    /\ prc_recv \in [Proc -> Seq(Proc)]
    /\ \A p \in Proc : pc[p] = "app" => recv_buf[p] = <<>> /\ tags[p] = <<>>
    /\ \A p \in Proc : pc[p] = "wait" /\ call.form # "SScatter" => Len(prc_recv[p]) = Len(recv_buf[p])

\* Slot l of rank q has message m.
Has(q, l, m) == recv_buf[q][l] # NoBuffer /\ Stripped(recv_buf[q][l]) = m

KeptInv ==
    /\ \A m \in flight : pc[m.src] # "app" /\ m \in Outgoing(m.src)
    /\ \A q \in Proc : \A l \in 1..Len(recv_buf[q]) : recv_buf[q][l] # NoBuffer =>
          /\ recv_buf[q][l].dst = q /\ pc[recv_buf[q][l].src] # "app"
          /\ Stripped(recv_buf[q][l]) \in Outgoing(recv_buf[q][l].src)
    /\ \A p \in Proc : pc[p] # "app" => \A m \in Outgoing(p) :
          m \in flight \/ \E l \in 1..Len(recv_buf[m.dst]) : Has(m.dst, l, m)
    /\ \A m \in flight : \A l \in 1..Len(recv_buf[m.dst]) : ~Has(m.dst, l, m)
    /\ \A q \in Proc : \A l, k \in 1..Len(recv_buf[q]) :
          recv_buf[q][l] # NoBuffer /\ Has(q, k, Stripped(recv_buf[q][l])) => k = l

LEMMA OutgoingStays ==
    ASSUME call' = call, NEW p
    PROVE  Outgoing(p)' = Outgoing(p)
BY DEF Outgoing, EndOf, packingRequest, Objects, packing, Known, Sends, prc_send, send_buf, construct_prc,
       send_sz_byte, Buffer, set_buf_pointer_for_each_prop, Home, PointerEnd, Beginning

LEMMA StrippedType ==
    ASSUME NEW m \in Messages, NEW at \in {"wire", "host", "device"}
    PROVE  /\ [m EXCEPT !.at = at] \in Messages /\ Stripped(m) \in Messages
           /\ Stripped([m EXCEPT !.at = at]) = Stripped(m)
           /\ (m.at = "wire" => Stripped(m) = m)
           /\ [m EXCEPT !.at = at].src = m.src /\ [m EXCEPT !.at = at].dst = m.dst
           /\ [m EXCEPT !.at = at].tag = m.tag /\ [m EXCEPT !.at = at].of = m.of
           /\ [m EXCEPT !.at = at].bytes = m.bytes /\ [m EXCEPT !.at = at].at = at
           /\ Stripped(m).src = m.src /\ Stripped(m).dst = m.dst /\ Stripped(m).tag = m.tag
           /\ Stripped(m).of = m.of /\ Stripped(m).bytes = m.bytes
BY DEF Stripped, Messages

LEMMA FlightType ==
    ASSUME ListsInv, KeptInv, NEW m \in flight
    PROVE  /\ m \in Messages /\ m.src \in Proc /\ m.dst \in Proc /\ m.at = "wire" /\ m.tag \in Nat \ {0}
           /\ Stripped(m) = m /\ \A at \in {"wire", "host", "device"} : [m EXCEPT !.at = at] # NoBuffer
<1>1. m \in Messages
  BY DEF ListsInv
<1>2. m.src \in Proc /\ m.dst \in Proc /\ m.tag \in Nat
  BY <1>1 DEF Messages
<1>3. m.at = "wire" /\ m.tag # 0
  <2>1. m \in Outgoing(m.src) /\ call \in Calls
    BY DEF KeptInv, ListsInv
  <2>2. PICK q \in Proc : q = m.src
    BY <1>2
  <2>3. m \in Outgoing(q)
    BY <2>1, <2>2
  <2> QED
    BY <2>1, <2>3, OutgoingType
<1>4. ASSUME NEW at \in {"wire", "host", "device"}
      PROVE  [m EXCEPT !.at = at] # NoBuffer
  <2>1. [m EXCEPT !.at = at].tag = m.tag
    BY <1>1, StrippedType
  <2>2. NoBuffer.tag = 0
    BY DEF NoBuffer
  <2> QED
    BY <1>3, <2>1, <2>2
<1>5. Stripped(m) = m
  BY <1>1, <1>3, StrippedType
<1> QED
  BY <1>1, <1>2, <1>3, <1>4, <1>5

LEMMA RecvBufType ==
    ASSUME ListsInv, NEW q \in Proc
    PROVE  /\ recv_buf[q] \in Seq(Messages \cup {NoBuffer}) /\ Len(recv_buf[q]) \in Nat
           /\ DOMAIN recv_buf[q] = 1..Len(recv_buf[q])
           /\ \A l \in 1..Len(recv_buf[q]) :
                 recv_buf[q][l] \in Messages \cup {NoBuffer} /\ (recv_buf[q][l] # NoBuffer => recv_buf[q][l] \in Messages)
<1>1. recv_buf[q] \in Seq(Messages \cup {NoBuffer})
  BY DEF ListsInv
<1> QED
  BY <1>1, LenProperties, ElementOfSeq

----------------------------------------------------------------------------
(* The steps.                                                              *)

LEMMA InitKept ==
    ASSUME Init
    PROVE  ListsInv /\ KeptInv
<1>1. call \in Calls
  BY DEF Init
<1>2. /\ pc = [p \in Proc |-> "app"] /\ flight = {} /\ recv_buf = [p \in Proc |-> <<>>]
      /\ tags = [p \in Proc |-> <<>>] /\ prc_recv = [p \in Proc |-> <<>>]
  BY DEF Init
<1>3. ListsInv
  BY <1>1, <1>2 DEF ListsInv
<1>4. KeptInv
  BY <1>2 DEF KeptInv
<1> QED
  BY <1>3, <1>4

LEMMA PrepareKept ==
    ASSUME ListsInv, KeptInv, NEW p \in Proc, Prepare(p)
    PROVE  ListsInv' /\ KeptInv'
<1> DEFINE posted == IF Known THEN [i \in DOMAIN KnownSenders(p) |-> NoBuffer] ELSE <<>>
<1>1. /\ call \in Calls /\ call' = call /\ tags' = tags
      /\ pc[p] = "app" /\ pc' = [pc EXCEPT ![p] = "wait"] /\ flight' = flight \cup Outgoing(p)
      /\ recv_buf' = [recv_buf EXCEPT ![p] = posted]
  BY DEF Prepare, ListsInv
<1>2. posted \in Seq({NoBuffer}) /\ Len(posted) \in Nat
      /\ (Known => Len(posted) = Len(KnownSenders(p))) /\ (~Known => posted = <<>>)
  <2>1. CASE Known
    <3>1. posted \in [1..Len(KnownSenders(p)) -> {NoBuffer}] /\ Len(KnownSenders(p)) \in Nat
      BY <1>1, <2>1, KnownSendersType
    <3> QED
      BY <2>1, <3>1, FunSeq
  <2>2. CASE ~Known
    BY <2>2
  <2> QED
    BY <2>1, <2>2
<1>3. posted \in Seq(Messages \cup {NoBuffer}) /\ \A l \in 1..Len(posted) : posted[l] = NoBuffer
  <2>1. \A l \in 1..Len(posted) : posted[l] = NoBuffer
    BY <1>2, ElementOfSeq
  <2>2. posted \in [1..Len(posted) -> Messages \cup {NoBuffer}]
    BY <1>2, <2>1, LenProperties
  <2> QED
    BY <1>2, <2>1, <2>2, FunSeq
<1> HIDE DEF posted
<1>4. /\ pc' \in [Proc -> {"app", "wait", "done"}] /\ pc'[p] = "wait"
      /\ \A q \in Proc : q # p => pc'[q] = pc[q]
      /\ recv_buf'[p] = posted /\ \A q \in Proc : q # p => recv_buf'[q] = recv_buf[q]
  BY <1>1 DEF ListsInv
<1>5. recv_buf[p] = <<>> /\ tags[p] = <<>>
  BY <1>1 DEF ListsInv
<1>6. \A m \in Outgoing(p) : m \in Messages /\ m.src = p /\ m.dst \in Proc /\ m.at = "wire" /\ m.tag # 0
  <2>1. ASSUME NEW m \in Outgoing(p)
        PROVE  m \in Messages /\ m.src = p /\ m.at = "wire" /\ m.tag # 0
    BY <1>1, <2>1, OutgoingType
  <2>2. \A m \in Messages : m.dst \in Proc
    BY DEF Messages
  <2> QED
    BY <2>1, <2>2
<1>7. prc_recv' \in [Proc -> Seq(Proc)]
      /\ (\A q \in Proc : q # p => prc_recv'[q] = prc_recv[q])
      /\ (call.form # "SScatter" => Len(prc_recv'[p]) = Len(posted))
  <2> DEFINE list == IF Known THEN KnownSenders(p)
                     ELSE IF call.form = "SScatter" /\ p = call.root THEN prc_send(p) ELSE <<>>
  <2>1. prc_recv' = [prc_recv EXCEPT ![p] = list]
    BY DEF Prepare
  <2>2. list \in Seq(Proc) /\ (call.form # "SScatter" => Len(list) = Len(posted))
    <3>1. CASE Known
      BY <1>1, <1>2, <3>1, KnownSendersType
    <3>2. CASE ~Known
      <4>1. prc_send(p) \in Seq(Proc)
        BY <1>1, PrcSend
      <4> QED
        BY <1>2, <3>2, <4>1
    <3> QED
      BY <3>1, <3>2
  <2> HIDE DEF list
  <2> QED
    BY <2>1, <2>2 DEF ListsInv
<1>8. ListsInv'
  <2>1. flight' \subseteq Messages
    BY <1>1, <1>6 DEF ListsInv
  <2>2. recv_buf' \in [Proc -> Seq(Messages \cup {NoBuffer})]
    BY <1>1, <1>3 DEF ListsInv
  <2>3. \A q \in Proc : pc'[q] = "app" => recv_buf'[q] = <<>> /\ tags'[q] = <<>>
    BY <1>1, <1>4 DEF ListsInv
  <2>4. \A q \in Proc : pc'[q] = "wait" /\ call'.form # "SScatter" => Len(prc_recv'[q]) = Len(recv_buf'[q])
    BY <1>1, <1>4, <1>7 DEF ListsInv
  <2> QED
    BY <1>1, <1>4, <1>7, <2>1, <2>2, <2>3, <2>4 DEF ListsInv
<1>9. \A q : Outgoing(q)' = Outgoing(q)
  BY <1>1, OutgoingStays
<1>10. \A q \in Proc : \A l \in 1..Len(recv_buf'[q]) :
          /\ recv_buf'[q][l] # NoBuffer => q # p /\ recv_buf'[q][l] = recv_buf[q][l] /\ l \in 1..Len(recv_buf[q])
  BY <1>3, <1>4
<1>11. \A q \in Proc : \A l \in 1..Len(recv_buf[q]) : q # p /\ l \in 1..Len(recv_buf'[q]) /\ recv_buf'[q][l] = recv_buf[q][l]
  <2>1. Len(<<>>) = 0
    OBVIOUS
  <2> QED
    BY <1>4, <1>5, <2>1
<1>12. \A q \in Proc : \A l, m : Has(q, l, m)' <=> recv_buf'[q][l] # NoBuffer /\ Stripped(recv_buf'[q][l]) = m
  BY DEF Has, NoBuffer, Stripped
<1>13. KeptInv'
  <2>1. \A m \in flight' : pc'[m.src] # "app" /\ m \in Outgoing(m.src)
    <3>1. ASSUME NEW m \in flight
          PROVE  pc'[m.src] # "app" /\ m \in Outgoing(m.src)
      BY <1>4, FlightType DEF KeptInv
    <3> QED
      BY <1>1, <1>4, <1>6, <3>1
  <2>2. \A q \in Proc : \A l \in 1..Len(recv_buf'[q]) : recv_buf'[q][l] # NoBuffer =>
          /\ recv_buf'[q][l].dst = q /\ pc'[recv_buf'[q][l].src] # "app"
          /\ Stripped(recv_buf'[q][l]) \in Outgoing(recv_buf'[q][l].src)
    <3>1. ASSUME NEW q \in Proc, NEW l \in 1..Len(recv_buf'[q]), recv_buf'[q][l] # NoBuffer
          PROVE  /\ recv_buf'[q][l].dst = q /\ pc'[recv_buf'[q][l].src] # "app"
                 /\ Stripped(recv_buf'[q][l]) \in Outgoing(recv_buf'[q][l].src)
      <4>1. recv_buf'[q][l] = recv_buf[q][l] /\ l \in 1..Len(recv_buf[q]) /\ recv_buf[q][l] # NoBuffer
        BY <1>10, <3>1
      <4>2. recv_buf[q][l] \in Messages
        BY <4>1, RecvBufType
      <4>3. recv_buf[q][l].src \in Proc
        BY <4>2 DEF Messages
      <4>4. /\ recv_buf[q][l].dst = q /\ pc[recv_buf[q][l].src] # "app"
            /\ Stripped(recv_buf[q][l]) \in Outgoing(recv_buf[q][l].src)
        BY <4>1 DEF KeptInv
      <4> QED
        BY <1>4, <4>1, <4>3, <4>4
    <3> QED
      BY <3>1
  <2>3. \A q \in Proc : pc'[q] # "app" => \A m \in Outgoing(q) :
          m \in flight' \/ \E l \in 1..Len(recv_buf'[m.dst]) : Has(m.dst, l, m)'
    <3>1. ASSUME NEW q \in Proc, q # p, pc'[q] # "app", NEW m \in Outgoing(q), m \notin flight
          PROVE  \E l \in 1..Len(recv_buf'[m.dst]) : Has(m.dst, l, m)'
      <4>1. pc[q] # "app" /\ m.dst \in Proc
        BY <1>1, <1>4, <3>1, OutgoingType DEF Messages
      <4>2. PICK l \in 1..Len(recv_buf[m.dst]) : Has(m.dst, l, m)
        BY <3>1, <4>1 DEF KeptInv
      <4>3. l \in 1..Len(recv_buf'[m.dst]) /\ recv_buf'[m.dst][l] = recv_buf[m.dst][l]
        BY <1>11, <4>1, <4>2
      <4>4. Has(m.dst, l, m)'
        BY <1>12, <4>1, <4>2, <4>3 DEF Has
      <4> QED
        BY <4>3, <4>4
    <3> QED
      BY <1>1, <3>1
  <2>4. \A m \in flight' : \A l \in 1..Len(recv_buf'[m.dst]) : ~Has(m.dst, l, m)'
    <3>1. ASSUME NEW m \in flight', NEW l \in 1..Len(recv_buf'[m.dst]), Has(m.dst, l, m)'
          PROVE  FALSE
      <4>1. m.dst \in Proc
        BY <1>1, <1>6, FlightType
      <4>2. recv_buf'[m.dst][l] # NoBuffer /\ Stripped(recv_buf'[m.dst][l]) = m
        BY <1>12, <3>1, <4>1
      <4>3. recv_buf'[m.dst][l] = recv_buf[m.dst][l] /\ l \in 1..Len(recv_buf[m.dst])
        BY <1>10, <4>1, <4>2
      <4>4. Has(m.dst, l, m)
        BY <4>2, <4>3 DEF Has
      <4>5. m \in Outgoing(p)
        BY <1>1, <4>3, <4>4 DEF KeptInv
      <4>6. recv_buf[m.dst][l] \in Messages /\ pc[recv_buf[m.dst][l].src] # "app"
        BY <4>1, <4>2, <4>3, RecvBufType DEF KeptInv
      <4>7. recv_buf[m.dst][l].src = m.src
        <5>1. PICK b \in Messages : b = recv_buf[m.dst][l]
          BY <4>6
        <5>2. Stripped(b) = m
          BY <4>2, <4>3, <5>1
        <5>3. Stripped(b).src = b.src
          BY StrippedType
        <5> QED
          BY <5>1, <5>2, <5>3
      <4> QED
        BY <1>1, <1>6, <4>5, <4>6, <4>7
    <3> QED
      BY <3>1
  <2>5. \A q \in Proc : \A l, k \in 1..Len(recv_buf'[q]) :
          recv_buf'[q][l] # NoBuffer /\ Has(q, k, Stripped(recv_buf[q][l]))' => k = l
    <3>1. ASSUME NEW q \in Proc, NEW l \in 1..Len(recv_buf'[q]), NEW k \in 1..Len(recv_buf'[q]),
                 recv_buf'[q][l] # NoBuffer, recv_buf'[q][k] # NoBuffer,
                 Stripped(recv_buf'[q][k]) = Stripped(recv_buf'[q][l])
          PROVE  k = l
      <4>1. /\ recv_buf'[q][l] = recv_buf[q][l] /\ recv_buf'[q][k] = recv_buf[q][k]
            /\ l \in 1..Len(recv_buf[q]) /\ k \in 1..Len(recv_buf[q])
        BY <1>10, <3>1
      <4>2. Has(q, k, Stripped(recv_buf[q][l]))
        BY <3>1, <4>1 DEF Has
      <4> QED
        BY <3>1, <4>1, <4>2 DEF KeptInv
    <3>2. ASSUME NEW q \in Proc, NEW l \in 1..Len(recv_buf'[q]), NEW k \in 1..Len(recv_buf'[q]),
                 recv_buf'[q][l] # NoBuffer, Has(q, k, Stripped(recv_buf[q][l]))'
          PROVE  k = l
      <4>1. recv_buf'[q][k] # NoBuffer /\ Stripped(recv_buf'[q][k]) = Stripped(recv_buf'[q][l])
        BY <3>2 DEF Has
      <4> QED
        BY <3>1, <3>2, <4>1
    <3> QED
      BY <3>2
  <2> QED
    BY <1>9, <2>1, <2>2, <2>3, <2>4, <2>5 DEF KeptInv
<1> QED
  BY <1>8, <1>13

----------------------------------------------------------------------------
(* A message goes from flight to slot n of its receiver.                   *)

Reception(p, m, at, n) ==
    /\ m \in flight /\ m.dst = p /\ at \in {"wire", "host", "device"}
    /\ n \in 1..Len(recv_buf'[p]) /\ recv_buf'[p][n] = [m EXCEPT !.at = at]
    /\ \A q \in Proc : q # p => recv_buf'[q] = recv_buf[q]
    /\ \A l \in 1..Len(recv_buf'[p]) : l # n => l \in 1..Len(recv_buf[p]) /\ recv_buf'[p][l] = recv_buf[p][l]
    /\ \A l \in 1..Len(recv_buf[p]) : recv_buf[p][l] # NoBuffer => l # n /\ l \in 1..Len(recv_buf'[p])
    /\ flight' = flight \ {m} /\ call' = call /\ pc' = pc

LEMMA Received ==
    ASSUME ListsInv, KeptInv, NEW p \in Proc, NEW m, NEW at, NEW n, Reception(p, m, at, n)
    PROVE  KeptInv'
<1> USE DEF Reception
<1>1. /\ m \in Messages /\ m.src \in Proc /\ m.dst \in Proc /\ Stripped(m) = m
      /\ [m EXCEPT !.at = at] # NoBuffer /\ m \in Outgoing(m.src) /\ pc[m.src] # "app"
  BY FlightType DEF KeptInv
<1>2. PICK b : b = recv_buf'[p][n]
  OBVIOUS
<1>3. b # NoBuffer /\ Stripped(b) = m /\ b.src = m.src /\ b.dst = p
  <2>1. /\ Stripped([m EXCEPT !.at = at]) = Stripped(m)
        /\ [m EXCEPT !.at = at].src = m.src /\ [m EXCEPT !.at = at].dst = m.dst
    BY <1>1, StrippedType
  <2>2. b = [m EXCEPT !.at = at]
    BY <1>2
  <2> QED
    BY <1>1, <2>1, <2>2
<1>4. \A q \in Proc : Outgoing(q)' = Outgoing(q)
  BY OutgoingStays
<1>5. \A q \in Proc : \A l \in 1..Len(recv_buf'[q]) :
         (q = p /\ l = n) \/ (~(q = p /\ l = n) /\ l \in 1..Len(recv_buf[q]) /\ recv_buf'[q][l] = recv_buf[q][l])
  OBVIOUS
<1>6. \A q \in Proc : \A l \in 1..Len(recv_buf[q]) : recv_buf[q][l] # NoBuffer =>
         ~(q = p /\ l = n) /\ l \in 1..Len(recv_buf'[q]) /\ recv_buf'[q][l] = recv_buf[q][l]
  OBVIOUS
<1>7. \A l \in 1..Len(recv_buf[p]) : recv_buf[p][l] # NoBuffer => Stripped(recv_buf[p][l]) # m
  BY <1>1 DEF KeptInv, Has
<1>8. \A x \in flight' : pc'[x.src] # "app" /\ x \in Outgoing(x.src)
  BY DEF KeptInv
<1>9. \A q \in Proc : \A l \in 1..Len(recv_buf'[q]) : recv_buf'[q][l] # NoBuffer =>
          /\ recv_buf'[q][l].dst = q /\ pc'[recv_buf'[q][l].src] # "app"
          /\ Stripped(recv_buf'[q][l]) \in Outgoing(recv_buf'[q][l].src)
  <2>1. ASSUME NEW q \in Proc, NEW l \in 1..Len(recv_buf[q]), recv_buf[q][l] # NoBuffer
        PROVE  /\ recv_buf[q][l].dst = q /\ pc[recv_buf[q][l].src] # "app"
               /\ Stripped(recv_buf[q][l]) \in Outgoing(recv_buf[q][l].src)
    BY <2>1 DEF KeptInv
  <2>2. ASSUME NEW q \in Proc, NEW l \in 1..Len(recv_buf'[q]), recv_buf'[q][l] # NoBuffer
        PROVE  /\ recv_buf'[q][l].dst = q /\ pc'[recv_buf'[q][l].src] # "app"
               /\ Stripped(recv_buf'[q][l]) \in Outgoing(recv_buf'[q][l].src)
    <3>1. CASE q = p /\ l = n
      BY <1>1, <1>2, <1>3, <3>1
    <3>2. CASE ~(q = p /\ l = n)
      <4>1. l \in 1..Len(recv_buf[q]) /\ recv_buf'[q][l] = recv_buf[q][l]
        BY <1>5, <3>2
      <4> QED
        BY <2>1, <2>2, <4>1
    <3> QED
      BY <3>1, <3>2
  <2> QED
    BY <2>2
<1>10. \A q \in Proc : pc'[q] # "app" => \A x \in Outgoing(q) :
          x \in flight' \/ \E l \in 1..Len(recv_buf'[x.dst]) : Has(x.dst, l, x)'
  <2>1. ASSUME NEW q \in Proc, pc'[q] # "app", NEW x \in Outgoing(q), x \notin flight'
        PROVE  \E l \in 1..Len(recv_buf'[x.dst]) : Has(x.dst, l, x)'
    <3>1. CASE x = m
      BY <1>1, <1>2, <1>3, <3>1 DEF Has
    <3>2. CASE x # m
      <4>1. x \notin flight
        BY <2>1, <3>2
      <4>2. call \in Calls
        BY DEF ListsInv
      <4>3. x \in Messages
        BY <4>2, OutgoingType
      <4>4. x.dst \in Proc
        BY <4>3 DEF Messages
      <4>5. PICK l \in 1..Len(recv_buf[x.dst]) : recv_buf[x.dst][l] # NoBuffer /\ Stripped(recv_buf[x.dst][l]) = x
        BY <2>1, <4>1 DEF KeptInv, Has
      <4> QED
        BY <1>6, <4>4, <4>5 DEF Has
    <3> QED
      BY <3>1, <3>2
  <2> QED
    BY <2>1
<1>11. \A x \in flight' : \A l \in 1..Len(recv_buf'[x.dst]) : ~Has(x.dst, l, x)'
  <2>1. ASSUME NEW x \in flight', NEW l \in 1..Len(recv_buf'[x.dst]),
               recv_buf'[x.dst][l] # NoBuffer, Stripped(recv_buf'[x.dst][l]) = x
        PROVE  FALSE
    <3>1. x \in flight /\ x # m /\ x.dst \in Proc
      BY FlightType
    <3>2. CASE x.dst = p /\ l = n
      BY <1>2, <1>3, <2>1, <3>1, <3>2
    <3>3. CASE ~(x.dst = p /\ l = n)
      <4>1. l \in 1..Len(recv_buf[x.dst]) /\ recv_buf'[x.dst][l] = recv_buf[x.dst][l]
        BY <1>5, <3>1, <3>3
      <4> QED
        BY <2>1, <3>1, <4>1 DEF KeptInv, Has
    <3> QED
      BY <3>2, <3>3
  <2> QED
    BY <2>1 DEF Has
<1>12. \A q \in Proc : \A l, k \in 1..Len(recv_buf'[q]) :
          recv_buf'[q][l] # NoBuffer /\ Has(q, k, Stripped(recv_buf[q][l]))' => k = l
  <2>1. ASSUME NEW q \in Proc, NEW l \in 1..Len(recv_buf'[q]), NEW k \in 1..Len(recv_buf'[q]),
               recv_buf'[q][l] # NoBuffer, recv_buf'[q][k] # NoBuffer,
               Stripped(recv_buf'[q][k]) = Stripped(recv_buf'[q][l])
        PROVE  k = l
    <3>1. CASE (q = p /\ l = n) \/ (q = p /\ k = n)
      BY <1>2, <1>3, <1>5, <1>7, <2>1, <3>1
    <3>2. CASE ~(q = p /\ l = n) /\ ~(q = p /\ k = n)
      <4>1. /\ l \in 1..Len(recv_buf[q]) /\ recv_buf'[q][l] = recv_buf[q][l]
            /\ k \in 1..Len(recv_buf[q]) /\ recv_buf'[q][k] = recv_buf[q][k]
        BY <1>5, <3>2
      <4> QED
        BY <2>1, <4>1 DEF KeptInv, Has
    <3> QED
      BY <3>1, <3>2
  <2>2. ASSUME NEW q \in Proc, NEW l \in 1..Len(recv_buf'[q]), NEW k \in 1..Len(recv_buf'[q]),
               recv_buf'[q][l] # NoBuffer, Has(q, k, Stripped(recv_buf[q][l]))'
        PROVE  k = l
    <3>1. recv_buf'[q][k] # NoBuffer /\ Stripped(recv_buf'[q][k]) = Stripped(recv_buf'[q][l])
      BY <2>2 DEF Has
    <3> QED
      BY <2>1, <2>2, <3>1
  <2> QED
    BY <2>2
<1>13. \A x \in flight' : x.src \in Proc
  BY FlightType
<1>14. \A q : Outgoing(q)' = Outgoing(q)
  BY OutgoingStays
<1> QED
  BY <1>14, <1>8, <1>9, <1>10, <1>11, <1>12 DEF KeptInv

LEMMA AllocKept ==
    ASSUME ListsInv, KeptInv, NEW p \in Proc, NEW m \in flight, msg_alloc(p, m)
    PROVE  ListsInv' /\ KeptInv'
<1> DEFINE at == IF call.direct /\ call.aware THEN "device" ELSE "host"
           b == [m EXCEPT !.at = at]
<1>1. /\ m.dst = p /\ call' = call /\ pc' = pc /\ flight' = flight \ {m} /\ pc[p] = "wait"
      /\ recv_buf' = [recv_buf EXCEPT ![p] = Append(@, b)]
      /\ prc_recv' = [prc_recv EXCEPT ![p] = Append(@, m.src)]
      /\ tags' = [tags EXCEPT ![p] = Append(@, m.tag)]
  BY DEF msg_alloc, Next_from
<1>2. at \in {"wire", "host", "device"}
  OBVIOUS
<1> HIDE DEF at
<1>3. m \in Messages /\ m.src \in Proc /\ m.tag \in Nat /\ b \in Messages
  BY <1>2, FlightType, StrippedType
<1> HIDE DEF b
<1>4. PICK s \in Seq(Messages \cup {NoBuffer}) : s = recv_buf[p]
  BY RecvBufType
<1>5. /\ Append(s, b) \in Seq(Messages \cup {NoBuffer}) /\ Len(Append(s, b)) = Len(s) + 1
      /\ \A l \in 1..Len(s) : Append(s, b)[l] = s[l]
      /\ Append(s, b)[Len(s) + 1] = b /\ Len(s) \in Nat
  BY <1>3, AppendProperties, LenProperties
<1>6. recv_buf'[p] = Append(s, b) /\ \A q \in Proc : q # p => recv_buf'[q] = recv_buf[q]
  BY <1>1, <1>4 DEF ListsInv
<1>7. ListsInv'
  <2>1. recv_buf' \in [Proc -> Seq(Messages \cup {NoBuffer})]
    BY <1>1, <1>4, <1>5 DEF ListsInv
  <2>2. tags' \in [Proc -> Seq(Nat)] /\ prc_recv' \in [Proc -> Seq(Proc)]
    BY <1>1, <1>3 DEF ListsInv
  <2>3. \A q \in Proc : pc'[q] = "app" => recv_buf'[q] = <<>> /\ tags'[q] = <<>>
    BY <1>1, <1>6 DEF ListsInv
  <2>4. prc_recv[p] \in Seq(Proc) /\ prc_recv'[p] = Append(prc_recv[p], m.src)
        /\ \A q \in Proc : q # p => prc_recv'[q] = prc_recv[q]
    BY <1>1 DEF ListsInv
  <2>5. Len(prc_recv'[p]) = Len(prc_recv[p]) + 1
    BY <1>3, <2>4
  <2>6. \A q \in Proc : pc'[q] = "wait" /\ call'.form # "SScatter" => Len(prc_recv'[q]) = Len(recv_buf'[q])
    BY <1>1, <1>4, <1>5, <1>6, <2>4, <2>5 DEF ListsInv
  <2> QED
    BY <1>1, <2>1, <2>2, <2>3, <2>6 DEF ListsInv
<1>8. KeptInv'
  <2>1. Len(s) + 1 \in 1..Len(recv_buf'[p]) /\ recv_buf'[p][Len(s) + 1] = b
    BY <1>5, <1>6
  <2>2. \A l \in 1..Len(recv_buf'[p]) : l # Len(s) + 1 => l \in 1..Len(recv_buf[p]) /\ recv_buf'[p][l] = recv_buf[p][l]
    BY <1>4, <1>5, <1>6
  <2>3. \A l \in 1..Len(recv_buf[p]) : recv_buf[p][l] # NoBuffer => l # Len(s) + 1 /\ l \in 1..Len(recv_buf'[p])
    BY <1>4, <1>5, <1>6
  <2>4. b = [m EXCEPT !.at = at]
    BY DEF b
  <2> QED
    <3>1. Reception(p, m, at, Len(s) + 1)
      BY <1>1, <1>2, <1>6, <2>1, <2>2, <2>3, <2>4 DEF Reception
    <3> QED
      BY <3>1, Received
<1> QED
  BY <1>7, <1>8

LEMMA FillInKept ==
    ASSUME ListsInv, KeptInv, NEW p \in Proc, NEW m \in flight, FillIn(p, m)
    PROVE  ListsInv' /\ KeptInv'
<1> DEFINE b == [m EXCEPT !.at = "host"]
<1>1. PICK i \in DOMAIN recv_buf[p] :
      /\ m.dst = p /\ call' = call /\ pc' = pc /\ flight' = flight \ {m} /\ pc[p] = "wait"
      /\ recv_buf[p][i] = NoBuffer /\ recv_buf' = [recv_buf EXCEPT ![p][i] = b]
      /\ prc_recv' = prc_recv /\ tags' = tags
  BY DEF FillIn, Next_from
<1>2. b \in Messages
  BY FlightType, StrippedType
<1> HIDE DEF b
<1>3. PICK s \in Seq(Messages \cup {NoBuffer}) : s = recv_buf[p]
  BY RecvBufType
<1>4. i \in 1..Len(s) /\ Len(s) \in Nat /\ DOMAIN s = 1..Len(s)
  BY <1>1, <1>3, LenProperties
<1>5. /\ [s EXCEPT ![i] = b] \in Seq(Messages \cup {NoBuffer}) /\ Len([s EXCEPT ![i] = b]) = Len(s)
      /\ \A l \in 1..Len(s) : [s EXCEPT ![i] = b][l] = IF l = i THEN b ELSE s[l]
  BY <1>2, <1>4, ExceptSeq
<1>6. recv_buf'[p] = [s EXCEPT ![i] = b] /\ \A q \in Proc : q # p => recv_buf'[q] = recv_buf[q]
  BY <1>1, <1>3 DEF ListsInv
<1>7. ListsInv'
  <2>1. recv_buf' \in [Proc -> Seq(Messages \cup {NoBuffer})]
    BY <1>1, <1>3, <1>5 DEF ListsInv
  <2>2. \A q \in Proc : pc'[q] = "app" => recv_buf'[q] = <<>> /\ tags'[q] = <<>>
    BY <1>1, <1>6 DEF ListsInv
  <2>3. \A q \in Proc : pc'[q] = "wait" /\ call'.form # "SScatter" => Len(prc_recv'[q]) = Len(recv_buf'[q])
    BY <1>1, <1>3, <1>5, <1>6 DEF ListsInv
  <2> QED
    BY <1>1, <2>1, <2>2, <2>3 DEF ListsInv
<1>8. KeptInv'
  <2>1. i \in 1..Len(recv_buf'[p]) /\ recv_buf'[p][i] = b
    BY <1>4, <1>5, <1>6
  <2>2. \A l \in 1..Len(recv_buf'[p]) : l # i => l \in 1..Len(recv_buf[p]) /\ recv_buf'[p][l] = recv_buf[p][l]
    BY <1>3, <1>5, <1>6
  <2>3. \A l \in 1..Len(recv_buf[p]) : recv_buf[p][l] # NoBuffer => l # i /\ l \in 1..Len(recv_buf'[p])
    BY <1>1, <1>3, <1>5, <1>6
  <2>4. b = [m EXCEPT !.at = "host"]
    BY DEF b
  <2> QED
    <3>1. Reception(p, m, "host", i)
      BY <1>1, <1>6, <2>1, <2>2, <2>3, <2>4 DEF Reception
    <3> QED
      BY <3>1, Received
<1> QED
  BY <1>7, <1>8

----------------------------------------------------------------------------
(* The end of a call puts the buffers of its rank in another order.        *)

Shuffles(f, N) ==
    /\ f \in [1..N -> 1..N]
    /\ \A x \in 1..N : \E n \in 1..N : f[n] = x
    /\ \A n, k \in 1..N : f[n] = f[k] => n = k

Ending(p, f, buf) ==
    /\ Finish(p, buf) /\ pc[p] = "wait" /\ Shuffles(f, Len(recv_buf[p]))
    /\ buf \in Seq(Messages \cup {NoBuffer}) /\ Len(buf) = Len(recv_buf[p])
    /\ \A l \in 1..Len(recv_buf[p]) : buf[l] = recv_buf[p][f[l]]
    /\ prc_recv' \in [Proc -> Seq(Proc)] /\ \A q \in Proc : q # p => prc_recv'[q] = prc_recv[q]

LEMMA EndingKept ==
    ASSUME ListsInv, KeptInv, NEW p \in Proc, NEW f, NEW buf, Ending(p, f, buf)
    PROVE  ListsInv' /\ KeptInv'
<1>1. /\ pc[p] = "wait" /\ pc' = [pc EXCEPT ![p] = "done"] /\ recv_buf' = [recv_buf EXCEPT ![p] = buf]
      /\ call' = call /\ flight' = flight /\ tags' = tags
      /\ buf \in Seq(Messages \cup {NoBuffer}) /\ Len(buf) = Len(recv_buf[p])
      /\ prc_recv' \in [Proc -> Seq(Proc)] /\ \A q \in Proc : q # p => prc_recv'[q] = prc_recv[q]
  BY DEF Ending, Finish
<1>2. /\ \A l \in 1..Len(recv_buf[p]) : f[l] \in 1..Len(recv_buf[p]) /\ buf[l] = recv_buf[p][f[l]]
      /\ \A x \in 1..Len(recv_buf[p]) : \E n \in 1..Len(recv_buf[p]) : f[n] = x
      /\ \A n, k \in 1..Len(recv_buf[p]) : f[n] = f[k] => n = k
  BY DEF Ending, Shuffles
<1>3. /\ recv_buf'[p] = buf /\ \A q \in Proc : q # p => recv_buf'[q] = recv_buf[q] /\ pc'[q] = pc[q]
      /\ pc'[p] = "done" /\ \A q \in Proc : pc[q] # "app" => pc'[q] # "app"
      /\ \A q \in Proc : pc'[q] # "app" => pc[q] # "app"
  BY <1>1 DEF ListsInv
<1>4. ListsInv'
  <2>1. /\ recv_buf' \in [Proc -> Seq(Messages \cup {NoBuffer})]
        /\ pc' \in [Proc -> {"app", "wait", "done"}]
    BY <1>1 DEF ListsInv
  <2>2. \A q \in Proc : pc'[q] = "app" => recv_buf'[q] = <<>> /\ tags'[q] = <<>>
    BY <1>1, <1>3 DEF ListsInv
  <2>3. \A q \in Proc : pc'[q] = "wait" /\ call'.form # "SScatter" => Len(prc_recv'[q]) = Len(recv_buf'[q])
    BY <1>1, <1>3 DEF ListsInv
  <2> QED
    BY <1>1, <2>1, <2>2, <2>3 DEF ListsInv
\* Where a buffer was before.
<1>5. \A q \in Proc : Len(recv_buf'[q]) = Len(recv_buf[q])
  BY <1>1, <1>3
<1> DEFINE was(q, l) == IF q = p THEN f[l] ELSE l
<1>6. \A q \in Proc : \A l \in 1..Len(recv_buf'[q]) :
         was(q, l) \in 1..Len(recv_buf[q]) /\ recv_buf'[q][l] = recv_buf[q][was(q, l)]
  <2>1. \A l \in 1..Len(recv_buf'[p]) : was(p, l) \in 1..Len(recv_buf[p]) /\ recv_buf'[p][l] = recv_buf[p][was(p, l)]
    BY <1>2, <1>3, <1>5
  <2>2. ASSUME NEW q \in Proc, q # p, NEW l \in 1..Len(recv_buf'[q])
        PROVE  was(q, l) \in 1..Len(recv_buf[q]) /\ recv_buf'[q][l] = recv_buf[q][was(q, l)]
    BY <1>3, <2>2
  <2> HIDE DEF was
  <2> QED
    BY <2>1, <2>2
<1>7. \A q \in Proc : \A k \in 1..Len(recv_buf[q]) : \E l \in 1..Len(recv_buf'[q]) : recv_buf'[q][l] = recv_buf[q][k]
  <2>1. ASSUME NEW k \in 1..Len(recv_buf[p])
        PROVE  \E l \in 1..Len(recv_buf'[p]) : recv_buf'[p][l] = recv_buf[p][k]
    <3>1. PICK l \in 1..Len(recv_buf[p]) : f[l] = k
      BY <1>2
    <3> QED
      BY <1>2, <1>3, <1>5, <3>1
  <2>2. ASSUME NEW q \in Proc, q # p, NEW k \in 1..Len(recv_buf[q])
        PROVE  \E l \in 1..Len(recv_buf'[q]) : recv_buf'[q][l] = recv_buf[q][k]
    BY <1>3, <2>2
  <2> QED
    BY <2>1, <2>2
<1>8. \A q \in Proc : \A l, k \in 1..Len(recv_buf'[q]) : was(q, l) = was(q, k) => l = k
  BY <1>1, <1>2, <1>3
<1> HIDE DEF was
<1>9. \A q : Outgoing(q)' = Outgoing(q)
  BY <1>1, OutgoingStays
<1>10. \A m \in flight : m.src \in Proc /\ m.dst \in Proc
  BY FlightType
<1>11. \A m \in flight' : pc'[m.src] # "app" /\ m \in Outgoing(m.src)
  BY <1>1, <1>3, <1>10 DEF KeptInv
<1>12. \A q \in Proc : \A l \in 1..Len(recv_buf'[q]) : recv_buf'[q][l] # NoBuffer =>
          /\ recv_buf'[q][l].dst = q /\ pc'[recv_buf'[q][l].src] # "app"
          /\ Stripped(recv_buf'[q][l]) \in Outgoing(recv_buf'[q][l].src)
  <2>1. ASSUME NEW q \in Proc, NEW l \in 1..Len(recv_buf[q]), recv_buf[q][l] # NoBuffer
        PROVE  /\ recv_buf[q][l].dst = q /\ pc'[recv_buf[q][l].src] # "app"
               /\ Stripped(recv_buf[q][l]) \in Outgoing(recv_buf[q][l].src)
    <3>1. recv_buf[q][l] \in Messages
      BY <2>1, RecvBufType
    <3>2. recv_buf[q][l].src \in Proc
      BY <3>1 DEF Messages
    <3> QED
      BY <1>3, <2>1, <3>2 DEF KeptInv
  <2> QED
    BY <1>6, <2>1
<1>13. \A q \in Proc : pc'[q] # "app" => \A m \in Outgoing(q) :
          m \in flight' \/ \E l \in 1..Len(recv_buf'[m.dst]) : Has(m.dst, l, m)'
  <2>1. ASSUME NEW q \in Proc, pc'[q] # "app", NEW m \in Outgoing(q), m \notin flight
        PROVE  \E l \in 1..Len(recv_buf'[m.dst]) : Has(m.dst, l, m)'
    <3>1. call \in Calls
      BY DEF ListsInv
    <3>2. m \in Messages
      BY <3>1, OutgoingType
    <3>3. m.dst \in Proc
      BY <3>2 DEF Messages
    <3>4. PICK k \in 1..Len(recv_buf[m.dst]) : recv_buf[m.dst][k] # NoBuffer /\ Stripped(recv_buf[m.dst][k]) = m
      BY <1>3, <2>1 DEF KeptInv, Has
    <3>5. PICK l \in 1..Len(recv_buf'[m.dst]) : recv_buf'[m.dst][l] = recv_buf[m.dst][k]
      BY <1>7, <3>3, <3>4
    <3> QED
      BY <3>4, <3>5 DEF Has
  <2> QED
    BY <1>1, <2>1
<1>14. \A m \in flight' : \A l \in 1..Len(recv_buf'[m.dst]) : ~Has(m.dst, l, m)'
  <2>1. ASSUME NEW m \in flight, NEW l \in 1..Len(recv_buf'[m.dst]),
               recv_buf'[m.dst][l] # NoBuffer, Stripped(recv_buf'[m.dst][l]) = m
        PROVE  FALSE
    <3>1. was(m.dst, l) \in 1..Len(recv_buf[m.dst]) /\ recv_buf'[m.dst][l] = recv_buf[m.dst][was(m.dst, l)]
      BY <1>6, <1>10
    <3> QED
      BY <2>1, <3>1 DEF KeptInv, Has
  <2> QED
    BY <1>1, <2>1 DEF Has
<1>15. \A q \in Proc : \A l, k \in 1..Len(recv_buf'[q]) :
          recv_buf'[q][l] # NoBuffer /\ Has(q, k, Stripped(recv_buf[q][l]))' => k = l
  <2>1. ASSUME NEW q \in Proc, NEW l \in 1..Len(recv_buf'[q]), NEW k \in 1..Len(recv_buf'[q]),
               recv_buf'[q][l] # NoBuffer, recv_buf'[q][k] # NoBuffer,
               Stripped(recv_buf'[q][k]) = Stripped(recv_buf'[q][l])
        PROVE  k = l
    <3>1. /\ was(q, l) \in 1..Len(recv_buf[q]) /\ recv_buf'[q][l] = recv_buf[q][was(q, l)]
          /\ was(q, k) \in 1..Len(recv_buf[q]) /\ recv_buf'[q][k] = recv_buf[q][was(q, k)]
      BY <1>6
    <3>2. was(q, k) = was(q, l)
      BY <2>1, <3>1 DEF KeptInv, Has
    <3> QED
      BY <1>8, <3>2
  <2>2. ASSUME NEW q \in Proc, NEW l \in 1..Len(recv_buf'[q]), NEW k \in 1..Len(recv_buf'[q]),
               recv_buf'[q][l] # NoBuffer, Has(q, k, Stripped(recv_buf[q][l]))'
        PROVE  k = l
    <3>1. recv_buf'[q][k] # NoBuffer /\ Stripped(recv_buf'[q][k]) = Stripped(recv_buf'[q][l])
      BY <2>2 DEF Has
    <3> QED
      BY <2>1, <2>2, <3>1
  <2> QED
    BY <2>2
<1>16. KeptInv'
  BY <1>9, <1>11, <1>12, <1>13, <1>14, <1>15 DEF KeptInv
<1> QED
  BY <1>4, <1>16

LEMMA SortingShuffles ==
    ASSUME ListsInv, NEW p \in Proc, pc[p] = "wait", call.form # "SScatter"
    PROVE  /\ SortedBy(Sorting(p), Len(recv_buf[p]), Earlier(p, Len(recv_buf[p])))
           /\ Shuffles(Sorting(p), Len(recv_buf[p]))
<1>1. PICK N \in Nat : N = Len(recv_buf[p])
  BY RecvBufType
<1>2. DOMAIN recv_buf[p] = 1..N /\ Len(prc_recv[p]) = N /\ prc_recv[p] \in Seq(Proc) /\ tags[p] \in Seq(Nat)
  BY <1>1, RecvBufType DEF ListsInv
<1>3. \A i \in 1..N : Entry(p, i).proc \in Nat /\ Entry(p, i).tag \in Nat
  <2>1. \A i \in 1..N : prc_recv[p][i] \in Proc
    BY <1>2, ElementOfSeq
  <2>2. \A i \in DOMAIN tags[p] : tags[p][i] \in Nat
    BY <1>2, ElementOfSeq, LenProperties
  <2> QED
    BY <2>1, <2>2, PackingAssumption DEF Entry
<1>4. SortedBy(Sorting(p), N, Earlier(p, N))
  BY <1>2, <1>3, SortingSorts
<1>5. Shuffles(Sorting(p), N)
  <2>1. PICK f : f = Sorting(p)
    OBVIOUS
  <2>2. SortedBy(f, N, Earlier(p, N))
    BY <1>4, <2>1
  <2>3. \A n \in 1..N : <<n, n>> \notin Earlier(p, N)
    BY <1>3 DEF Earlier, Before
  <2>4. ASSUME NEW n \in 1..N, NEW k \in 1..N, n < k
        PROVE  f[n] # f[k]
    <3>1. <<f[n], f[k]>> \in Earlier(p, N) /\ f[n] \in 1..N
      BY <2>2, <2>4 DEF SortedBy
    <3> QED
      BY <2>3, <3>1
  <2>5. \A n, k \in 1..N : f[n] = f[k] => n = k
    BY <2>4
  <2> QED
    BY <2>1, <2>2, <2>5 DEF SortedBy, Shuffles
<1> QED
  BY <1>1, <1>4, <1>5

\* A list is put in the order of f.
LEMMA SortedList ==
    ASSUME NEW S, NEW N \in Nat, NEW f, Shuffles(f, N), NEW v \in Seq(S), N <= Len(v)
    PROVE  /\ Sorted(f, v) \in Seq(S) /\ Len(Sorted(f, v)) = N
           /\ \A l \in 1..N : Sorted(f, v)[l] = v[f[l]]
<1>1. f \in [1..N -> 1..N]
  BY DEF Shuffles
<1>2. \A l \in 1..N : v[f[l]] \in S
  BY <1>1, ElementOfSeq, LenProperties
<1>3. DOMAIN f = 1..N
  BY <1>1
<1>4. Sorted(f, v) \in [1..N -> S] /\ \A l \in 1..N : Sorted(f, v)[l] = v[f[l]]
  BY <1>2, <1>3 DEF Sorted
<1> QED
  BY <1>4, FunSeq

LEMMA EndsKept ==
    ASSUME ListsInv, KeptInv, NEW p \in Proc, EndSSendRecv(p) \/ EndSGather(p) \/ EndSScatter(p)
    PROVE  ListsInv' /\ KeptInv'
<1>1. /\ call \in Calls /\ pc[p] = "wait"
      /\ prc_recv \in [Proc -> Seq(Proc)] /\ prc_recv[p] \in Seq(Proc)
  BY DEF ListsInv, EndSSendRecv, EndSGather, EndSScatter, Complete
<1>2. PICK N \in Nat, s \in Seq(Messages \cup {NoBuffer}) :
         s = recv_buf[p] /\ N = Len(s) /\ \A l \in 1..N : s[l] \in Messages \cup {NoBuffer}
  BY RecvBufType
<1>3. CASE call.form # "SScatter"
  <2>1. PICK f : f = Sorting(p) /\ Shuffles(f, N)
    BY <1>1, <1>2, <1>3, SortingShuffles
  <2>2. /\ Sorted(f, s) \in Seq(Messages \cup {NoBuffer}) /\ Len(Sorted(f, s)) = N
        /\ \A l \in 1..N : Sorted(f, s)[l] = s[f[l]]
    BY <1>2, <2>1, SortedList, SMTT(30)
  <2>3. Len(prc_recv[p]) = N
    BY <1>1, <1>2, <1>3 DEF ListsInv
  <2>4. Sorted(f, prc_recv[p]) \in Seq(Proc)
    BY <1>1, <2>1, <2>3, SortedList
  <2>5. Append(Sorted(f, prc_recv[p]), p) \in Seq(Proc)
    BY <2>4
  <2>6. Finish(p, Sorted(f, s))
    BY <1>2, <1>3, <2>1 DEF EndSSendRecv, EndSGather, EndSScatter
  <2>7. \/ prc_recv' = [prc_recv EXCEPT ![p] = Sorted(f, prc_recv[p])]
        \/ prc_recv' = [prc_recv EXCEPT ![p] = Append(Sorted(f, prc_recv[p]), p)]
        \/ prc_recv' = prc_recv
    BY <1>3, <2>1 DEF EndSSendRecv, EndSGather, EndSScatter
  <2>8. prc_recv' \in [Proc -> Seq(Proc)] /\ \A q \in Proc : q # p => prc_recv'[q] = prc_recv[q]
    BY <1>1, <2>4, <2>5, <2>7
  <2>9. Ending(p, f, Sorted(f, s))
    BY <1>1, <1>2, <2>1, <2>2, <2>6, <2>8 DEF Ending
  <2> QED
    BY <2>9, EndingKept
<1>4. CASE call.form = "SScatter"
  <2>1. Shuffles([l \in 1..N |-> l], N)
    BY DEF Shuffles
  <2>2. Finish(p, s) /\ prc_recv' = prc_recv
    BY <1>2, <1>4 DEF EndSSendRecv, EndSGather, EndSScatter
  <2>3. Ending(p, [l \in 1..N |-> l], s)
    BY <1>1, <1>2, <2>1, <2>2 DEF Ending
  <2> QED
    BY <2>3, EndingKept
<1> QED
  BY <1>3, <1>4

LEMMA StutterKept ==
    ASSUME ListsInv, KeptInv, UNCHANGED vars
    PROVE  ListsInv' /\ KeptInv'
<1>1. /\ call' = call /\ pc' = pc /\ flight' = flight /\ recv_buf' = recv_buf /\ tags' = tags /\ prc_recv' = prc_recv
  BY DEF vars
<1>2. \A q : Outgoing(q)' = Outgoing(q)
  BY <1>1, OutgoingStays
<1>3. ListsInv'
  BY <1>1 DEF ListsInv
<1>4. KeptInv'
  BY <1>1, <1>2 DEF KeptInv, Has
<1> QED
  BY <1>3, <1>4

\* What a rank has sent (Outgoing of prepare_send_buffer, SGather, SScatter) is in flight or in exactly
\* one buffer of its receiver, where msg_alloc or msg_alloc_known put it, also after reorder_buffer has
\* sorted the buffers; nothing else is there; tags and prc_recv are as long as the buffers they tell of.
THEOREM NothingLost ==
    Spec => [](ListsInv /\ KeptInv)
<1>1. ASSUME ListsInv /\ KeptInv, [Next]_vars
      PROVE  (ListsInv /\ KeptInv)'
  <2>1. CASE \E p \in Proc : Prepare(p)
    BY <1>1, <2>1, PrepareKept
  <2>2. CASE \E p \in Proc : \E m \in flight : msg_alloc(p, m)
    BY <1>1, <2>2, AllocKept
  <2>3. CASE \E p \in Proc : \E m \in flight : FillIn(p, m)
    BY <1>1, <2>3, FillInKept
  <2>4. CASE \E p \in Proc : EndSSendRecv(p) \/ EndSGather(p) \/ EndSScatter(p)
    BY <1>1, <2>4, EndsKept
  <2>5. CASE UNCHANGED vars
    BY <1>1, <2>5, StutterKept
  <2> QED
    BY <1>1, <2>1, <2>2, <2>3, <2>4, <2>5 DEF Next, Done
<1> QED
  BY <1>1, InitKept, PTL DEF Spec

----------------------------------------------------------------------------
(* SentToOwner, for the calls that know their receivers only with layouts  *)
(* of one buffer for an object.                                            *)

LEMMA KeptSent ==
    ASSUME OneBuffer(Calls), ListsInv, KeptInv
    PROVE  SentToOwner
<1> DEFINE buffers == (flight \cup UNION {ToSet(recv_buf[q]) : q \in Proc}) \ {NoBuffer}
<1>1. call \in Calls /\ (Known => call.layout # "inte")
  BY DEF OneBuffer, ListsInv, Known
<1>2. ASSUME NEW m \in buffers
      PROVE  m \in Messages /\ m.src \in Proc /\ Stripped(m) \in Outgoing(m.src) /\ Stripped(m) \in Messages
  <2>1. CASE m \in flight
    BY <2>1, FlightType DEF KeptInv
  <2>2. CASE m \notin flight
    <3>1. PICK q \in Proc : m \in ToSet(recv_buf[q]) /\ m # NoBuffer
      BY <2>2
    <3>2. PICK l \in 1..Len(recv_buf[q]) : m = recv_buf[q][l]
      BY <3>1, RecvBufType DEF ToSet
    <3>3. m \in Messages /\ Stripped(m) \in Outgoing(m.src)
      BY <3>1, <3>2, RecvBufType DEF KeptInv
    <3> QED
      BY <3>3, StrippedType DEF Messages
  <2> QED
    BY <2>1, <2>2
<1>3. ASSUME NEW m \in buffers
      PROVE  m.of.obj # 0 /\ m.dst = Objects(m.src)[m.of.obj].dst
  <2> DEFINE p == m.src
             x == Stripped(m)
  <2>1. p \in Proc /\ x \in Outgoing(p)
    BY <1>2
  <2> HIDE DEF p, x
  <2>2. PICK i \in 1..Len(Objects(p)), j \in 1..Parts :
           Sends(p) /\ (Known \/ Sized(Objects(p)[i])) /\ x = MessageOf(p, i, j)
    BY <1>1, <2>1, OutgoingOf
  <2>3. m.dst = Objects(p)[i].dst /\ m.of = packing(p, i)[j]
    <3>1. Stripped(m).dst = m.dst /\ Stripped(m).of = m.of
      BY <1>2, StrippedType
    <3>2. x.dst = Objects(p)[i].dst /\ x.of = packing(p, i)[j]
      BY <2>2 DEF MessageOf
    <3> QED
      BY <3>1, <3>2 DEF x
  <2>4. Sized(Objects(p)[i]) \/ call.form # "SScatter"
    BY <1>1, <2>2, CallType DEF AsDeclared, Known
  <2>5. packing(p, i)[j].obj = i
    <3>1. Sized(Objects(p)[i]) \/ call.form # "SScatter" =>
             packing(p, i)[j].obj = i /\ packing(p, i)[j].n = Objects(p)[i].n
      BY <1>1, <2>1, PackingOf
    <3> QED
      BY <2>4, <3>1
  <2> QED
    BY <2>2, <2>3, <2>5 DEF p
<1>4. ASSUME NEW p \in Proc, pc[p] # "app", Sends(p), NEW i \in DOMAIN Objects(p), Objects(p)[i].n # 0
      PROVE  UNION {m.of.prp : m \in {b \in buffers : b.src = p /\ b.of.obj = i}} = Props
  <2>1. i \in 1..Len(Objects(p)) /\ Sized(Objects(p)[i])
    BY <1>1, <1>4, ObjectsType DEF Sized
  <2>2. ASSUME NEW j \in 1..Parts
        PROVE  \E m \in buffers : m.src = p /\ m.of.obj = i /\ m.of.prp = IF call.layout = "inte" THEN {j} ELSE Props
    <3>1. PICK x \in Outgoing(p) : x = MessageOf(p, i, j)
      BY <1>1, <1>4, <2>1, OutgoingOf
    <3>2. x.src = p /\ x.of = packing(p, i)[j]
      BY <3>1 DEF MessageOf
    <3>3. x.of.obj = i /\ x.of.prp = IF call.layout = "inte" THEN {j} ELSE Props
      <4>1. Sized(Objects(p)[i]) \/ call.form # "SScatter" =>
               packing(p, i)[j].obj = i /\ packing(p, i)[j].n = Objects(p)[i].n
        BY <1>1, <2>1, PackingOf
      <4>2. packing(p, i)[j].prp = IF call.layout = "inte" THEN {j} ELSE Props
        BY <1>1, <2>1, PackingPrp
      <4> QED
        BY <2>1, <3>2, <4>1, <4>2
    <3>4. CASE x \in flight
      <4>1. x # NoBuffer
        <5>1. x.tag # 0
          BY <3>4, FlightType
        <5> QED
          BY <5>1 DEF NoBuffer
      <4> QED
        BY <3>2, <3>3, <3>4, <4>1
    <3>5. CASE x \notin flight
      <4>1. x \in Messages
        BY <1>1, OutgoingType
      <4>2. x.dst \in Proc
        BY <4>1 DEF Messages
      <4>3. PICK l \in 1..Len(recv_buf[x.dst]) : recv_buf[x.dst][l] # NoBuffer /\ Stripped(recv_buf[x.dst][l]) = x
        BY <1>4, <3>5 DEF KeptInv, Has
      <4>4. PICK b \in Messages : b = recv_buf[x.dst][l]
        BY <4>2, <4>3, RecvBufType
      <4>5. b.src = x.src /\ b.of = x.of
        <5>1. Stripped(b).src = b.src /\ Stripped(b).of = b.of
          BY StrippedType
        <5> QED
          BY <4>3, <4>4, <5>1
      <4>6. b \in ToSet(recv_buf[x.dst])
        BY <4>2, <4>4, RecvBufType DEF ToSet
      <4> QED
        BY <3>2, <3>3, <4>2, <4>3, <4>4, <4>5, <4>6
    <3> QED
      BY <3>4, <3>5
  <2>3. ASSUME NEW m \in buffers, m.src = p, m.of.obj = i
        PROVE  m.of.prp \subseteq Props
    BY <1>2, <2>3 DEF Messages, Bufs
  <2>4. \A x \in Props : \E j \in 1..Parts : x \in IF call.layout = "inte" THEN {j} ELSE Props
    BY PropsType DEF Parts
  <2> HIDE DEF buffers
  <2> QED
    BY <2>2, <2>3, <2>4, ZenonT(60)
<1> QED
  BY <1>3, <1>4 DEF SentToOwner

\* SentToOwner, "each object T in the vector send is sent to one processor specified in the list prc_send"
\* (VCluster.hpp, SSendRecv): for any calls whose known receivers get one buffer for an object.
THEOREM ObjectsSentToOwner ==
    ASSUME OneBuffer(Calls)
    PROVE  Spec => []SentToOwner
<1>1. ListsInv /\ KeptInv => SentToOwner
  BY KeptSent
<1> QED
  BY <1>1, NothingLost, PTL

----------------------------------------------------------------------------
(* The loop over the buffers, one stride after the other.                  *)

\* Before the first stride, and after stride k of those that begin at starts.
Before_All(p, buf, sz) ==
    [recv |-> recv[p], start |-> 1, sz |-> resize(sz, Len(buf)), byte |-> resize(sz_byte[p], Len(buf))]

Processing(p, buf, sz, starts, h) ==
    /\ h[0] = Before_All(p, buf, sz)
    /\ \A k \in 1..Len(starts) : h[k] = process_one(p, buf, h[k - 1], starts[k])

\* The loop does not leave V.
Stays(p, buf, sz, starts, V) ==
    /\ Before_All(p, buf, sz) \in V
    /\ \A s \in V : \A k \in 1..Len(starts) : process_one(p, buf, s, starts[k]) \in V

Loop(p, buf, sz, starts, V) ==
    \E h \in [0..Len(starts) -> V] : Processing(p, buf, sz, starts, h) /\ process(p, buf, sz) = h[Len(starts)]

LEMMA ProcessOf ==
    ASSUME NEW p, NEW buf, NEW sz, NEW starts \in Seq(Nat), starts = Starts(buf),
           NEW V, Stays(p, buf, sz, starts, V)
    PROVE  Loop(p, buf, sz, starts, V)
<1> DEFINE D == 1..Len(starts)
           b == Before_All(p, buf, sz)
           Iter(it) == it = [s \in SUBSET D |-> IF s = {} THEN b
                                                ELSE process_one(p, buf, it[s \ {Max(s)}], starts[Max(s)])]
<1> USE DEF Stays
<1>1. Len(starts) \in Nat /\ DOMAIN starts = D /\ \A k \in D : starts[k] \in Nat
  BY LenProperties, ElementOfSeq
<1>2. PICK G \in [D -> [V -> V]] : \A k \in D, v \in V : G[k][v] = process_one(p, buf, v, starts[k])
  <2>1. PICK G : G = [k \in D |-> [v \in V |-> process_one(p, buf, v, starts[k])]]
    OBVIOUS
  <2>2. \A k \in D : [v \in V |-> process_one(p, buf, v, starts[k])] \in [V -> V]
    OBVIOUS
  <2>3. G \in [D -> [V -> V]] /\ \A k \in D, v \in V : G[k][v] = process_one(p, buf, v, starts[k])
    BY <2>1, <2>2
  <2> QED
    BY <2>3
<1>3. PICK g \in [SUBSET D -> V] : Folded(Len(starts), b, G, g)
  BY <1>1, <1>2, SetRecursion
<1>4. Iter(g)
  <2>1. ASSUME NEW s \in SUBSET D, s # {}
        PROVE  g[s] = process_one(p, buf, g[s \ {Max(s)}], starts[Max(s)])
    <3>1. Max(s) \in D /\ s \ {Max(s)} \in SUBSET D
      BY <1>1, <2>1, Largest
    <3>2. g[s \ {Max(s)}] \in V
      BY <3>1
    <3> QED
      BY <1>1, <1>2, <1>3, <2>1, <3>1, <3>2 DEF Folded
  <2>2. g[{}] = b
    BY <1>1, <1>3 DEF Folded
  <2> HIDE DEF b
  <2> QED
    BY <1>3, <2>1, <2>2
<1>5. PICK it : Iter(it) /\ process(p, buf, sz) = it[D]
  <2>1. process(p, buf, sz) = (CHOOSE it : Iter(it))[D]
    BY <1>1 DEF process, FoldLeft, MapThenFoldSet, Before_All
  <2>2. Iter(CHOOSE it : Iter(it))
    BY <1>4
  <2> QED
    BY <2>1, <2>2
<1> HIDE DEF b
<1>6. PICK h : h = [k \in 0..Len(starts) |-> it[1..k]]
  OBVIOUS
<1>7. h[0] = b
  BY <1>1, <1>5, <1>6
<1> HIDE DEF Iter
<1>8. ASSUME NEW k \in D
      PROVE  h[k] = process_one(p, buf, h[k - 1], starts[k])
  <2>1. 1..k \in SUBSET D /\ 1..k # {} /\ Max(1..k) = k /\ (1..k) \ {k} = 1..(k - 1)
    BY <1>1, FirstNumbers
  <2>2. it[1..k] = process_one(p, buf, it[1..(k - 1)], starts[k])
    BY <1>5, <2>1 DEF Iter
  <2> QED
    BY <1>1, <1>6, <2>2
<1>9. \A k \in 0..Len(starts) : h[k] \in V
  <2> DEFINE T == {k \in 0..Len(starts) : h[k] \in V}
  <2>1. 0 \in T
    BY <1>1, <1>7 DEF b
  <2>2. ASSUME NEW k \in 0..(Len(starts) - 1), k \in T
        PROVE  k + 1 \in T
    <3>1. k + 1 \in D /\ (k + 1) - 1 = k
      BY <1>1
    <3>2. h[k + 1] = process_one(p, buf, h[k], starts[k + 1])
      BY <1>8, <3>1
    <3> QED
      BY <2>2, <3>1, <3>2
  <2> HIDE DEF T
  <2>3. 0..Len(starts) \subseteq T
    BY <1>1, <2>1, <2>2, InductionTo
  <2> QED
    BY <2>3 DEF T
<1>10. h \in [0..Len(starts) -> V]
  BY <1>6, <1>9
<1>11. Processing(p, buf, sz, starts, h)
  BY <1>7, <1>8 DEF Processing, b
<1>12. process(p, buf, sz) = h[Len(starts)]
  <2>1. Len(starts) \in 0..Len(starts) /\ process(p, buf, sz) = it[1..Len(starts)]
    BY <1>1, <1>5
  <2> QED
    BY <1>6, <2>1
<1> QED
  BY <1>10, <1>11, <1>12 DEF Loop

LEMMA StrideType ==
    ASSUME SomeProperty(Calls), call \in Calls
    PROVE  Stride \in Nat \ {0}
<1>1. call.prps \in Seq(Props) /\ call.prps # <<>>
  BY CallType DEF SomeProperty
<1> QED
  BY <1>1, LenProperties, EmptySeq DEF Stride

LEMMA Ceiling ==
    ASSUME NEW n \in Nat, NEW S \in Nat \ {0}
    PROVE  /\ (n + S - 1) \div S \in Nat
           /\ \A m \in 1..((n + S - 1) \div S) : (m - 1) * S \in Nat /\ (m - 1) * S + 1 \in 1..n
<1> DEFINE N == (n + S - 1) \div S
<1>1. N \in Nat /\ N * S <= n + S - 1
  OBVIOUS
<1> HIDE DEF N
<1>2. ASSUME NEW m \in 1..N
      PROVE  (m - 1) * S \in Nat /\ (m - 1) * S <= n - 1
  <2>1. PICK k \in Nat : k = m - 1
    BY <1>1
  <2>2. k + 1 <= N
    BY <1>1, <2>1
  <2>3. k * S \in Nat /\ k * S + S <= N * S /\ N * S \in Nat
    BY <1>1, <2>2
  <2> QED
    BY <1>1, <2>1, <2>3
<1> QED
  BY <1>1, <1>2 DEF N

LEMMA StartsType ==
    ASSUME SomeProperty(Calls), call \in Calls, NEW S, NEW buf \in Seq(S)
    PROVE  /\ Starts(buf) \in Seq(Nat)
           /\ \A k \in 1..Len(Starts(buf)) : Starts(buf)[k] \in Nat /\ Starts(buf)[k] + 1 \in 1..Len(buf)
<1>1. PICK n \in Nat, T \in Nat \ {0} : n = Len(buf) /\ T = Stride
  BY StrideType, LenProperties
<1>2. PICK N \in Nat : N = (n + T - 1) \div T
  BY Ceiling
<1>3. \A m \in 1..N : (m - 1) * T \in Nat /\ (m - 1) * T + 1 \in 1..n
  BY <1>2, Ceiling
<1>4. Starts(buf) = [m \in 1..N |-> (m - 1) * T]
  BY <1>1, <1>2 DEF Starts
<1>5. Starts(buf) \in [1..N -> Nat] /\ \A m \in 1..N : Starts(buf)[m] = (m - 1) * T
  BY <1>3, <1>4
<1>6. Starts(buf) \in Seq(Nat) /\ Len(Starts(buf)) = N
  BY <1>5, FunSeq
<1> QED
  BY <1>1, <1>3, <1>5, <1>6

----------------------------------------------------------------------------
(* Types of what is unpacked and of what the operations leave.             *)

Recvs == {r \in [host : Rows, device : Rows] : Len(r.host) = Len(r.device)}

LEMMA CellsType ==
    ASSUME NEW b \in Messages \cup {NoBuffer}
    PROVE  /\ b.bytes \in Nat /\ b.of.src \in Nat /\ b.of.obj \in Nat /\ b.of.n \in Nat
           /\ \A prp, at : \A k \in Nat, j \in Props : Cell(b, prp, at, k, j) \in SUBSET Cells
<1>1. b.bytes \in Nat /\ b.of.src \in Nat /\ b.of.obj \in Nat /\ b.of.n \in Nat
  <2>1. CASE b \in Messages
    BY <2>1 DEF Messages, Bufs
  <2>2. CASE b = NoBuffer
    BY <2>2 DEF NoBuffer
  <2> QED
    BY <2>1, <2>2
<1>2. Garbage \in Cells
  BY DEF Garbage, Cells
<1>3. \A k \in Nat, j \in Props : [src |-> b.of.src, obj |-> b.of.obj, k |-> k, prp |-> j] \in Cells
  BY <1>1, PropsType DEF Cells
<1>4. ASSUME NEW prp, NEW at, NEW k \in Nat, NEW j \in Props
      PROVE  Cell(b, prp, at, k, j) \in SUBSET Cells
  BY <1>2, <1>3 DEF Cell
<1> QED
  BY <1>1, <1>4

LEMMA MakeRows ==
    ASSUME NEW n \in Nat, NEW f \in [1..n -> [Props -> SUBSET Cells]]
    PROVE  f \in Rows /\ Len(f) = n
BY FunSeq DEF Rows

LEMMA EmptyRows ==
    ASSUME NEW n \in Nat
    PROVE  Empty(n) \in Rows /\ Len(Empty(n)) = n
<1>1. Empty(n) \in [1..n -> [Props -> SUBSET Cells]]
  BY DEF Empty
<1> QED
  BY <1>1, MakeRows

LEMMA RowsType ==
    ASSUME NEW rows \in Rows
    PROVE  /\ Len(rows) \in Nat /\ DOMAIN rows = 1..Len(rows)
           /\ \A k \in 1..Len(rows) : rows[k] \in [Props -> SUBSET Cells]
           /\ rows \in [1..Len(rows) -> [Props -> SUBSET Cells]]
<1>1. rows \in Seq([Props -> SUBSET Cells])
  BY DEF Rows
<1> QED
  BY <1>1, LenProperties, ElementOfSeq

LEMMA UnpackedType ==
    ASSUME call \in Calls, NEW buf \in Seq(Messages \cup {NoBuffer}), NEW i \in Nat, i + 1 \in 1..Len(buf)
    PROVE  v2(buf, i) \in Rows
<1>1. DOMAIN buf = 1..Len(buf) /\ \A l \in 1..Len(buf) : buf[l] \in Messages \cup {NoBuffer}
  BY LenProperties, ElementOfSeq
<1>2. PICK b \in Messages \cup {NoBuffer} : b = buf[i + 1]
  BY <1>1
<1>3. /\ b.bytes \in Nat /\ b.of.n \in Nat
      /\ \A prp, at : \A k \in Nat, j \in Props : Cell(b, prp, at, k, j) \in SUBSET Cells
  BY CellsType
<1>4. Unpacked(buf, i) \in Rows
  <2>1. Unpacked(buf, i) \in [1..b.of.n -> [Props -> SUBSET Cells]]
    BY <1>2, <1>3 DEF Unpacked
  <2> QED
    BY <1>3, <2>1, MakeRows
<1>5. Unpacked_lin(buf, i) \in Rows
  <2>3. PICK x \in Nat, S \in Nat \ {0} : x = b.bytes /\ S = RowSize
    BY <1>3, PropsType
  <2>1. PICK n \in Nat : n = b.bytes \div RowSize
    <3>1. x \div S \in Nat
      OBVIOUS
    <3> QED
      BY <2>3, <3>1
  <2>2. Unpacked_lin(buf, i) \in [1..n -> [Props -> SUBSET Cells]]
    BY <1>2, <1>3, <2>1 DEF Unpacked_lin
  <2> QED
    BY <2>2, MakeRows
<1>6. Unpacked_inte(buf, i) \in Rows
  <2> DEFINE c(j) == IF i + j \in DOMAIN buf THEN buf[i + j] ELSE NoBuffer
             at == IF call.direct /\ call.aware THEN "device" ELSE "host"
             n_ele == c(Len(PropSize)).bytes \div PropSize[Len(PropSize)]
  <2>1. \A j : c(j) \in Messages \cup {NoBuffer}
    BY <1>1
  <2> HIDE DEF c
  <2>2. c(Len(PropSize)).bytes \in Nat
    BY <2>1, CellsType
  <2>3. PropSize[Len(PropSize)] \in Nat \ {0}
    BY PropsType
  <2>4. n_ele \in Nat
    BY <2>2, <2>3
  <2> HIDE DEF n_ele, at
  <2>5. \A k \in Nat, j \in Props : Cell(c(j), {j}, at, k, j) \in SUBSET Cells
    BY <2>1, CellsType
  <2>6. Unpacked_inte(buf, i) = [k \in 1..n_ele |-> [j \in Props |-> Cell(c(j), {j}, at, k, j)]]
    BY DEF Unpacked_inte, c, at, n_ele
  <2>7. Unpacked_inte(buf, i) \in [1..n_ele -> [Props -> SUBSET Cells]]
    BY <2>4, <2>5, <2>6
  <2> QED
    BY <2>4, <2>7, MakeRows
<1>7. call.layout = "packed" \/ call.base = "lin" \/ call.base = "inte"
  BY CallType
<1> QED
  BY <1>4, <1>5, <1>6, <1>7 DEF v2

LEMMA PickedType ==
    ASSUME NEW rows \in Rows
    PROVE  Picked(rows) \in Rows /\ Len(Picked(rows)) = Len(rows)
<1>1. Picked(rows) \in [1..Len(rows) -> [Props -> SUBSET Cells]]
  BY RowsType DEF Picked
<1> QED
  BY <1>1, RowsType, MakeRows

LEMMA JoinedType ==
    ASSUME NEW r \in Rows, NEW s \in Rows
    PROVE  r \o s \in Rows /\ Len(r \o s) = Len(r) + Len(s)
BY ConcatProperties DEF Rows

\* An operation made new of r: it is typed, and its host memory has n rows more.
Grown(r, new, n) == new \in Recvs /\ Len(new.host) = Len(r.host) + n

LEMMA GrownTwice ==
    ASSUME NEW r \in Recvs, NEW s, NEW t, NEW n \in Nat, NEW k \in Nat, Grown(r, s, n), Grown(s, t, k)
    PROVE  Grown(r, t, n + k)
<1>1. PICK a \in Nat : a = Len(r.host)
  BY RowsType DEF Recvs
<1>2. t \in Recvs /\ Len(t.host) = (a + n) + k
  BY <1>1 DEF Grown
<1>3. (a + n) + k = a + (n + k)
  OBVIOUS
<1> QED
  BY <1>1, <1>2, <1>3 DEF Grown

LEMMA AddType ==
    ASSUME NEW r \in Recvs, NEW rows \in Rows
    PROVE  Grown(r, add_prp(r, rows), Len(rows)) /\ Grown(r, add_prp_device(r, rows), Len(rows))
<1>1. r.host \in Rows /\ r.device \in Rows /\ Len(r.host) = Len(r.device)
  BY DEF Recvs
<1>2. /\ Picked(rows) \in Rows /\ Len(Picked(rows)) = Len(rows)
      /\ Empty(Len(rows)) \in Rows /\ Len(Empty(Len(rows))) = Len(rows)
  BY PickedType, RowsType, EmptyRows
<1>3. /\ r.host \o Picked(rows) \in Rows /\ Len(r.host \o Picked(rows)) = Len(r.host) + Len(rows)
      /\ r.device \o Picked(rows) \in Rows /\ Len(r.device \o Picked(rows)) = Len(r.device) + Len(rows)
  BY <1>1, <1>2, JoinedType
<1>4. /\ r.host \o Empty(Len(rows)) \in Rows /\ Len(r.host \o Empty(Len(rows))) = Len(r.host) + Len(rows)
      /\ r.device \o Empty(Len(rows)) \in Rows /\ Len(r.device \o Empty(Len(rows))) = Len(r.device) + Len(rows)
  BY <1>1, <1>2, JoinedType
<1>5. Grown(r, add_prp(r, rows), Len(rows))
  BY <1>1, <1>3, <1>4 DEF add_prp, Recvs, Grown
<1>6. Grown(r, add_prp_device(r, rows), Len(rows))
  BY <1>1, <1>3, <1>4 DEF add_prp_device, Recvs, Grown
<1> QED
  BY <1>5, <1>6

LEMMA CopyType ==
    ASSUME NEW r \in Recvs, NEW from, NEW to
    PROVE  Grown(r, hostToDevice(r, from, to), 0)
<1>1. r.host \in Rows /\ r.device \in Rows /\ Len(r.host) = Len(r.device) /\ r \in [host : Rows, device : Rows]
  BY DEF Recvs
<1> DEFINE new == [x \in DOMAIN r.device |-> [j \in Props |->
                      IF x - 1 \in from..to /\ Merged(j) THEN r.host[x][j] ELSE r.device[x][j]]]
<1>2. /\ DOMAIN r.device = 1..Len(r.device) /\ Len(r.device) \in Nat
      /\ \A x \in 1..Len(r.device) : r.device[x] \in [Props -> SUBSET Cells] /\ r.host[x] \in [Props -> SUBSET Cells]
  BY <1>1, RowsType
<1>3. new \in [1..Len(r.device) -> [Props -> SUBSET Cells]]
  BY <1>2
<1> HIDE DEF new
<1>4. new \in Rows /\ Len(new) = Len(r.device)
  BY <1>2, <1>3, MakeRows
<1>5. hostToDevice(r, from, to) = [r EXCEPT !.device = new]
  BY <1>1 DEF hostToDevice, new
<1> QED
  BY <1>1, <1>2, <1>4, <1>5 DEF Recvs, Grown

LEMMA MergeType ==
    ASSUME NEW r \in Recvs, NEW at \in {"host", "device"}, NEW rows \in Rows, NEW into, NEW replace \in BOOLEAN
    PROVE  Grown(r, merge_prp(r, at, rows, into, replace), 0)
<1>1. r.host \in Rows /\ r.device \in Rows /\ Len(r.host) = Len(r.device) /\ r \in [host : Rows, device : Rows]
  BY DEF Recvs
<1>2. PICK old \in Rows : old = r[at]
  BY <1>1
<1> DEFINE new(x, j) == UNION {rows[k][j] : k \in {l \in DOMAIN rows \cap DOMAIN into : into[l] = x}}
           row(x, j) == IF ~Merged(j) \/ new(x, j) = {} THEN old[x][j]
                        ELSE IF replace THEN new(x, j) ELSE old[x][j] \cup new(x, j)
           all == [x \in DOMAIN old |-> [j \in Props |-> row(x, j)]]
<1>3. \A x : \A j \in Props : new(x, j) \in SUBSET Cells
  BY RowsType
<1> HIDE DEF new
<1>4. \A x \in 1..Len(old) : \A j \in Props : row(x, j) \in SUBSET Cells
  BY <1>2, <1>3, RowsType
<1>5. all \in [1..Len(old) -> [Props -> SUBSET Cells]]
  <2> HIDE DEF row
  <2> QED
    BY <1>2, <1>4, RowsType
<1> HIDE DEF all
<1>6. all \in Rows /\ Len(all) = Len(old)
  BY <1>2, <1>5, RowsType, MakeRows
<1>7. merge_prp(r, at, rows, into, replace) = [r EXCEPT ![at] = all]
  BY <1>1, <1>2 DEF merge_prp, all, new
<1>8. Len(r.host) \in Nat
  BY <1>1, RowsType
<1>9. CASE at = "host"
  BY <1>1, <1>2, <1>6, <1>7, <1>8, <1>9 DEF Recvs, Grown
<1>10. CASE at = "device"
  BY <1>1, <1>2, <1>6, <1>7, <1>8, <1>10 DEF Recvs, Grown
<1> QED
  BY <1>9, <1>10

LEMMA ExecuteType ==
    ASSUME call \in Calls, NEW p, NEW r \in Recvs, NEW rows \in Rows, NEW i, NEW start
    PROVE  Grown(r, execute(p, r, rows, i, start), IF call.op = "add" THEN Len(rows) ELSE 0)
<1>1. \A into : \A at \in {"host", "device"}, replace \in BOOLEAN : Grown(r, merge_prp(r, at, rows, into, replace), 0)
  BY MergeType
<1>2. Len(rows) \in Nat /\ Len(r.host) \in Nat
  BY RowsType DEF Recvs
<1>3. Grown(r, op_ssend_recv_add(r, rows), Len(rows))
  <2>1. Grown(r, add_prp(r, rows), Len(rows)) /\ Grown(r, add_prp_device(r, rows), Len(rows))
    BY AddType
  <2>2. ASSUME NEW from, NEW to
        PROVE  Grown(r, hostToDevice(add_prp(r, rows), from, to), Len(rows))
    <3>1. PICK s \in Recvs : s = add_prp(r, rows)
      BY <2>1 DEF Grown
    <3>2. Grown(s, hostToDevice(s, from, to), 0)
      BY CopyType
    <3>3. Grown(r, hostToDevice(s, from, to), Len(rows) + 0)
      BY <1>2, <2>1, <3>1, <3>2, GrownTwice
    <3>4. Len(rows) + 0 = Len(rows)
      BY <1>2
    <3> QED
      BY <3>1, <3>3, <3>4
  <2> QED
    BY <2>1, <2>2 DEF op_ssend_recv_add
<1>4. Grown(r, op_ssend_recv_merge(p, r, rows, i), 0)
  BY <1>1 DEF op_ssend_recv_merge
<1>5. Grown(r, r, 0)
  BY <1>2 DEF Grown
<1>6. Grown(r, op_ssend_recv_merge_gpu(p, r, rows, i), 0)
  BY <1>1, <1>5 DEF op_ssend_recv_merge_gpu
<1>7. Grown(r, op_ssend_gg_recv_merge(r, rows, start), 0)
  BY <1>1 DEF op_ssend_gg_recv_merge
<1>8. Grown(r, op_ssend_gg_recv_merge_run_device(r, rows, start), 0)
  <2>1. ASSUME NEW from, NEW to
        PROVE  Grown(r, hostToDevice(op_ssend_gg_recv_merge(r, rows, start), from, to), 0)
    <3>1. PICK s \in Recvs : s = op_ssend_gg_recv_merge(r, rows, start)
      BY <1>7 DEF Grown
    <3>2. Grown(s, hostToDevice(s, from, to), 0)
      BY CopyType
    <3>3. Grown(r, hostToDevice(s, from, to), 0 + 0)
      BY <1>7, <3>1, <3>2, GrownTwice
    <3> QED
      BY <3>1, <3>3
  <2> QED
    BY <1>1, <2>1 DEF op_ssend_gg_recv_merge_run_device
<1>9. CASE call.op = "add"
  BY <1>3, <1>9 DEF execute
<1>10. CASE call.op # "add"
  BY <1>4, <1>6, <1>7, <1>8, <1>10, CallType DEF execute
<1> QED
  BY <1>9, <1>10

LEMMA ResizeType ==
    ASSUME NEW v \in Seq(Nat), NEW n \in Nat
    PROVE  resize(v, n) \in Seq(Nat) /\ Len(resize(v, n)) = n
<1>1. resize(v, n) \in [1..n -> Nat]
  BY ElementOfSeq, LenProperties DEF resize
<1> QED
  BY <1>1, FunSeq

LEMMA EntryWritten ==
    ASSUME NEW v \in Seq(Nat), NEW i \in Nat, i + 1 \in 1..Len(v), NEW a \in Nat
    PROVE  \E w : w \in Seq(Nat) /\ Len(w) = Len(v) /\ w = [v EXCEPT ![i + 1] = a]
<1>1. PICK l \in 1..Len(v) : l = i + 1
  OBVIOUS
<1>2. [v EXCEPT ![l] = a] \in Seq(Nat) /\ Len([v EXCEPT ![l] = a]) = Len(v)
  BY ExceptSeq
<1> QED
  BY <1>1, <1>2

\* What the loop carries along over n buffers.
Carried(n) == [recv : Recvs, start : Nat, sz : {s \in Seq(Nat) : Len(s) = n}, byte : {s \in Seq(Nat) : Len(s) = n}]

LEMMA ProcessOneType ==
    ASSUME call \in Calls, NEW p, NEW buf \in Seq(Messages \cup {NoBuffer}), NEW s \in Carried(Len(buf)),
           NEW i \in Nat, i + 1 \in 1..Len(buf)
    PROVE  process_one(p, buf, s, i) \in Carried(Len(buf))
<1>1. /\ s.recv \in Recvs /\ s.start \in Nat /\ s.sz \in Seq(Nat) /\ s.byte \in Seq(Nat)
      /\ Len(s.sz) = Len(buf) /\ Len(s.byte) = Len(buf)
  BY DEF Carried
<1>2. PICK rows \in Rows : rows = v2(buf, i)
  BY UnpackedType
<1>3. PICK new : new = execute(p, s.recv, rows, i, s.start)
  OBVIOUS
<1>4. Grown(s.recv, new, IF call.op = "add" THEN Len(rows) ELSE 0)
  BY <1>1, <1>3, ExecuteType
<1>5. new \in Recvs /\ \E a \in Nat : a = Added(s.recv, new)
  <2>1. PICK n \in Nat : n = IF call.op = "add" THEN Len(rows) ELSE 0
    BY RowsType
  <2>2. new \in Recvs /\ Len(new.host) = Len(s.recv.host) + n
    BY <1>4, <2>1 DEF Grown
  <2>3. PICK l \in Nat : l = Len(s.recv.host)
    BY <1>1, RowsType DEF Recvs
  <2>4. Added(s.recv, new) = n
    BY <2>2, <2>3 DEF Added
  <2> QED
    BY <2>2, <2>4
<1>11. PICK a \in Nat : a = Added(s.recv, new)
  BY <1>5
<1>6. PICK b \in Nat : b = buf[i + 1].bytes
  <2>1. buf[i + 1] \in Messages \cup {NoBuffer}
    BY ElementOfSeq
  <2> QED
    BY <2>1, CellsType
<1>7. PICK t \in Nat : t = Moved(s.start, rows)
  BY <1>1, RowsType DEF Moved
<1>8. PICK sz : sz \in Seq(Nat) /\ Len(sz) = Len(buf) /\ sz = [s.sz EXCEPT ![i + 1] = a]
  BY <1>1, EntryWritten, SMTT(30)
<1>9. PICK byte : byte \in Seq(Nat) /\ Len(byte) = Len(buf) /\ byte = [s.byte EXCEPT ![i + 1] = b]
  BY <1>1, EntryWritten, SMTT(30)
<1>10. process_one(p, buf, s, i) = [recv |-> new, start |-> t, sz |-> sz, byte |-> byte]
  BY <1>2, <1>3, <1>11, <1>6, <1>7, <1>8, <1>9 DEF process_one
<1> QED
  BY <1>5, <1>8, <1>9, <1>10 DEF Carried

LEMMA ProcessType ==
    ASSUME SomeProperty(Calls), call \in Calls, NEW p, NEW buf \in Seq(Messages \cup {NoBuffer}), NEW sz \in Seq(Nat),
           recv[p] \in Recvs, sz_byte[p] \in Seq(Nat)
    PROVE  process(p, buf, sz) \in Carried(Len(buf))
<1>1. PICK starts \in Seq(Nat) : starts = Starts(buf)
  BY StartsType
<1>2. \A k \in 1..Len(starts) : starts[k] \in Nat /\ starts[k] + 1 \in 1..Len(buf)
  BY <1>1, StartsType
<1>3. PICK V : V = Carried(Len(buf))
  OBVIOUS
<1>4. Before_All(p, buf, sz) \in V
  BY <1>3, ResizeType, LenProperties DEF Before_All, Carried
<1>5. \A s \in V : \A k \in 1..Len(starts) : process_one(p, buf, s, starts[k]) \in V
  BY <1>2, <1>3, ProcessOneType
<1>6. Stays(p, buf, sz, starts, V)
  BY <1>4, <1>5 DEF Stays
<1>7. Loop(p, buf, sz, starts, V)
  BY <1>1, <1>6, ProcessOf
<1>8. PICK h \in [0..Len(starts) -> V] :
         Processing(p, buf, sz, starts, h) /\ process(p, buf, sz) = h[Len(starts)]
  BY <1>7 DEF Loop
<1> QED
  BY <1>3, <1>8, LenProperties, SMTT(30)

----------------------------------------------------------------------------
(* The types of the caller's lists and of its object.                      *)

TypesInv ==
    /\ sz_recv \in [Proc -> Seq(Nat)] /\ sz_byte \in [Proc -> Seq(Nat)] /\ recv \in [Proc -> Recvs]
    /\ \A p \in Proc : pc[p] = "wait" /\ call.form = "SGather" => Len(sz_recv[p]) = Len(recv_buf[p])

LEMMA KnownElementsType ==
    ASSUME call \in Calls, NEW p \in Proc
    PROVE  KnownElements(p) \in Seq(Nat)
<1>1. /\ Arrivals(p) \in Seq(Arrs) /\ DOMAIN Arrivals(p) = 1..Len(Arrivals(p))
      /\ \A m \in 1..Len(Arrivals(p)) : Arrivals(p)[m] \in Arrs /\ Arrivals(p)[m].n \in Nat
  BY ArrivalsType
<1>2. PICK n \in Nat : n = Len(KnownSenders(p)) /\ DOMAIN KnownSenders(p) = 1..n
  BY KnownSendersType
<1>3. ASSUME NEW i \in 1..n
      PROVE  (CHOOSE m \in ToSet(Arrivals(p)) : m.src = KnownSenders(p)[i]).n \in Nat
  <2>1. KnownSenders(p)[i] \in {Arrivals(p)[m].src : m \in 1..Len(Arrivals(p))}
    BY <1>2, KnownSendersType
  <2>2. ToSet(Arrivals(p)) = {Arrivals(p)[m] : m \in 1..Len(Arrivals(p))}
    BY <1>1 DEF ToSet
  <2>3. \E m \in ToSet(Arrivals(p)) : m.src = KnownSenders(p)[i]
    BY <2>1, <2>2
  <2>4. (CHOOSE m \in ToSet(Arrivals(p)) : m.src = KnownSenders(p)[i]) \in ToSet(Arrivals(p))
    BY <2>3
  <2>5. \A m \in ToSet(Arrivals(p)) : m.n \in Nat
    BY <1>1, <2>2
  <2> QED
    BY <2>4, <2>5
<1>4. KnownElements(p) \in [1..n -> Nat]
  BY <1>2, <1>3 DEF KnownElements
<1> QED
  BY <1>4, FunSeq

LEMMA ElementsType ==
    ASSUME call \in Calls, NEW p \in Proc
    PROVE  Elements(p) \in Nat
<1>1. PICK s : s = [m \in DOMAIN Arrivals(p) |-> Arrivals(p)[m].n]
  OBVIOUS
<1>2. s \in [1..Len(Arrivals(p)) -> Nat] /\ Len(Arrivals(p)) \in Nat
  BY <1>1, ArrivalsType
<1>3. s \in Seq(Nat)
  BY <1>2, FunSeq
<1> QED
  BY <1>1, <1>3, SumAtLeast DEF Elements

LEMMA InitTypes ==
    ASSUME Init
    PROVE  TypesInv
<1>1. call \in Calls
  BY DEF Init
<1>2. sz_recv \in [Proc -> Seq(Nat)]
  <2>1. PICK old \in {<<>>, <<9, 9, 9>>} :
           sz_recv = [p \in Proc |-> IF call.opt = "KNOWN_ELEMENT" THEN KnownElements(p) ELSE old]
    BY DEF Init
  <2>2. old \in Seq(Nat)
    <3>1. <<>> \in Seq(Nat) /\ <<9, 9, 9>> \in Seq(Nat)
      OBVIOUS
    <3> QED
      BY <2>1, <3>1
  <2> QED
    BY <1>1, <2>1, <2>2, KnownElementsType
<1>3. sz_byte \in [Proc -> Seq(Nat)]
  BY DEF Init
<1>4. recv \in [Proc -> Recvs]
  <2>1. recv = [p \in Proc |-> LET rows == Empty(IF call.op = "add" THEN 1 ELSE 1 + Elements(p)) IN
                               [host |-> rows, device |-> rows]]
    BY DEF Init
  <2>2. ASSUME NEW p \in Proc
        PROVE  [host |-> Empty(IF call.op = "add" THEN 1 ELSE 1 + Elements(p)),
                device |-> Empty(IF call.op = "add" THEN 1 ELSE 1 + Elements(p))] \in Recvs
    <3>1. PICK n \in Nat : n = IF call.op = "add" THEN 1 ELSE 1 + Elements(p)
      BY <1>1, ElementsType
    <3>2. Empty(n) \in Rows
      BY EmptyRows
    <3> QED
      BY <3>1, <3>2 DEF Recvs
  <2> QED
    BY <2>1, <2>2
<1>5. \A p \in Proc : pc[p] # "wait"
  BY DEF Init
<1> QED
  BY <1>2, <1>3, <1>4, <1>5 DEF TypesInv

LEMMA PrepareTypes ==
    ASSUME ListsInv, KeptInv, TypesInv, NEW p \in Proc, Prepare(p)
    PROVE  TypesInv'
<1>1. /\ call \in Calls /\ call' = call /\ sz_byte' = sz_byte /\ recv' = recv
      /\ pc' = [pc EXCEPT ![p] = "wait"] /\ pc \in [Proc -> {"app", "wait", "done"}]
      /\ sz_recv \in [Proc -> Seq(Nat)] /\ recv_buf \in [Proc -> Seq(Messages \cup {NoBuffer})]
  BY DEF Prepare, ListsInv, TypesInv
<1> DEFINE chunks == [i \in DOMAIN Objects(p) |-> Objects(p)[i].n]
           list == CASE call.form = "SSendRecv" -> sz_recv[p]
                     [] call.form = "SGather"   -> <<>>
                     [] call.form = "SScatter"  -> IF p = call.root THEN chunks ELSE <<>>
<1>2. sz_recv' = [sz_recv EXCEPT ![p] = list]
  BY <1>1 DEF Prepare
<1>3. chunks \in Seq(Nat)
  <2>1. chunks \in [1..Len(Objects(p)) -> Nat] /\ Len(Objects(p)) \in Nat
    BY <1>1, ObjectsType
  <2> HIDE DEF chunks
  <2> QED
    BY <2>1, FunSeq
<1> HIDE DEF chunks
<1>4. list \in Seq(Nat) /\ (call.form = "SGather" => list = <<>>)
  BY <1>1, <1>3, CallType
<1> HIDE DEF list
<1>5. \A q \in Proc : pc'[q] = "wait" /\ call'.form = "SGather" => Len(sz_recv'[q]) = Len(recv_buf'[q])
  <2>1. ASSUME NEW q \in Proc, pc'[q] = "wait", call.form = "SGather"
        PROVE  Len(sz_recv'[q]) = Len(recv_buf'[q])
    <3>1. CASE q = p
      <4>1. ~Known
        BY <1>1, <2>1, CallType DEF AsDeclared, Known
      <4>2. recv_buf'[p] = <<>>
        BY <1>1, <4>1 DEF Prepare
      <4> QED
        BY <1>1, <1>2, <1>4, <2>1, <3>1, <4>2
    <3>2. CASE q # p
      <4>1. recv_buf'[q] = recv_buf[q] /\ sz_recv'[q] = sz_recv[q] /\ pc'[q] = pc[q]
        BY <1>1, <1>2, <3>2 DEF Prepare
      <4> QED
        BY <2>1, <4>1 DEF TypesInv
    <3> QED
      BY <3>1, <3>2
  <2> QED
    BY <1>1, <2>1
<1> QED
  BY <1>1, <1>2, <1>4, <1>5 DEF TypesInv

LEMMA AllocTypes ==
    ASSUME ListsInv, KeptInv, TypesInv, NEW p \in Proc, NEW m \in flight, msg_alloc(p, m)
    PROVE  TypesInv'
<1> DEFINE b == [m EXCEPT !.at = IF call.direct /\ call.aware THEN "device" ELSE "host"]
<1>1. /\ call' = call /\ pc' = pc /\ sz_byte' = sz_byte /\ recv' = recv
      /\ recv_buf' = [recv_buf EXCEPT ![p] = Append(@, b)]
      /\ sz_recv' = [sz_recv EXCEPT ![p] = IF call.form = "SSendRecv" THEN @ ELSE Append(@, m.bytes)]
  BY DEF msg_alloc
<1>2. m.bytes \in Nat /\ sz_recv \in [Proc -> Seq(Nat)] /\ sz_recv[p] \in Seq(Nat)
      /\ recv_buf \in [Proc -> Seq(Messages \cup {NoBuffer})] /\ recv_buf[p] \in Seq(Messages \cup {NoBuffer})
  BY FlightType DEF TypesInv, ListsInv, Messages
<1>3. m \in Messages
  BY FlightType
<1>4. b \in Messages
  <2>1. PICK at \in {"wire", "host", "device"} : at = IF call.direct /\ call.aware THEN "device" ELSE "host"
    OBVIOUS
  <2> QED
    BY <1>3, <2>1, StrippedType
<1> HIDE DEF b
<1>5. /\ Append(sz_recv[p], m.bytes) \in Seq(Nat) /\ Len(Append(sz_recv[p], m.bytes)) = Len(sz_recv[p]) + 1
      /\ Len(Append(recv_buf[p], b)) = Len(recv_buf[p]) + 1
  BY <1>2, <1>4, AppendProperties
<1>6. \A q \in Proc : pc'[q] = "wait" /\ call'.form = "SGather" => Len(sz_recv'[q]) = Len(recv_buf'[q])
  <2>1. ASSUME NEW q \in Proc, pc[q] = "wait", call.form = "SGather"
        PROVE  Len(sz_recv'[q]) = Len(recv_buf'[q])
    <3>1. Len(sz_recv[q]) = Len(recv_buf[q])
      BY <2>1 DEF TypesInv
    <3>2. CASE q = p
      BY <1>1, <1>2, <1>5, <2>1, <3>1, <3>2
    <3>3. CASE q # p
      BY <1>1, <1>2, <3>1, <3>3
    <3> QED
      BY <3>2, <3>3
  <2> QED
    BY <1>1, <2>1
<1>7. sz_recv' \in [Proc -> Seq(Nat)]
  BY <1>1, <1>2, <1>5
<1> QED
  BY <1>1, <1>6, <1>7 DEF TypesInv

LEMMA FillInTypes ==
    ASSUME ListsInv, KeptInv, TypesInv, NEW p \in Proc, NEW m \in flight, FillIn(p, m)
    PROVE  TypesInv'
<1>1. /\ call' = call /\ pc' = pc /\ sz_byte' = sz_byte /\ recv' = recv /\ sz_recv' = sz_recv /\ Known /\ call \in Calls
  BY DEF FillIn, ListsInv
<1>2. call.form # "SGather"
  BY <1>1, CallType DEF AsDeclared, Known
<1> QED
  BY <1>1, <1>2 DEF TypesInv

LEMMA OwnType ==
    ASSUME call \in Calls, NEW p \in Proc, call.form = "SGather"
    PROVE  Own(p) \in Rows
<1>1. 1 \in 1..Len(Objects(p))
  BY CallType DEF AsDeclared, Objects
<1>2. PICK n \in Nat : n = Objects(p)[1].n
  BY <1>1, ObjectsType
<1>3. \A k \in Nat, j \in Props : [src |-> p, obj |-> 1, k |-> k, prp |-> j] \in Cells
  BY PropsType, PackingAssumption DEF Cells
<1>4. Own(p) \in [1..n -> [Props -> SUBSET Cells]]
  BY <1>2, <1>3 DEF Own
<1> QED
  BY <1>4, MakeRows

LEMMA EndsTypes ==
    ASSUME SomeProperty(Calls), ListsInv, TypesInv, NEW p \in Proc, EndSSendRecv(p) \/ EndSGather(p) \/ EndSScatter(p)
    PROVE  TypesInv'
<1>1. /\ call \in Calls /\ call' = call /\ pc[p] = "wait" /\ pc' = [pc EXCEPT ![p] = "done"]
      /\ pc \in [Proc -> {"app", "wait", "done"}]
      /\ \A q \in Proc : q # p => recv_buf'[q] = recv_buf[q]
  BY DEF ListsInv, EndSSendRecv, EndSGather, EndSScatter, Complete, Finish
<1>2. /\ sz_recv \in [Proc -> Seq(Nat)] /\ sz_recv[p] \in Seq(Nat) /\ sz_byte \in [Proc -> Seq(Nat)]
      /\ sz_byte[p] \in Seq(Nat) /\ recv \in [Proc -> Recvs] /\ recv[p] \in Recvs
  BY DEF TypesInv
<1>3. PICK N \in Nat, s \in Seq(Messages \cup {NoBuffer}) : s = recv_buf[p] /\ N = Len(s)
  BY RecvBufType
<1>4. ASSUME NEW buf \in Seq(Messages \cup {NoBuffer}), NEW sz \in Seq(Nat)
      PROVE  /\ process(p, buf, sz).recv \in Recvs /\ process(p, buf, sz).sz \in Seq(Nat)
             /\ process(p, buf, sz).byte \in Seq(Nat)
  <2>1. process(p, buf, sz) \in Carried(Len(buf))
    BY <1>1, <1>2, ProcessType
  <2> QED
    BY <2>1 DEF Carried
<1>5. CASE EndSSendRecv(p)
  <2>1. call.form # "SScatter"
    BY <1>5 DEF EndSSendRecv
  <2>2. PICK f : f = Sorting(p) /\ Shuffles(f, N)
    BY <1>1, <1>3, <2>1, SortingShuffles
  <2>3. PICK buf \in Seq(Messages \cup {NoBuffer}) : buf = Sorted(f, s)
    BY <1>3, <2>2, SortedList
  <2>4. PICK x : x = process(p, buf, sz_recv[p]) /\ x.recv \in Recvs /\ x.sz \in Seq(Nat) /\ x.byte \in Seq(Nat)
    BY <1>2, <1>4
  <2>5. /\ recv' = [recv EXCEPT ![p] = x.recv]
        /\ sz_recv' = [sz_recv EXCEPT ![p] = x.sz] \/ sz_recv' = sz_recv
        /\ sz_byte' = [sz_byte EXCEPT ![p] = x.byte] \/ sz_byte' = sz_byte
    BY <1>3, <1>5, <2>2, <2>3, <2>4 DEF EndSSendRecv
  <2>6. call.form # "SGather"
    BY <1>5 DEF EndSSendRecv
  <2> QED
    BY <1>1, <1>2, <2>4, <2>5, <2>6 DEF TypesInv
<1>6. CASE EndSGather(p)
  <2>1. call.form = "SGather" /\ sz_byte' = sz_byte
    BY <1>6 DEF EndSGather
  <2>2. PICK f : f = Sorting(p) /\ Shuffles(f, N)
    BY <1>1, <1>3, <2>1, SortingShuffles
  <2>3. PICK buf \in Seq(Messages \cup {NoBuffer}) : buf = Sorted(f, s)
    BY <1>3, <2>2, SortedList
  <2>4. Len(sz_recv[p]) = N
    BY <1>1, <1>3, <2>1 DEF TypesInv
  <2>5. PICK sz \in Seq(Nat) : sz = Sorted(f, sz_recv[p])
    <3>1. sz_recv[p] \in Seq(Nat) /\ N \in Nat /\ N <= Len(sz_recv[p])
      BY <1>2, <2>4
    <3>2. Sorted(f, sz_recv[p]) \in Seq(Nat)
      BY <2>2, <3>1, SortedList
    <3> QED
      BY <3>2
  <2>6. PICK x : x = process(p, buf, sz) /\ x.recv \in Recvs /\ x.sz \in Seq(Nat)
    BY <1>2, <1>4
  <2>7. PICK n \in Nat, own \in Rows : own = Own(p) /\ n = Len(own)
    BY <1>1, <2>1, OwnType, RowsType
  <2>8. PICK r \in Recvs : r = add_prp(x.recv, own)
    BY <2>6, AddType DEF Grown
  <2>9. Append(x.sz, n) \in Seq(Nat)
    BY <2>6
  <2>10. \/ recv' = [recv EXCEPT ![p] = r] /\ sz_recv' = [sz_recv EXCEPT ![p] = Append(x.sz, n)]
         \/ recv' = recv /\ sz_recv' = sz_recv
    BY <1>3, <1>6, <2>2, <2>3, <2>5, <2>6, <2>7, <2>8 DEF EndSGather
  <2>11. recv' \in [Proc -> Recvs] /\ sz_recv' \in [Proc -> Seq(Nat)]
         /\ \A q \in Proc : q # p => sz_recv'[q] = sz_recv[q]
    BY <1>2, <2>9, <2>10
  <2>12. \A q \in Proc : pc'[q] = "wait" => q # p /\ pc[q] = "wait"
    BY <1>1
  <2>13. \A q \in Proc : pc'[q] = "wait" /\ call'.form = "SGather" => Len(sz_recv'[q]) = Len(recv_buf'[q])
    BY <1>1, <2>11, <2>12 DEF TypesInv
  <2> QED
    BY <1>2, <2>1, <2>11, <2>13 DEF TypesInv
<1>7. CASE EndSScatter(p)
  <2>1. call.form # "SGather" /\ sz_byte' = sz_byte /\ sz_recv' = sz_recv
    BY <1>7 DEF EndSScatter
  <2>2. PICK x : x = process(p, s, <<>>) /\ x.recv \in Recvs
    <3>1. <<>> \in Seq(Nat)
      OBVIOUS
    <3> QED
      BY <1>4, <3>1
  <2>3. recv' = [recv EXCEPT ![p] = x.recv]
    BY <1>3, <1>7, <2>2 DEF EndSScatter
  <2> QED
    BY <1>1, <1>2, <2>1, <2>2, <2>3 DEF TypesInv
<1> QED
  BY <1>5, <1>6, <1>7

\* The types of what the loop works on are kept.
LEMMA TypesStay ==
    ASSUME SomeProperty(Calls)
    PROVE  Spec => []TypesInv
<1>1. ASSUME ListsInv, KeptInv, TypesInv, [Next]_vars
      PROVE  TypesInv'
  <2>1. CASE \E p \in Proc : Prepare(p)
    BY <1>1, <2>1, PrepareTypes
  <2>2. CASE \E p \in Proc : \E m \in flight : msg_alloc(p, m)
    BY <1>1, <2>2, AllocTypes
  <2>3. CASE \E p \in Proc : \E m \in flight : FillIn(p, m)
    BY <1>1, <2>3, FillInTypes
  <2>4. CASE \E p \in Proc : EndSSendRecv(p) \/ EndSGather(p) \/ EndSScatter(p)
    BY <1>1, <2>4, EndsTypes
  <2>5. CASE UNCHANGED vars
    BY <1>1, <2>5 DEF vars, TypesInv
  <2> QED
    BY <1>1, <2>1, <2>2, <2>3, <2>4, <2>5 DEF Next, Done
<1>2. Init => TypesInv
  BY InitTypes
<1>3. ListsInv /\ KeptInv /\ TypesInv /\ [Next]_vars => TypesInv'
  BY <1>1
<1> QED
  BY <1>2, <1>3, NothingLost, PTL DEF Spec

\* TypeOK: lists of ranks and sizes, and in recv only cells of objects, whatever process_receive_buffer_with_prp
\* and the operations do to it, for any calls that name a property to merge (the loop would not advance).
THEOREM TypeCorrect ==
    ASSUME SomeProperty(Calls)
    PROVE  Spec => []TypeOK
<1>1. ListsInv /\ KeptInv /\ TypesInv => TypeOK
  <2>1. ASSUME TypesInv, NEW p \in Proc, NEW at \in {"host", "device"}, NEW x \in DOMAIN recv[p][at], NEW j \in Props
        PROVE  recv[p][at][x][j] \subseteq Cells
    <3>1. recv[p][at] \in Rows
      BY <2>1 DEF TypesInv, Recvs
    <3> QED
      BY <2>1, <3>1, RowsType
  <2>2. ASSUME ListsInv, KeptInv, NEW m \in flight
        PROVE  m.src \in Proc /\ m.dst \in Proc
    BY <2>2, FlightType
  <2> QED
    BY <2>1, <2>2 DEF ListsInv, TypesInv, TypeOK
<1>2. Spec => []TypesInv
  BY TypesStay
<1> QED
  BY <1>1, <1>2, NothingLost, PTL

----------------------------------------------------------------------------
(* Two lists in one strict order that have the same elements are the same. *)

Ordered(s, N, R) == \A i, k \in 1..N : i < k => <<s[i], s[k]>> \in R
Among(s, N, t, K) == \A i \in 1..N : \E k \in 1..K : s[i] = t[k]

LEMMA OneOrder ==
    ASSUME NEW S, NEW R, StrictOrder(R, S), NEW N \in Nat, NEW K \in Nat,
           NEW s \in [1..N -> S], NEW t \in [1..K -> S], Ordered(s, N, R), Ordered(t, K, R),
           Among(s, N, t, K), Among(t, K, s, N)
    PROVE  N = K /\ \A n \in 1..N : s[n] = t[n]
<1> DEFINE D == {n \in 1..N : n <= K /\ s[n] # t[n]}
<1>1. \A x, y, z \in S : <<x, x>> \notin R /\ (<<x, y>> \in R /\ <<y, z>> \in R => <<x, z>> \in R)
  BY DEF StrictOrder
<1>2. D = {}
  <2>1. SUFFICES ASSUME D # {}
        PROVE  FALSE
    OBVIOUS
  <2>2. PICK m \in D : \A n \in D : m <= n
    <3>1. D \subseteq Nat
      OBVIOUS
    <3> HIDE DEF D
    <3> QED
      BY <2>1, <3>1, Smallest
  <2>3. m \in 1..N /\ m \in 1..K /\ s[m] # t[m]
    OBVIOUS
  <2>4. PICK k \in 1..K : s[m] = t[k]
    BY <2>3 DEF Among
  <2>5. PICK l \in 1..N : t[m] = s[l]
    BY <2>3 DEF Among
  <2>6. \A n \in 1..N : n < m => n \in 1..K /\ s[n] = t[n]
    BY <2>2, <2>3
  <2>7. m < k
    <3>1. ~(k < m)
      <4>1. ASSUME k < m
            PROVE  FALSE
        <5>1. k \in 1..N /\ s[k] = s[m]
          BY <4>1, <2>3, <2>4, <2>6
        <5>2. <<s[k], s[m]>> \in R
          BY <4>1, <5>1, <2>3 DEF Ordered
        <5> QED
          BY <5>1, <5>2, <1>1, <2>3
      <4> QED
        BY <4>1
    <3> QED
      BY <3>1, <2>3, <2>4
  <2>8. m < l
    <3>1. ~(l < m)
      <4>1. ASSUME l < m
            PROVE  FALSE
        <5>1. l \in 1..K /\ t[l] = t[m]
          BY <4>1, <2>3, <2>5, <2>6
        <5>2. <<t[l], t[m]>> \in R
          BY <4>1, <5>1, <2>3 DEF Ordered
        <5> QED
          BY <5>1, <5>2, <1>1, <2>3
      <4> QED
        BY <4>1
    <3> QED
      BY <3>1, <2>3, <2>5
  <2>9. <<t[m], t[k]>> \in R /\ <<s[m], s[l]>> \in R
    BY <2>7, <2>8, <2>3 DEF Ordered
  <2>10. t[m] \in S /\ s[m] \in S
    BY <2>3
  <2> QED
    BY <2>4, <2>5, <2>9, <2>10, <1>1
<1>3. \A n \in 1..N : n <= K => s[n] = t[n]
  BY <1>2
<1> HIDE DEF D
<1>4. ~(N < K)
  <2>1. ASSUME N < K
        PROVE  FALSE
    <3>1. N + 1 \in 1..K
      BY <2>1
    <3>2. PICK l \in 1..N : t[N + 1] = s[l]
      BY <3>1 DEF Among
    <3>3. l \in 1..K /\ l < N + 1 /\ t[N + 1] = t[l]
      BY <2>1, <3>2, <1>3
    <3>4. <<t[l], t[N + 1]>> \in R
      BY <3>1, <3>3 DEF Ordered
    <3> QED
      BY <3>1, <3>3, <3>4, <1>1
  <2> QED
    BY <2>1
<1>5. ~(K < N)
  <2>1. ASSUME K < N
        PROVE  FALSE
    <3>1. K + 1 \in 1..N
      BY <2>1
    <3>2. PICK l \in 1..K : s[K + 1] = t[l]
      BY <3>1 DEF Among
    <3>3. l \in 1..N /\ l < K + 1 /\ s[K + 1] = s[l]
      BY <2>1, <3>2, <1>3
    <3>4. <<s[l], s[K + 1]>> \in R
      BY <3>1, <3>3 DEF Ordered
    <3> QED
      BY <3>1, <3>3, <3>4, <1>1
  <2> QED
    BY <2>1
<1>6. N = K
  BY <1>4, <1>5
<1> QED
  BY <1>3, <1>6

LEMMA BeforePart ==
    ASSUME NEW x \in Nat, NEW y \in Nat, NEW n \in Nat, NEW m \in Nat, NEW i \in 1..m, NEW j \in 1..n, y + n <= x
    PROVE  ~(x + i < y + j)
OBVIOUS

\* Parts that are ordered, and that come one after the other, make a list that is.
PartsOrdered(ss, R) ==
    /\ \A k \in 1..Len(ss) : Ordered(ss[k], Len(ss[k]), R)
    /\ \A k, l \in 1..Len(ss) : k < l =>
          \A i \in 1..Len(ss[k]), j \in 1..Len(ss[l]) : <<ss[k][i], ss[l][j]>> \in R

\* f has the elements of the parts, in the order R.
Flat(f, ss, R) ==
    /\ Ordered(f, Len(f), R)
    /\ \A a \in 1..Len(f) : \E k \in 1..Len(ss) : \E i \in 1..Len(ss[k]) : f[a] = ss[k][i]
    /\ \A k \in 1..Len(ss) : \A i \in 1..Len(ss[k]) : \E a \in 1..Len(f) : f[a] = ss[k][i]

LEMMA FlatOrder ==
    ASSUME NEW S, NEW ss \in Seq(Seq(S)), NEW R, PartsOrdered(ss, R)
    PROVE  Flat(FlattenSeq(ss), ss, R)
<1>1. PICK o : Offsets(ss, o)
  BY OffsetsExist
<1>2. PICK f : f = FlattenSeq(ss)
  OBVIOUS
<1>3. FlatTo(ss, o, f, Len(ss))
  BY <1>1, <1>2, Flattened
<1>4. /\ Len(ss) \in Nat /\ \A k \in 1..Len(ss) : Len(ss[k]) \in Nat
      /\ o[0] = 0 /\ \A k \in 0..Len(ss) : o[k] \in Nat
      /\ \A k \in 1..Len(ss) : k \in Nat /\ k - 1 \in 0..Len(ss) /\ k \in 0..Len(ss)
                               /\ o[k] = o[k - 1] + Len(ss[k])
  BY <1>1, OffsetsType
<1>5. Len(f) = o[Len(ss)] /\ Len(f) \in Nat
  BY <1>3, <1>4 DEF FlatTo
<1>6. \A k \in 1..Len(ss) : \A j \in 1..Len(ss[k]) : f[o[k - 1] + j] = ss[k][j]
  BY <1>3 DEF FlatTo
<1>7. \A k, l \in 0..Len(ss) : k <= l => o[k] <= o[l]
  BY <1>1, OffsetsGrow
<1>8. \A a \in 1..Len(f) : \E k \in 1..Len(ss) : \E j \in 1..Len(ss[k]) : a = o[k - 1] + j
  BY <1>1, <1>5, PlaceInPart
<1>9. ASSUME NEW k \in 1..Len(ss), NEW j \in 1..Len(ss[k])
      PROVE  o[k - 1] + j \in 1..Len(f)
  <2>1. o[k] <= o[Len(ss)] /\ o[k] = o[k - 1] + Len(ss[k]) /\ o[k - 1] \in Nat /\ Len(ss[k]) \in Nat
    BY <1>4, <1>7
  <2> QED
    BY <2>1, <1>5, Within, SMTT(30)
<1>10. ASSUME NEW a \in 1..Len(f), NEW b \in 1..Len(f), a < b
       PROVE  <<f[a], f[b]>> \in R
  <2>1. PICK k \in 1..Len(ss) : \E j \in 1..Len(ss[k]) : a = o[k - 1] + j
    BY <1>8
  <2>2. PICK i \in 1..Len(ss[k]) : a = o[k - 1] + i
    BY <2>1
  <2>3. PICK l \in 1..Len(ss) : \E j \in 1..Len(ss[l]) : b = o[l - 1] + j
    BY <1>8
  <2>4. PICK j \in 1..Len(ss[l]) : b = o[l - 1] + j
    BY <2>3
  <2>5. f[a] = ss[k][i] /\ f[b] = ss[l][j]
    BY <1>6, <2>2, <2>4
  <2>6. o[k - 1] \in Nat /\ o[l - 1] \in Nat /\ Len(ss[k]) \in Nat /\ Len(ss[l]) \in Nat
        /\ o[l] = o[l - 1] + Len(ss[l]) /\ o[k] = o[k - 1] + Len(ss[k])
    BY <1>4
  <2>7. ~(l < k)
    <3>1. ASSUME l < k
          PROVE  FALSE
      <4>1. o[l] <= o[k - 1]
        BY <3>1, <1>4, <1>7
      <4> QED
        BY <4>1, <2>2, <2>4, <2>6, <1>10, BeforePart
    <3> QED
      BY <3>1
  <2>8. CASE k < l
    BY <2>5, <2>8 DEF PartsOrdered
  <2>9. CASE k = l
    <3>1. i < j
      BY <2>9, <2>2, <2>4, <2>6, <1>10
    <3>2. Ordered(ss[k], Len(ss[k]), R)
      BY DEF PartsOrdered
    <3> QED
      BY <3>1, <3>2, <2>5, <2>9 DEF Ordered
  <2> QED
    BY <2>7, <2>8, <2>9, <1>4
<1>11. \A a \in 1..Len(f) : \E k \in 1..Len(ss) : \E i \in 1..Len(ss[k]) : f[a] = ss[k][i]
  <2>1. ASSUME NEW a \in 1..Len(f)
        PROVE  \E k \in 1..Len(ss) : \E i \in 1..Len(ss[k]) : f[a] = ss[k][i]
    <3>1. PICK k \in 1..Len(ss) : \E j \in 1..Len(ss[k]) : a = o[k - 1] + j
      BY <1>8
    <3>2. PICK j \in 1..Len(ss[k]) : a = o[k - 1] + j
      BY <3>1
    <3>3. f[a] = ss[k][j]
      BY <1>6, <3>2
    <3> QED
      BY <3>3
  <2> QED
    BY <2>1
<1>12. \A k \in 1..Len(ss) : \A i \in 1..Len(ss[k]) : \E a \in 1..Len(f) : f[a] = ss[k][i]
  BY <1>6, <1>9
<1> QED
  BY <1>2, <1>10, <1>11, <1>12 DEF Flat, Ordered

----------------------------------------------------------------------------
(* The arrivals are what is addressed to a rank, ordered by sender and     *)
(* object.                                                                 *)

ArrOrder == {e \in Arrs \X Arrs : e[1].src < e[2].src \/ (e[1].src = e[2].src /\ e[1].obj < e[2].obj)}
ArrivalAs(q, i) == [src |-> q, obj |-> i, n |-> Objects(q)[i].n]
IsAddressed(p, q, i) == i \in 1..Len(Objects(q)) /\ Objects(q)[i].dst = p /\ Sized(Objects(q)[i])

\* a are the arrivals at p from the ranks qs.
ArrivalsOf(a, p, qs) ==
    /\ Ordered(a, Len(a), ArrOrder)
    /\ \A m \in 1..Len(a) : \E q \in qs : \E i \in 1..Len(Objects(q)) : IsAddressed(p, q, i) /\ a[m] = ArrivalAs(q, i)
    /\ \A q \in qs : \A i \in 1..Len(Objects(q)) : IsAddressed(p, q, i) => \E m \in 1..Len(a) : a[m] = ArrivalAs(q, i)

LEMMA ArrivalAsType ==
    ASSUME call \in Calls, NEW q \in Proc, NEW i \in 1..Len(Objects(q))
    PROVE  /\ ArrivalAs(q, i) \in Arrs /\ ArrivalAs(q, i).src = q /\ ArrivalAs(q, i).obj = i
           /\ ArrivalAs(q, i).n = Objects(q)[i].n /\ i \in Nat /\ q \in Nat
<1>1. i \in Nat /\ Objects(q)[i].n \in Nat
  BY ObjectsType
<1> QED
  BY <1>1, PackingAssumption DEF ArrivalAs, Arrs

LEMMA ArrOrderOf ==
    ASSUME NEW x \in Arrs, NEW y \in Arrs
    PROVE  <<x, y>> \in ArrOrder <=> x.src < y.src \/ (x.src = y.src /\ x.obj < y.obj)
BY DEF ArrOrder

LEMMA ArriveOrder ==
    ASSUME call \in Calls, NEW q \in Proc, NEW p
    PROVE  ArrivalsOf(Arrive(p, q), p, {q})
<1>1. PICK ss : ss = [i \in 1..Len(Objects(q)) |-> ArrivalOf(p, q, i)]
  OBVIOUS
<1>2. /\ ss \in Seq(Seq(Arrs)) /\ Len(ss) = Len(Objects(q)) /\ Arrive(p, q) = FlattenSeq(ss)
      /\ \A i \in 1..Len(Objects(q)) : ss[i] = ArrivalOf(p, q, i)
  BY <1>1, ArriveParts
<1>3. ASSUME NEW k \in 1..Len(ss)
      PROVE  /\ Len(ss[k]) = IF IsAddressed(p, q, k) THEN 1 ELSE 0
             /\ \A i \in 1..Len(ss[k]) : IsAddressed(p, q, k) /\ i = 1 /\ ss[k][i] = ArrivalAs(q, k)
  <2>1. ss[k] = IF IsAddressed(p, q, k) THEN <<ArrivalAs(q, k)>> ELSE <<>>
    BY <1>2 DEF ArrivalOf, IsAddressed, ArrivalAs
  <2>2. CASE IsAddressed(p, q, k)
    <3>1. PICK x : x = ArrivalAs(q, k)
      OBVIOUS
    <3>2. ss[k] = <<x>>
      BY <2>1, <2>2, <3>1
    <3>3. Len(ss[k]) = 1 /\ ss[k][1] = x
      BY <3>2
    <3> QED
      BY <2>2, <3>1, <3>3
  <2>3. CASE ~IsAddressed(p, q, k)
    <3>1. Len(ss[k]) = 0
      BY <2>1, <2>3
    <3> QED
      BY <2>3, <3>1
  <2> QED
    BY <2>2, <2>3
<1>4. PartsOrdered(ss, ArrOrder)
  <2>1. ASSUME NEW k \in 1..Len(ss)
        PROVE  Ordered(ss[k], Len(ss[k]), ArrOrder)
    BY <1>3 DEF Ordered
  <2>2. ASSUME NEW k \in 1..Len(ss), NEW l \in 1..Len(ss), k < l, NEW i \in 1..Len(ss[k]), NEW j \in 1..Len(ss[l])
        PROVE  <<ss[k][i], ss[l][j]>> \in ArrOrder
    <3>1. ss[k][i] = ArrivalAs(q, k) /\ ss[l][j] = ArrivalAs(q, l)
      BY <1>3
    <3>2. k \in 1..Len(Objects(q)) /\ l \in 1..Len(Objects(q))
      BY <1>2
    <3>3. <<ArrivalAs(q, k), ArrivalAs(q, l)>> \in ArrOrder
      BY <2>2, <3>2, ArrivalAsType, ArrOrderOf
    <3> QED
      BY <3>1, <3>3
  <2> QED
    BY <2>1, <2>2 DEF PartsOrdered
<1>5. Flat(FlattenSeq(ss), ss, ArrOrder)
  BY <1>2, <1>4, FlatOrder
<1>6. PICK a : a = Arrive(p, q)
  OBVIOUS
<1>7. Flat(a, ss, ArrOrder)
  BY <1>2, <1>5, <1>6
<1>8. ASSUME NEW m \in 1..Len(a)
      PROVE  \E i \in 1..Len(Objects(q)) : IsAddressed(p, q, i) /\ a[m] = ArrivalAs(q, i)
  <2>1. PICK k \in 1..Len(ss) : \E i \in 1..Len(ss[k]) : a[m] = ss[k][i]
    BY <1>7 DEF Flat
  <2>2. PICK i \in 1..Len(ss[k]) : a[m] = ss[k][i]
    BY <2>1
  <2>3. IsAddressed(p, q, k) /\ a[m] = ArrivalAs(q, k)
    BY <1>3, <2>2
  <2> QED
    BY <1>2, <2>3
<1>9. ASSUME NEW i \in 1..Len(Objects(q)), IsAddressed(p, q, i)
      PROVE  \E m \in 1..Len(a) : a[m] = ArrivalAs(q, i)
  <2>1. i \in 1..Len(ss) /\ Len(ss[i]) = 1
    BY <1>2, <1>3, <1>9
  <2>2. ss[i][1] = ArrivalAs(q, i) /\ 1 \in 1..Len(ss[i])
    BY <1>3, <2>1
  <2>3. \E m \in 1..Len(a) : a[m] = ss[i][1]
    BY <1>7, <2>1, <2>2 DEF Flat
  <2> QED
    BY <2>2, <2>3
<1> QED
  BY <1>6, <1>7, <1>8, <1>9 DEF ArrivalsOf, Flat

LEMMA ArrivalsOrder ==
    ASSUME call \in Calls, NEW p \in Proc
    PROVE  ArrivalsOf(Arrivals(p), p, Senders(p))
<1>1. PICK c : c = Cardinality(Senders(p))
  OBVIOUS
<1>2. PICK s : s = Ascending(Senders(p))
  OBVIOUS
<1>3. /\ c \in Nat /\ s \in Seq(Senders(p)) /\ Len(s) = c
      /\ \A i, k \in 1..c : i < k => s[i] < s[k]
      /\ \A x \in Senders(p) : \E i \in 1..c : s[i] = x
  BY <1>1, <1>2, SendersType, AscendingHas
<1>4. PICK ss : ss = [k \in 1..c |-> Arrive(p, s[k])]
  OBVIOUS
<1>5. Arrivals(p) = FlattenSeq(ss)
  BY <1>2, <1>3, <1>4, LenProperties DEF Arrivals
<1>6. \A k \in 1..c : s[k] \in Senders(p) /\ s[k] \in Proc
  BY <1>3, SendersType, ElementOfSeq
<1>7. \A k \in 1..c : ss[k] \in Seq(Arrs) /\ ss[k] = Arrive(p, s[k]) /\ ArrivalsOf(ss[k], p, {s[k]})
  BY <1>4, <1>6, ArrivalsType, ArriveOrder
<1>8. ss \in [1..c -> Seq(Arrs)]
  BY <1>4, <1>7
<1>9. ss \in Seq(Seq(Arrs)) /\ Len(ss) = c
  BY <1>3, <1>8, FunSeq
<1>10. ASSUME NEW k \in 1..c, NEW i \in 1..Len(ss[k])
       PROVE  \E n \in 1..Len(Objects(s[k])) : IsAddressed(p, s[k], n) /\ ss[k][i] = ArrivalAs(s[k], n)
  BY <1>7 DEF ArrivalsOf
<1>11. PartsOrdered(ss, ArrOrder)
  <2>1. \A k \in 1..Len(ss) : Ordered(ss[k], Len(ss[k]), ArrOrder)
    BY <1>7, <1>9 DEF ArrivalsOf
  <2>2. ASSUME NEW k \in 1..Len(ss), NEW l \in 1..Len(ss), k < l, NEW i \in 1..Len(ss[k]), NEW j \in 1..Len(ss[l])
        PROVE  <<ss[k][i], ss[l][j]>> \in ArrOrder
    <3>1. k \in 1..c /\ l \in 1..c /\ s[k] < s[l]
      BY <2>2, <1>3, <1>9
    <3>2. PICK n \in 1..Len(Objects(s[k])) : ss[k][i] = ArrivalAs(s[k], n)
      BY <3>1, <1>10
    <3>3. PICK m \in 1..Len(Objects(s[l])) : ss[l][j] = ArrivalAs(s[l], m)
      BY <3>1, <1>10
    <3>4. s[k] \in Proc /\ s[l] \in Proc
      BY <3>1, <1>6
    <3>5. <<ArrivalAs(s[k], n), ArrivalAs(s[l], m)>> \in ArrOrder
      BY <3>1, <3>4, ArrivalAsType, ArrOrderOf
    <3> QED
      BY <3>2, <3>3, <3>5
  <2> QED
    BY <2>1, <2>2 DEF PartsOrdered
<1>12. PICK a : a = Arrivals(p)
  OBVIOUS
<1>13. Flat(a, ss, ArrOrder)
  BY <1>5, <1>9, <1>11, <1>12, FlatOrder
<1>14. ASSUME NEW m \in 1..Len(a)
       PROVE  \E q \in Senders(p) : \E i \in 1..Len(Objects(q)) : IsAddressed(p, q, i) /\ a[m] = ArrivalAs(q, i)
  <2>1. PICK k \in 1..Len(ss) : \E i \in 1..Len(ss[k]) : a[m] = ss[k][i]
    BY <1>13 DEF Flat
  <2>2. PICK i \in 1..Len(ss[k]) : a[m] = ss[k][i]
    BY <2>1
  <2>3. k \in 1..c
    BY <1>9
  <2>4. PICK q : q = s[k]
    OBVIOUS
  <2>5. q \in Senders(p) /\ \E n \in 1..Len(Objects(q)) : IsAddressed(p, q, n) /\ a[m] = ArrivalAs(q, n)
    BY <2>2, <2>3, <2>4, <1>6, <1>10
  <2> QED
    BY <2>5
<1>15. ASSUME NEW q \in Senders(p), NEW i \in 1..Len(Objects(q)), IsAddressed(p, q, i)
       PROVE  \E m \in 1..Len(a) : a[m] = ArrivalAs(q, i)
  <2>1. PICK k \in 1..c : s[k] = q
    BY <1>3
  <2>2. PICK j \in 1..Len(ss[k]) : ss[k][j] = ArrivalAs(q, i)
    BY <1>7, <1>15, <2>1 DEF ArrivalsOf
  <2>3. \E m \in 1..Len(a) : a[m] = ss[k][j]
    BY <1>9, <1>13 DEF Flat
  <2> QED
    BY <2>2, <2>3
<1>16. Ordered(a, Len(a), ArrOrder)
  BY <1>13 DEF Flat
<1> QED
  BY <1>12, <1>14, <1>15, <1>16 DEF ArrivalsOf

\* Those that send to a rank are the ones it has arrivals from.
LEMMA SendersSend ==
    ASSUME call \in Calls, NEW p \in Proc, NEW q \in Proc, NEW i \in 1..Len(Objects(q)), Objects(q)[i].dst = p
    PROVE  Sends(q) <=> q \in Senders(p)
<1>1. CASE call.form = "SGather"
  <2>1. Len(Objects(q)) = 1 /\ Objects(q)[1].dst = call.root
    BY <1>1, CallType DEF AsDeclared, Objects
  <2>2. p = call.root
    BY <2>1
  <2> QED
    BY <1>1, <2>2 DEF Sends, Senders
<1>2. CASE call.form = "SSendRecv"
  BY <1>2 DEF Sends, Senders
<1>3. CASE call.form = "SScatter"
  BY <1>3 DEF Sends, Senders
<1> QED
  BY <1>1, <1>2, <1>3, CallType

----------------------------------------------------------------------------
(* The buffers of a finished call, sorted by sender and tag, are those of  *)
(* the arrivals, object after object.                                      *)

Keys == Nat \X Nat
KeyOrder == {e \in Keys \X Keys : e[1][1] < e[2][1] \/ (e[1][1] = e[2][1] /\ e[1][2] < e[2][2])}
KeyOf(b) == <<b.src, b.tag>>

LEMMA KeyOrderOf ==
    ASSUME NEW a \in Nat, NEW b \in Nat, NEW c \in Nat, NEW d \in Nat
    PROVE  /\ <<a, b>> \in Keys /\ <<c, d>> \in Keys
           /\ <<<<a, b>>, <<c, d>>>> \in KeyOrder <=> a < c \/ (a = c /\ b < d)
BY DEF Keys, KeyOrder

LEMMA KeyOrderStrict ==
    StrictOrder(KeyOrder, Keys)
<1>1. ASSUME NEW x \in Keys
      PROVE  <<x, x>> \notin KeyOrder
  BY <1>1 DEF Keys, KeyOrder
<1>2. ASSUME NEW x \in Keys, NEW y \in Keys, x # y
      PROVE  <<x, y>> \in KeyOrder \/ <<y, x>> \in KeyOrder
  BY <1>2 DEF Keys, KeyOrder
<1>3. ASSUME NEW x \in Keys, NEW y \in Keys, NEW z \in Keys, <<x, y>> \in KeyOrder, <<y, z>> \in KeyOrder
      PROVE  <<x, z>> \in KeyOrder
  BY <1>3 DEF Keys, KeyOrder
<1> QED
  BY <1>1, <1>2, <1>3 DEF StrictOrder

LEMMA PlaceGrows ==
    ASSUME NEW i \in Nat \ {0}, NEW k \in Nat \ {0}, NEW j \in 1..Parts, NEW l \in 1..Parts
    PROVE  /\ Place(i, j) \in Nat \ {0}
           /\ (i < k => Place(i, j) < Place(k, l))
           /\ (Place(i, j) = Place(k, l) => i = k /\ j = l)
<1>1. Parts \in Nat \ {0} /\ i - 1 \in Nat /\ k - 1 \in Nat
  BY PartsType
<1>2. PICK c : c = Parts
  OBVIOUS
<1>3. c \in Nat \ {0} /\ j \in 1..c /\ l \in 1..c
  BY <1>1, <1>2
<1>4. (i - 1) * c \in Nat /\ (k - 1) * c \in Nat
  BY <1>1, <1>3, Times
<1>5. i < k => (i - 1) * c + c <= (k - 1) * c
  BY <1>1, <1>3, TimesGrow
<1>6. k < i => (k - 1) * c + c <= (i - 1) * c
  BY <1>1, <1>3, TimesGrow
<1>7. PICK x : x = (i - 1) * c
  OBVIOUS
<1>8. PICK y : y = (k - 1) * c
  OBVIOUS
<1>9. /\ x \in Nat /\ y \in Nat /\ (i < k => x + c <= y) /\ (k < i => y + c <= x) /\ (i = k => x = y)
      /\ Place(i, j) = x + j /\ Place(k, l) = y + l
  BY <1>2, <1>4, <1>5, <1>6, <1>7, <1>8 DEF Place
<1>10. i < k \/ k < i \/ i = k
  OBVIOUS
<1> QED
  BY <1>3, <1>9, <1>10

\* The keys of what is expected.
ExpectedKey(p, m, j) == <<Arrivals(p)[m].src, Place(Arrivals(p)[m].obj, j)>>
KeysAt(p, t, n) ==
    /\ \A m \in 1..Len(Arrivals(p)), j \in 1..Parts : Place(m, j) \in 1..n /\ t[Place(m, j)] = ExpectedKey(p, m, j)
    /\ \A l \in 1..n : \E m \in 1..Len(Arrivals(p)), j \in 1..Parts : l = Place(m, j)

LEMMA ArrivalOfRank ==
    ASSUME call \in Calls, NEW p \in Proc, NEW m \in 1..Len(Arrivals(p))
    PROVE  LET a == Arrivals(p)[m] IN
           /\ a \in Arrs /\ a.src \in Proc /\ a.src \in Nat /\ a.src \in Senders(p) /\ Sends(a.src)
           /\ a.obj \in 1..Len(Objects(a.src)) /\ a.obj \in Nat \ {0}
           /\ Objects(a.src)[a.obj].dst = p /\ Objects(a.src)[a.obj].n = a.n /\ a.n \in Nat
           /\ Sized(Objects(a.src)[a.obj])
<1>1. ArrivalsOf(Arrivals(p), p, Senders(p))
  BY ArrivalsOrder
<1>2. PICK a : a = Arrivals(p)[m]
  OBVIOUS
<1>3. PICK q \in Senders(p) : \E i \in 1..Len(Objects(q)) : IsAddressed(p, q, i) /\ a = ArrivalAs(q, i)
  BY <1>1, <1>2 DEF ArrivalsOf
<1>4. PICK i \in 1..Len(Objects(q)) : IsAddressed(p, q, i) /\ a = ArrivalAs(q, i)
  BY <1>3
<1>5. q \in Proc
  BY SendersType
<1>6. a \in Arrs /\ a.src = q /\ a.obj = i /\ a.n = Objects(q)[i].n /\ i \in Nat /\ q \in Nat
  BY <1>4, <1>5, ArrivalAsType
<1>7. Objects(q)[i].dst = p /\ Sized(Objects(q)[i])
  BY <1>4 DEF IsAddressed
<1>8. Sends(q) /\ Objects(q)[i].n \in Nat
  BY <1>5, <1>7, SendersSend, ObjectsType
<1>9. i \in Nat \ {0}
  BY <1>6
<1> QED
  BY <1>2, <1>3, <1>4, <1>5, <1>6, <1>7, <1>8, <1>9

LEMMA ExpectedKeys ==
    ASSUME call \in Calls, NEW p \in Proc
    PROVE  \E t \in [1..(Len(Arrivals(p)) * Parts) -> Keys] :
              /\ Ordered(t, Len(Arrivals(p)) * Parts, KeyOrder)
              /\ KeysAt(p, t, Len(Arrivals(p)) * Parts)
<1>1. PICK n : n = Len(Arrivals(p))
  OBVIOUS
<1>2. PICK c : c = Parts
  OBVIOUS
<1>3. n \in Nat /\ c \in Nat \ {0}
  BY <1>1, <1>2, ArrivalsType, PartsType
<1>4. PICK ss : ss = [m \in 1..n |-> [j \in 1..c |-> ExpectedKey(p, m, j)]]
  OBVIOUS
<1>5. ASSUME NEW m \in 1..n, NEW j \in 1..c
      PROVE  /\ Arrivals(p)[m].src \in Nat /\ Place(Arrivals(p)[m].obj, j) \in Nat
             /\ ExpectedKey(p, m, j) \in Keys
  <2>1. Arrivals(p)[m].src \in Nat /\ Arrivals(p)[m].obj \in Nat \ {0}
    BY <1>1, ArrivalOfRank
  <2>2. Place(Arrivals(p)[m].obj, j) \in Nat
    BY <2>1, <1>2, PlaceGrows
  <2> QED
    BY <2>1, <2>2, KeyOrderOf DEF ExpectedKey
<1>6. ASSUME NEW m \in 1..n
      PROVE  ss[m] \in Seq(Keys) /\ Len(ss[m]) = c
  <2>1. ss[m] \in [1..c -> Keys]
    BY <1>4, <1>5
  <2> QED
    BY <2>1, <1>3, FunSeq
<1>7. ss \in [1..n -> Seq(Keys)]
  BY <1>4, <1>6
<1>8. ss \in Seq(Seq(Keys)) /\ Len(ss) = n
  BY <1>3, <1>7, FunSeq
<1>9. UniformParts(ss, c)
  BY <1>6, <1>8 DEF UniformParts
<1>10. PartsOrdered(ss, KeyOrder)
  <2>1. ASSUME NEW m \in 1..n, NEW i \in 1..c, NEW j \in 1..c, i < j
        PROVE  <<ss[m][i], ss[m][j]>> \in KeyOrder
    <3>1. ss[m][i] = ExpectedKey(p, m, i) /\ ss[m][j] = ExpectedKey(p, m, j)
      BY <1>4
    <3>2. Arrivals(p)[m].src \in Nat /\ Place(Arrivals(p)[m].obj, i) \in Nat /\ Place(Arrivals(p)[m].obj, j) \in Nat
      BY <1>5
    <3>3. Place(Arrivals(p)[m].obj, i) < Place(Arrivals(p)[m].obj, j)
      <4>1. PICK x : x = (Arrivals(p)[m].obj - 1) * Parts
        OBVIOUS
      <4>2. Arrivals(p)[m].obj - 1 \in Nat /\ Parts \in Nat
        BY <1>1, ArrivalOfRank, PartsType
      <4>3. x \in Nat
        BY <4>1, <4>2, Times
      <4> QED
        BY <2>1, <4>1, <4>3 DEF Place
    <3> QED
      BY <3>1, <3>2, <3>3, KeyOrderOf DEF ExpectedKey
  <2>2. ASSUME NEW m \in 1..n, NEW l \in 1..n, m < l, NEW i \in 1..c, NEW j \in 1..c
        PROVE  <<ss[m][i], ss[l][j]>> \in KeyOrder
    <3>1. ss[m][i] = ExpectedKey(p, m, i) /\ ss[l][j] = ExpectedKey(p, l, j)
      BY <1>4
    <3>2. /\ Arrivals(p)[m].src \in Nat /\ Place(Arrivals(p)[m].obj, i) \in Nat
          /\ Arrivals(p)[l].src \in Nat /\ Place(Arrivals(p)[l].obj, j) \in Nat
      BY <1>5
    <3>3. /\ Arrivals(p)[m] \in Arrs /\ Arrivals(p)[l] \in Arrs
          /\ Arrivals(p)[m].obj \in Nat \ {0} /\ Arrivals(p)[l].obj \in Nat \ {0}
      BY <1>1, ArrivalOfRank
    <3>4. <<Arrivals(p)[m], Arrivals(p)[l]>> \in ArrOrder
      BY <2>2, <1>1, ArrivalsOrder DEF ArrivalsOf, Ordered
    <3>5. Arrivals(p)[m].src < Arrivals(p)[l].src
          \/ (Arrivals(p)[m].src = Arrivals(p)[l].src /\ Arrivals(p)[m].obj < Arrivals(p)[l].obj)
      BY <3>3, <3>4, ArrOrderOf
    <3>6. Arrivals(p)[m].obj < Arrivals(p)[l].obj =>
              Place(Arrivals(p)[m].obj, i) < Place(Arrivals(p)[l].obj, j)
      BY <1>2, <3>3, PlaceGrows
    <3> QED
      BY <3>1, <3>2, <3>5, <3>6, KeyOrderOf DEF ExpectedKey
  <2> QED
    BY <1>6, <1>8, <2>1, <2>2 DEF PartsOrdered, Ordered
<1>11. PICK t : t = FlattenSeq(ss)
  OBVIOUS
<1>12. t \in Seq(Keys) /\ Uniform(t, ss, c)
  BY <1>3, <1>8, <1>9, <1>11, FlatUniform
<1>13. Flat(t, ss, KeyOrder)
  BY <1>8, <1>10, <1>11, FlatOrder
<1>14. PICK k : k = n * c
  OBVIOUS
<1>15. Len(t) = k /\ Ordered(t, k, KeyOrder)
  BY <1>8, <1>12, <1>13, <1>14 DEF Uniform, Flat
<1>16. t \in [1..k -> Keys]
  BY <1>12, <1>15, LenProperties
<1>17. KeysAt(p, t, k)
  <2>1. \A m \in 1..n, j \in 1..c : Place(m, j) \in 1..k /\ t[Place(m, j)] = ss[m][j]
    BY <1>2, <1>8, <1>12, <1>14 DEF Uniform, Place
  <2>2. \A l \in 1..k : \E m \in 1..n, j \in 1..c : l = Place(m, j)
    BY <1>2, <1>8, <1>12, <1>14 DEF Uniform, Place
  <2>3. \A m \in 1..n, j \in 1..c : ss[m][j] = ExpectedKey(p, m, j)
    BY <1>4
  <2> QED
    <3>1. ASSUME NEW m \in 1..n, NEW j \in 1..c
          PROVE  Place(m, j) \in 1..k /\ t[Place(m, j)] = ExpectedKey(p, m, j)
      BY <2>1, <2>3
    <3> HIDE DEF KeysAt
    <3>2. \A m \in 1..Len(Arrivals(p)), j \in 1..Parts : Place(m, j) \in 1..k /\ t[Place(m, j)] = ExpectedKey(p, m, j)
      BY <1>1, <1>2, <3>1
    <3>3. \A l \in 1..k : \E m \in 1..Len(Arrivals(p)), j \in 1..Parts : l = Place(m, j)
      BY <1>1, <1>2, <2>2
    <3> QED
      BY <3>2, <3>3 DEF KeysAt
<1> QED
  BY <1>1, <1>2, <1>14, <1>15, <1>16, <1>17

\* Where messages are received.
Landing == IF call.direct /\ call.aware THEN "device" ELSE "host"

\* buf are the messages to p, each once, in the order of their keys.
Collected(p, buf) ==
    /\ buf \in Seq(Messages)
    /\ \A l \in 1..Len(buf) : buf[l].at = Landing /\ Stripped(buf[l]) \in Outgoing(buf[l].src)
    /\ \A i, k \in 1..Len(buf) : i < k => <<KeyOf(buf[i]), KeyOf(buf[k])>> \in KeyOrder
    /\ \A l \in 1..Len(buf) : \E m \in 1..Len(Arrivals(p)), j \in 1..Parts : KeyOf(buf[l]) = ExpectedKey(p, m, j)
    /\ \A m \in 1..Len(Arrivals(p)), j \in 1..Parts : \E l \in 1..Len(buf) : KeyOf(buf[l]) = ExpectedKey(p, m, j)

Laid(p, buf) ==
    /\ buf \in Seq(Messages) /\ Len(buf) = Len(Arrivals(p)) * Parts
    /\ \A m \in 1..Len(Arrivals(p)), j \in 1..Parts :
          /\ Place(m, j) \in 1..Len(buf) /\ buf[Place(m, j)].at = Landing
          /\ Stripped(buf[Place(m, j)]) = MessageOf(Arrivals(p)[m].src, Arrivals(p)[m].obj, j)

LEMMA CollectedLaid ==
    ASSUME call \in Calls, Known => call.layout # "inte", NEW p \in Proc, NEW buf, Collected(p, buf)
    PROVE  Laid(p, buf)
<1>1. PICK n : n = Len(Arrivals(p)) * Parts
  OBVIOUS
<1>2. PICK t \in [1..n -> Keys] : Ordered(t, n, KeyOrder) /\ KeysAt(p, t, n)
  BY <1>1, ExpectedKeys
<1>3. n \in Nat
  BY <1>1, ArrivalsType, PartsType, Times
<1>4. PICK b : b = Len(buf)
  OBVIOUS
<1>5. b \in Nat /\ \A l \in 1..b : buf[l] \in Messages
  BY <1>4, LenProperties, ElementOfSeq DEF Collected
<1>6. PICK s : s = [l \in 1..b |-> KeyOf(buf[l])]
  OBVIOUS
<1>7. \A l \in 1..b : KeyOf(buf[l]) \in Keys
  <2>1. \A l \in 1..b : buf[l].src \in Nat /\ buf[l].tag \in Nat
    BY <1>5, PackingAssumption DEF Messages
  <2> QED
    BY <2>1, KeyOrderOf DEF KeyOf
<1>8. s \in [1..b -> Keys]
  BY <1>6, <1>7
<1>9. Ordered(s, b, KeyOrder)
  BY <1>4, <1>6 DEF Collected, Ordered
<1>10. Among(s, b, t, n)
  <2>1. ASSUME NEW l \in 1..b
        PROVE  \E k \in 1..n : s[l] = t[k]
    <3>1. PICK m \in 1..Len(Arrivals(p)), j \in 1..Parts : KeyOf(buf[l]) = ExpectedKey(p, m, j)
      BY <1>4 DEF Collected
    <3>2. Place(m, j) \in 1..n /\ t[Place(m, j)] = ExpectedKey(p, m, j)
      BY <1>2 DEF KeysAt
    <3> QED
      BY <3>1, <3>2, <1>6
  <2> QED
    BY <2>1 DEF Among
<1>11. Among(t, n, s, b)
  <2>1. ASSUME NEW k \in 1..n
        PROVE  \E l \in 1..b : t[k] = s[l]
    <3>1. PICK m \in 1..Len(Arrivals(p)), j \in 1..Parts : k = Place(m, j)
      BY <1>2 DEF KeysAt
    <3>2. t[k] = ExpectedKey(p, m, j)
      BY <3>1, <1>2 DEF KeysAt
    <3>3. \E l \in 1..b : KeyOf(buf[l]) = ExpectedKey(p, m, j)
      BY <1>4 DEF Collected
    <3> QED
      BY <3>2, <3>3, <1>6
  <2> QED
    BY <2>1 DEF Among
<1>12. b = n /\ \A l \in 1..b : s[l] = t[l]
  BY <1>2, <1>3, <1>5, <1>8, <1>9, <1>10, <1>11, KeyOrderStrict, OneOrder
<1>13. ASSUME NEW m \in 1..Len(Arrivals(p)), NEW j \in 1..Parts
       PROVE  /\ Place(m, j) \in 1..b /\ buf[Place(m, j)].at = Landing
              /\ Stripped(buf[Place(m, j)]) = MessageOf(Arrivals(p)[m].src, Arrivals(p)[m].obj, j)
  <2>1. Place(m, j) \in 1..b /\ KeyOf(buf[Place(m, j)]) = ExpectedKey(p, m, j)
    BY <1>2, <1>6, <1>12 DEF KeysAt
  <2>2. PICK x : x = buf[Place(m, j)]
    OBVIOUS
  <2>3. x \in Messages /\ x.at = Landing /\ Stripped(x) \in Outgoing(x.src)
    BY <1>4, <1>5, <2>1, <2>2 DEF Collected
  <2>4. x.src = Arrivals(p)[m].src /\ x.tag = Place(Arrivals(p)[m].obj, j)
    BY <2>1, <2>2 DEF KeyOf, ExpectedKey
  <2>5. x.src \in Proc /\ Stripped(x).tag = x.tag
    <3>1. x \in Messages => Stripped(x).tag = x.tag
      BY StrippedType
    <3>2. x.src \in Proc
      BY <2>3 DEF Messages
    <3> QED
      BY <2>3, <3>1, <3>2
  <2>6. PICK i \in 1..Len(Objects(x.src)), k \in 1..Parts : Stripped(x) = MessageOf(x.src, i, k)
    BY <2>3, <2>5, OutgoingOf
  <2>7. Place(i, k) = Place(Arrivals(p)[m].obj, j)
    BY <2>4, <2>5, <2>6 DEF MessageOf
  <2>8. i \in Nat \ {0} /\ Arrivals(p)[m].obj \in Nat \ {0}
    <3>1. Len(Objects(x.src)) \in Nat
      BY <2>5, ObjectsType
    <3> QED
      BY <3>1, ArrivalOfRank
  <2>9. i = Arrivals(p)[m].obj /\ k = j
    <3>1. PICK o : o = Arrivals(p)[m].obj
      OBVIOUS
    <3>2. o \in Nat \ {0} /\ Place(i, k) = Place(o, j)
      BY <2>7, <2>8, <3>1
    <3>3. i = o /\ k = j
      BY <2>8, <3>2, PlaceGrows
    <3> QED
      BY <3>1, <3>3
  <2> QED
    BY <2>1, <2>2, <2>3, <2>4, <2>6, <2>9
<1>14. buf \in Seq(Messages)
  BY DEF Collected
<1> QED
  BY <1>1, <1>4, <1>12, <1>13, <1>14 DEF Laid

----------------------------------------------------------------------------
(* Unpacking gives the elements of the object that arrived.                *)

LEMMA DivTimes ==
    ASSUME NEW n \in Nat, NEW r \in Nat \ {0}
    PROVE  (n * r) \div r = n
<1>1. n * r \in Nat
  BY Times
<1>2. PICK x : x = n * r
  OBVIOUS
<1>3. PICK q : q = x \div r
  OBVIOUS
<1>4. q \in Nat /\ q * r <= x /\ x < q * r + r
  BY <1>1, <1>2, <1>3
<1>5. ~(n < q)
  BY <1>2, <1>4, TimesGrow, Times
<1>6. ~(q < n)
  BY <1>2, <1>4, TimesGrow, Times
<1> QED
  BY <1>2, <1>3, <1>4, <1>5, <1>6

LEMMA StrideParts ==
    ASSUME call \in Calls, Fitting(call)
    PROVE  Stride = Parts
BY CallType DEF Fitting, Stride, Parts

\* Buffer b, number j of arrival a.
IsPart(b, a, j) ==
    /\ b \in Messages /\ b.at = Landing /\ b.src = a.src /\ b.bytes = packingRequest(Objects(a.src)[a.obj])[j]
    /\ b.of.src = a.src /\ b.of.obj = a.obj /\ b.of.n = a.n /\ b.of.current
    /\ b.of.prp = IF call.layout = "inte" THEN {j} ELSE Props

LEMMA LaidPart ==
    ASSUME call \in Calls, Fitting(call), NEW p \in Proc, NEW buf, Laid(p, buf),
           NEW m \in 1..Len(Arrivals(p)), NEW j \in 1..Parts
    PROVE  Place(m, j) \in 1..Len(buf) /\ IsPart(buf[Place(m, j)], Arrivals(p)[m], j)
<1>1. PICK b : b = buf[Place(m, j)]
  OBVIOUS
<1>2. PICK a : a = Arrivals(p)[m]
  OBVIOUS
<1>3. /\ buf \in Seq(Messages) /\ Place(m, j) \in 1..Len(buf) /\ b.at = Landing
      /\ Stripped(b) = MessageOf(a.src, a.obj, j)
  BY <1>1, <1>2 DEF Laid
<1>4. b \in Messages
  BY <1>1, <1>3, ElementOfSeq
<1>5. /\ a.src \in Proc /\ a.obj \in 1..Len(Objects(a.src)) /\ Sized(Objects(a.src)[a.obj])
      /\ Objects(a.src)[a.obj].n = a.n
  BY <1>2, ArrivalOfRank
<1>6. Stripped(b).src = b.src /\ Stripped(b).of = b.of /\ Stripped(b).bytes = b.bytes
  BY <1>4, StrippedType
<1>7. b.src = a.src /\ b.of = packing(a.src, a.obj)[j] /\ b.bytes = packingRequest(Objects(a.src)[a.obj])[j]
  BY <1>3, <1>6 DEF MessageOf
<1>8. PICK q : q = a.src
  OBVIOUS
<1>9. PICK i : i = a.obj
  OBVIOUS
<1>10. q \in Proc /\ i \in 1..Len(Objects(q))
  BY <1>5, <1>8, <1>9
<1>11. Holds(q, i, j)
  BY <1>10, PackingType
<1>12. Beginning(q, EndOf(q, i)) = i
  BY <1>5, <1>8, <1>9, <1>10, WhatBegins
<1>13. call.layout = "inte" \/ ~call.direct
  BY DEF Fitting
<1>14. PICK o : o = packing(q, i)[j]
  OBVIOUS
<1>15. PICK prp : prp = IF call.layout = "inte" THEN {j} ELSE Props
  OBVIOUS
<1>16. IsBuffer(o, q, i, prp, TRUE)
  BY <1>11, <1>12, <1>13, <1>14, <1>15 DEF Holds
<1>17. b.of = o
  BY <1>7, <1>8, <1>9, <1>14
<1>18. b.of.src = q /\ b.of.obj = i /\ b.of.n = Objects(q)[i].n /\ b.of.prp = prp /\ b.of.current = TRUE
  BY <1>16, <1>17 DEF IsBuffer
<1>19. IsPart(b, a, j)
  BY <1>3, <1>4, <1>5, <1>7, <1>8, <1>9, <1>15, <1>18 DEF IsPart
<1> QED
  BY <1>1, <1>2, <1>3, <1>19

CellOf(a, k, j) == {[src |-> a.src, obj |-> a.obj, k |-> k, prp |-> j]}
ObjectRows(a) == [k \in 1..a.n |-> [j \in Props |-> CellOf(a, k, j)]]

LEMMA CellOfPart ==
    ASSUME NEW b, NEW a, NEW l, IsPart(b, a, l), NEW k \in 1..a.n, a.n \in Nat, NEW j
    PROVE  Cell(b, IF call.layout = "inte" THEN {l} ELSE Props, Landing, k, j) = CellOf(a, k, j)
<1>1. k <= b.of.n
  BY DEF IsPart
<1> QED
  BY <1>1 DEF Cell, IsPart, CellOf

LEMMA Unpacking ==
    ASSUME call \in Calls, Fitting(call), NEW p \in Proc, NEW buf, Laid(p, buf),
           NEW m \in 1..Len(Arrivals(p)), NEW i, i = (m - 1) * Parts
    PROVE  /\ v2(buf, i) = ObjectRows(Arrivals(p)[m])
           /\ i + 1 \in 1..Len(buf) /\ IsPart(buf[i + 1], Arrivals(p)[m], 1)
<1>1. PICK a : a = Arrivals(p)[m]
  OBVIOUS
<1>2. /\ a.n \in Nat /\ a.src \in Proc /\ a.obj \in 1..Len(Objects(a.src)) /\ Objects(a.src)[a.obj].n = a.n
  BY <1>1, ArrivalOfRank
<1>3. \A j \in 1..Parts : i + j \in 1..Len(buf) /\ IsPart(buf[i + j], a, j)
  BY <1>1, LaidPart DEF Place
<1>4. PICK o : o = Objects(a.src)[a.obj]
  OBVIOUS
<1>5. o.n = a.n
  BY <1>2, <1>4
<1>6. Parts \in Nat \ {0} /\ Len(PropSize) \in Nat \ {0} /\ Props = 1..Len(PropSize) /\ RowSize \in Nat \ {0}
      /\ \A j \in Props : PropSize[j] \in Nat \ {0}
  BY PartsType, PropsType
<1>7. i + 1 \in 1..Len(buf) /\ IsPart(buf[i + 1], a, 1)
  BY <1>3, <1>6
<1>8. DOMAIN buf = 1..Len(buf)
  BY LenProperties DEF Laid
<1>9. CASE call.layout = "packed"
  <2>1. Landing = "host"
    BY <1>9 DEF Landing, Fitting
  <2>2. \A k \in 1..a.n, j \in Props : Cell(buf[i + 1], Props, "host", k, j) = CellOf(a, k, j)
    BY <1>2, <1>7, <1>9, <2>1, CellOfPart
  <2>3. buf[i + 1].of.n = a.n
    BY <1>7 DEF IsPart
  <2>4. Unpacked(buf, i) = ObjectRows(a)
    BY <2>2, <2>3 DEF Unpacked, ObjectRows
  <2> QED
    BY <1>1, <1>7, <1>9, <2>4 DEF v2
<1>10. CASE call.layout = "lin"
  <2>1. Landing = "host" /\ call.base = "lin"
    BY <1>10 DEF Landing, Fitting
  <2>2. \A k \in 1..a.n, j \in Props : Cell(buf[i + 1], Props, "host", k, j) = CellOf(a, k, j)
    BY <1>2, <1>7, <1>10, <2>1, CellOfPart
  <2>3. packingRequest(o) = <<o.n * RowSize>>
    BY <1>10 DEF packingRequest
  <2>4. buf[i + 1].bytes = a.n * RowSize
    BY <1>4, <1>5, <1>7, <2>3 DEF IsPart
  <2>5. buf[i + 1].bytes \div RowSize = a.n
    BY <2>4, <1>2, <1>6, DivTimes
  <2>6. Unpacked_lin(buf, i) = ObjectRows(a)
    BY <2>2, <2>5 DEF Unpacked_lin, ObjectRows
  <2> QED
    BY <1>1, <1>7, <1>10, <2>1, <2>6 DEF v2
<1>11. CASE call.layout = "inte"
  <2>1. Parts = Len(PropSize) /\ call.base = "inte"
    BY <1>11 DEF Parts, Fitting
  <2>2. \A j \in Props : i + j \in DOMAIN buf /\ IsPart(buf[i + j], a, j)
    BY <1>3, <1>6, <1>8, <2>1
  <2>3. \A k \in 1..a.n, j \in Props : Cell(buf[i + j], {j}, Landing, k, j) = CellOf(a, k, j)
    BY <1>2, <1>11, <2>2, CellOfPart
  <2>4. packingRequest(o) = [j \in Props |-> o.n * PropSize[j]]
    BY <1>11 DEF packingRequest
  <2>5. PICK s : s = Len(PropSize)
    OBVIOUS
  <2>6. s \in Props /\ PropSize[s] \in Nat \ {0}
    BY <1>6, <2>5
  <2>7. buf[i + s].bytes = a.n * PropSize[s]
    <3>1. IsPart(buf[i + s], a, s)
      BY <2>2, <2>6
    <3>2. buf[i + s].bytes = packingRequest(o)[s]
      BY <3>1, <1>4 DEF IsPart
    <3>3. packingRequest(o)[s] = o.n * PropSize[s]
      BY <2>4, <2>6
    <3> QED
      BY <1>5, <3>2, <3>3
  <2>8. buf[i + s].bytes \div PropSize[s] = a.n
    BY <2>7, <1>2, <2>6, DivTimes
  <2>9. Unpacked_inte(buf, i) = ObjectRows(a)
    <3>1. Unpacked_inte(buf, i) = [k \in 1..(buf[i + s].bytes \div PropSize[s]) |->
                                      [j \in Props |-> Cell(buf[i + j], {j}, Landing, k, j)]]
      BY <2>2, <2>5, <2>6 DEF Unpacked_inte, Landing
    <3> QED
      BY <3>1, <2>3, <2>8 DEF ObjectRows
  <2> QED
    BY <1>1, <1>7, <1>11, <2>1, <2>9 DEF v2
<1> QED
  BY <1>9, <1>10, <1>11, CallType

----------------------------------------------------------------------------
(* What the operations leave: row 1, which is not touched, then the first  *)
(* a of the rows E, then rows that are to come.                            *)

BlankRow == [j \in Props |-> {}]
FilledIn(s, E, a, n) ==
    /\ s \in Rows /\ Len(s) = n + 1
    /\ \A x \in 1..(n + 1) : s[x] = IF x > 1 /\ x - 1 <= a THEN E[x - 1] ELSE BlankRow

\* The rows are the next of E, as far as their properties are merged.
Continues(E, a, rows) == \A l \in 1..Len(rows) : E[a + l] = Picked(rows)[l]

LEMMA PickedRow ==
    ASSUME NEW rows \in Rows, NEW l \in 1..Len(rows)
    PROVE  Picked(rows)[l] = [j \in Props |-> IF Merged(j) THEN rows[l][j] ELSE {}]
BY RowsType DEF Picked

LEMMA JoinFilled ==
    ASSUME NEW E, NEW a \in Nat, NEW s, FilledIn(s, E, a, a), NEW t \in Rows,
           \A l \in 1..Len(t) : E[a + l] = t[l]
    PROVE  FilledIn(s \o t, E, a + Len(t), a + Len(t))
<1>1. PICK k : k = Len(t)
  OBVIOUS
<1>2. k \in Nat /\ s \in Rows /\ Len(s) = a + 1
  BY <1>1, RowsType DEF FilledIn
<1>3. s \o t \in Rows /\ Len(s \o t) = a + 1 + k
  BY <1>1, <1>2, JoinedType
<1>4. ASSUME NEW x \in 1..(a + k + 1)
      PROVE  (s \o t)[x] = IF x > 1 /\ x - 1 <= a + k THEN E[x - 1] ELSE BlankRow
  <2>1. (s \o t)[x] = IF x <= a + 1 THEN s[x] ELSE t[x - (a + 1)]
    BY <1>1, <1>2, <1>4, ConcatProperties DEF Rows
  <2>2. CASE x <= a + 1
    <3>1. x \in 1..(a + 1) /\ x - 1 <= a
      BY <1>2, <2>2
    <3> QED
      BY <1>2, <2>1, <2>2, <3>1 DEF FilledIn
  <2>3. CASE x > a + 1
    <3>1. PICK l \in 1..k : x = a + 1 + l
      <4>1. x - (a + 1) \in 1..k /\ x = a + 1 + (x - (a + 1))
        BY <1>2, <2>3
      <4> QED
        BY <4>1
    <3>2. x - (a + 1) = l /\ x - 1 = a + l /\ x > 1 /\ x - 1 <= a + k /\ ~(x <= a + 1)
      BY <1>2, <3>1
    <3>3. E[a + l] = t[l]
      BY <1>1
    <3> QED
      BY <2>1, <3>2, <3>3
  <2> QED
    <3>1. x <= a + 1 \/ x > a + 1
      OBVIOUS
    <3> QED
      BY <2>2, <2>3, <3>1
<1>5. Len(s \o t) = (a + k) + 1
  BY <1>2, <1>3
<1> QED
  BY <1>1, <1>3, <1>4, <1>5 DEF FilledIn

\* Rows that are to come are added.
LEMMA EmptyFilled ==
    ASSUME NEW E, NEW a \in Nat, NEW k \in Nat, NEW s, FilledIn(s, E, a, a)
    PROVE  FilledIn(s \o Empty(k), E, a, a + k)
<1>1. PICK t : t = Empty(k)
  OBVIOUS
<1>2. s \in Rows /\ Len(s) = a + 1 /\ t \in Rows /\ Len(t) = k /\ \A l \in 1..k : t[l] = BlankRow
  BY <1>1, EmptyRows DEF FilledIn, Empty, BlankRow
<1>3. s \o t \in Rows /\ Len(s \o t) = a + 1 + k
  BY <1>1, <1>2, JoinedType
<1>4. ASSUME NEW x \in 1..(a + k + 1)
      PROVE  (s \o t)[x] = IF x > 1 /\ x - 1 <= a THEN E[x - 1] ELSE BlankRow
  <2>1. (s \o t)[x] = IF x <= a + 1 THEN s[x] ELSE t[x - (a + 1)]
    BY <1>1, <1>2, <1>4, ConcatProperties DEF Rows
  <2>2. CASE x <= a + 1
    <3>1. x \in 1..(a + 1) /\ x - 1 <= a
      BY <1>2, <2>2
    <3> QED
      BY <1>2, <2>1, <2>2, <3>1 DEF FilledIn
  <2>3. CASE x > a + 1
    <3>1. x - (a + 1) \in 1..k /\ ~(x - 1 <= a) /\ ~(x <= a + 1)
      BY <1>2, <2>3
    <3> QED
      BY <1>2, <2>1, <3>1
  <2> QED
    <3>1. x <= a + 1 \/ x > a + 1
      OBVIOUS
    <3> QED
      BY <2>2, <2>3, <3>1
<1>5. Len(s \o t) = (a + k) + 1
  BY <1>2, <1>3
<1> QED
  BY <1>1, <1>3, <1>4, <1>5 DEF FilledIn

\* The device has what the host has.
CopiedIn(new, r, E, b, n) == new \in Recvs /\ new.host = r.host /\ FilledIn(new.device, E, b, n)

\* hostToDevice of the rows after the first a.
LEMMA CopyFilled ==
    ASSUME NEW E, NEW a \in Nat, NEW n \in Nat, NEW k \in Nat, a + k <= n, NEW rows \in Rows, Len(rows) = k,
           Continues(E, a, rows), NEW r \in Recvs, FilledIn(r.host, E, a + k, n), FilledIn(r.device, E, a, n)
    PROVE  CopiedIn(hostToDevice(r, a + 1, a + k), r, E, a + k, n)
<1> DEFINE dev == [x \in DOMAIN r.device |-> [j \in Props |->
                      IF x - 1 \in (a + 1)..(a + k) /\ Merged(j) THEN r.host[x][j] ELSE r.device[x][j]]]
<1>1. PICK new : new = hostToDevice(r, a + 1, a + k)
  OBVIOUS
<1>2. new \in Recvs /\ Len(new.host) = Len(r.host) + 0
  BY <1>1, CopyType DEF Grown
<1>3. r \in [host : Rows, device : Rows]
  BY DEF Recvs
<1>4. new = [r EXCEPT !.device = dev]
  BY <1>1, <1>3 DEF hostToDevice
<1>5. new.host = r.host /\ new.device = dev
  <2> HIDE DEF dev
  <2> QED
    BY <1>3, <1>4
<1>6. DOMAIN r.device = 1..(n + 1)
  BY RowsType DEF FilledIn
<1>7. ASSUME NEW x \in 1..(n + 1)
      PROVE  dev[x] = IF x > 1 /\ x - 1 <= a + k THEN E[x - 1] ELSE BlankRow
  <2>1. dev[x] = [j \in Props |-> IF x - 1 \in (a + 1)..(a + k) /\ Merged(j) THEN r.host[x][j] ELSE r.device[x][j]]
    BY <1>6, <1>7
  <2> HIDE DEF dev
  <2>2. /\ r.host[x] = IF x > 1 /\ x - 1 <= a + k THEN E[x - 1] ELSE BlankRow
        /\ r.device[x] = IF x > 1 /\ x - 1 <= a THEN E[x - 1] ELSE BlankRow
    BY <1>7 DEF FilledIn
  <2>3. r.host[x] \in [Props -> SUBSET Cells] /\ r.device[x] \in [Props -> SUBSET Cells]
    BY <1>3, <1>6, <1>7, RowsType DEF FilledIn
  <2>4. CASE x - 1 \in (a + 1)..(a + k)
    <3>1. PICK l \in 1..k : x - 1 = a + l
      <4>1. x - 1 - a \in 1..k /\ x - 1 = a + (x - 1 - a)
        BY <2>4
      <4> QED
        BY <4>1
    <3>2. x > 1 /\ x - 1 <= a + k /\ ~(x - 1 <= a)
      BY <2>4
    <3>3. E[x - 1] = [j \in Props |-> IF Merged(j) THEN rows[l][j] ELSE {}]
      BY <3>1, PickedRow DEF Continues
    <3>4. \A j \in Props : ~Merged(j) => E[x - 1][j] = {}
      BY <3>3
    <3>5. \A j \in Props : r.device[x][j] = {}
      BY <2>2, <3>2 DEF BlankRow
    <3>6. r.host[x] = E[x - 1] /\ E[x - 1] \in [Props -> SUBSET Cells]
      BY <2>2, <2>3, <3>2
    <3>7. dev[x] = E[x - 1]
      <4>1. dev[x] = [j \in Props |-> IF Merged(j) THEN E[x - 1][j] ELSE {}]
        BY <2>1, <2>4, <3>5, <3>6
      <4> QED
        BY <4>1, <3>4, <3>6
    <3> QED
      BY <3>2, <3>7
  <2>5. CASE x - 1 \notin (a + 1)..(a + k)
    <3>1. dev[x] = r.device[x]
      BY <2>1, <2>3, <2>5
    <3>2. (x > 1 /\ x - 1 <= a) <=> (x > 1 /\ x - 1 <= a + k)
      BY <2>5, <1>7
    <3> QED
      BY <2>2, <3>1, <3>2
  <2> QED
    BY <2>4, <2>5
<1>8. dev \in Rows /\ Len(dev) = n + 1
  BY <1>2, <1>5 DEF Recvs, FilledIn
<1> HIDE DEF dev
<1> QED
  BY <1>1, <1>2, <1>5, <1>7, <1>8 DEF CopiedIn, FilledIn

\* Every value is something: nothing is merged away.
NoneEmpty(rows) == \A l \in 1..Len(rows) : \A j \in Props : rows[l][j] # {}

\* A list of the rows after the first a, as merging wants it.
Into(into, a, k) == DOMAIN into = 1..k /\ \A l \in 1..k : into[l] = a + 1 + l

\* A merge into the rows after the first a.
MergedIn(new, r, at, E, b, n) ==
    /\ new \in Recvs /\ FilledIn(new[at], E, b, n)
    /\ \A o \in {"host", "device"} : o # at => new[o] = r[o]

LEMMA MergeFilled ==
    ASSUME NEW E, NEW a \in Nat, NEW n \in Nat, NEW rows \in Rows, NEW k \in Nat, k = Len(rows), a + k <= n,
           Continues(E, a, rows), NoneEmpty(rows), NEW r \in Recvs, NEW at \in {"host", "device"},
           FilledIn(r[at], E, a, n), NEW replace \in BOOLEAN, NEW into, Into(into, a, k)
    PROVE  MergedIn(merge_prp(r, at, rows, into, replace), r, at, E, a + k, n)
<1> USE DEF Into
<1>1. PICK old : old = r[at]
  OBVIOUS
<1> DEFINE add(x, j) == UNION {rows[l][j] : l \in {l \in DOMAIN rows \cap DOMAIN into : into[l] = x}}
           row(x, j) == IF ~Merged(j) \/ add(x, j) = {} THEN old[x][j]
                        ELSE IF replace THEN add(x, j) ELSE old[x][j] \cup add(x, j)
           all == [x \in DOMAIN old |-> [j \in Props |-> row(x, j)]]
<1>2. PICK new : new = merge_prp(r, at, rows, into, replace)
  OBVIOUS
<1>3. new \in Recvs /\ Len(new.host) = Len(r.host) + 0
  BY <1>2, MergeType DEF Grown
<1>4. r \in [host : Rows, device : Rows]
  BY DEF Recvs
<1>5. new = [r EXCEPT ![at] = all]
  BY <1>1, <1>2, <1>4 DEF merge_prp
<1>6. new[at] = all /\ \A o \in {"host", "device"} : o # at => new[o] = r[o]
  <2> HIDE DEF all
  <2> QED
    BY <1>4, <1>5
<1>7. old \in Rows /\ DOMAIN old = 1..(n + 1) /\ Len(old) = n + 1
  BY <1>1, RowsType DEF FilledIn
<1>8. DOMAIN rows \cap DOMAIN into = 1..k
  BY RowsType
<1>9. ASSUME NEW l \in 1..k, NEW j \in Props
      PROVE  add(a + 1 + l, j) = rows[l][j]
  <2>1. {i \in DOMAIN rows \cap DOMAIN into : into[i] = a + 1 + l} = {l}
    BY <1>8
  <2>2. {rows[i][j] : i \in {l}} = {rows[l][j]}
    OBVIOUS
  <2>3. UNION {rows[l][j]} = rows[l][j]
    OBVIOUS
  <2> QED
    BY <2>1, <2>2, <2>3
<1>10. ASSUME NEW x, \A l \in 1..k : x # a + 1 + l, NEW j \in Props
       PROVE  add(x, j) = {}
  <2>1. {i \in DOMAIN rows \cap DOMAIN into : into[i] = x} = {}
    BY <1>8, <1>10
  <2> QED
    BY <2>1
<1> HIDE DEF add
<1>11. ASSUME NEW x \in 1..(n + 1)
       PROVE  all[x] = IF x > 1 /\ x - 1 <= a + k THEN E[x - 1] ELSE BlankRow
  <2>1. all[x] = [j \in Props |-> row(x, j)]
    BY <1>7
  <2>2. old[x] = IF x > 1 /\ x - 1 <= a THEN E[x - 1] ELSE BlankRow
    BY <1>1 DEF FilledIn
  <2>3. old[x] \in [Props -> SUBSET Cells]
    BY <1>7, RowsType
  <2>4. CASE \E l \in 1..k : x = a + 1 + l
    <3>1. PICK l \in 1..k : x = a + 1 + l
      BY <2>4
    <3>2. x > 1 /\ x - 1 <= a + k /\ ~(x - 1 <= a) /\ x - 1 = a + l
      BY <3>1
    <3>3. E[x - 1] = [j \in Props |-> IF Merged(j) THEN rows[l][j] ELSE {}]
      BY <3>2, PickedRow DEF Continues
    <3>4. \A j \in Props : old[x][j] = {}
      BY <2>2, <3>2 DEF BlankRow
    <3>5. \A j \in Props : add(x, j) = rows[l][j] /\ rows[l][j] # {}
      BY <1>9, <3>1 DEF NoneEmpty
    <3>6. \A j \in Props : row(x, j) = IF Merged(j) THEN rows[l][j] ELSE {}
      <4>1. ASSUME NEW j \in Props
            PROVE  row(x, j) = IF Merged(j) THEN rows[l][j] ELSE {}
        <5>1. {} \cup rows[l][j] = rows[l][j]
          OBVIOUS
        <5> QED
          BY <3>4, <3>5, <5>1
      <4> QED
        BY <4>1
    <3> HIDE DEF row
    <3>7. all[x] = E[x - 1]
      BY <2>1, <3>3, <3>6
    <3> QED
      BY <3>2, <3>7
  <2>5. CASE \A l \in 1..k : x # a + 1 + l
    <3>1. \A j \in Props : row(x, j) = old[x][j]
      BY <1>10, <2>5
    <3> HIDE DEF row
    <3>2. all[x] = old[x]
      BY <2>1, <2>3, <3>1
    <3>3. (x > 1 /\ x - 1 <= a) <=> (x > 1 /\ x - 1 <= a + k)
      <4>1. ASSUME x - 1 <= a + k, ~(x - 1 <= a)
            PROVE  FALSE
        <5>1. x - 1 - a \in 1..k /\ x = a + 1 + (x - 1 - a)
          BY <4>1, <1>11
        <5> QED
          BY <5>1, <2>5
      <4>2. x - 1 <= a => x - 1 <= a + k
        BY <1>11
      <4> QED
        BY <4>1, <4>2
    <3> QED
      BY <2>2, <3>2, <3>3
  <2> QED
    BY <2>4, <2>5
<1>12. all \in Rows /\ Len(all) = n + 1
  <2>1. new[at] \in Rows /\ Len(new[at]) = Len(r[at])
    <3>1. new \in [host : Rows, device : Rows] /\ Len(new.host) = Len(new.device) /\ Len(r.host) = Len(r.device)
          /\ Len(r.host) \in Nat
      BY <1>3, <1>4, RowsType DEF Recvs
    <3>2. Len(new.host) = Len(r.host) /\ Len(new.device) = Len(r.device)
      BY <3>1, <1>3
    <3>3. new.host \in Rows /\ new.device \in Rows
      BY <3>1
    <3> HIDE DEF all
    <3> QED
      BY <3>2, <3>3
  <2> HIDE DEF all
  <2> QED
    BY <2>1, <1>1, <1>6, <1>7
<1> HIDE DEF all
<1> QED
  BY <1>2, <1>3, <1>6, <1>11, <1>12 DEF FilledIn, MergedIn

----------------------------------------------------------------------------
(* What is expected of a call, and the rows of each arrival in it.         *)

LEMMA ObjectRowsType ==
    ASSUME call \in Calls, NEW p \in Proc, NEW m \in 1..Len(Arrivals(p))
    PROVE  /\ ObjectRows(Arrivals(p)[m]) \in Rows /\ Len(ObjectRows(Arrivals(p)[m])) = Arrivals(p)[m].n
           /\ NoneEmpty(ObjectRows(Arrivals(p)[m]))
<1>1. PICK a : a = Arrivals(p)[m]
  OBVIOUS
<1>2. a.src \in Nat /\ a.obj \in Nat /\ a.n \in Nat
  BY <1>1, ArrivalOfRank
<1>3. Props \subseteq Nat
  BY PropsType
<1>4. \A k \in 1..a.n, j \in Props : CellOf(a, k, j) \in SUBSET Cells /\ CellOf(a, k, j) # {}
  <2>1. ASSUME NEW k \in 1..a.n, NEW j \in Props
        PROVE  CellOf(a, k, j) \in SUBSET Cells /\ CellOf(a, k, j) # {}
    <3>1. PICK c : c = [src |-> a.src, obj |-> a.obj, k |-> k, prp |-> j]
      OBVIOUS
    <3>2. k \in Nat /\ j \in Nat
      BY <1>2, <1>3
    <3>3. c \in Cells
      BY <1>2, <3>1, <3>2 DEF Cells
    <3>4. CellOf(a, k, j) = {c}
      BY <3>1 DEF CellOf
    <3> QED
      BY <3>3, <3>4
  <2> QED
    BY <2>1
<1>5. PICK rows : rows = ObjectRows(a)
  OBVIOUS
<1>6. rows = [k \in 1..a.n |-> [j \in Props |-> CellOf(a, k, j)]]
  BY <1>5 DEF ObjectRows
<1>7. rows \in [1..a.n -> [Props -> SUBSET Cells]]
  BY <1>4, <1>6
<1>8. rows \in Rows /\ Len(rows) = a.n
  BY <1>2, <1>7, MakeRows
<1>9. NoneEmpty(rows)
  BY <1>4, <1>6, <1>8 DEF NoneEmpty
<1> QED
  BY <1>1, <1>5, <1>8, <1>9

\* E are the expected rows, those of arrival m after the first o[m - 1].
Expects(p, E, o) ==
    /\ o[0] = 0 /\ \A m \in 0..Len(Arrivals(p)) : o[m] \in Nat /\ o[m] <= o[Len(Arrivals(p))] /\ prc_off(p, m) = o[m]
    /\ \A m \in 1..Len(Arrivals(p)) : o[m] = o[m - 1] + Arrivals(p)[m].n
    /\ E \in Rows /\ Len(E) = o[Len(Arrivals(p))]
    /\ \A m \in 1..Len(Arrivals(p)) : Continues(E, o[m - 1], ObjectRows(Arrivals(p)[m]))

LEMMA ExpectedExists ==
    ASSUME call \in Calls, NEW p \in Proc
    PROVE  \E o : Expects(p, ExpectedRows(p), o)
<1>1. PICK n : n = Len(Arrivals(p))
  OBVIOUS
<1>2. n \in Nat /\ DOMAIN Arrivals(p) = 1..n /\ \A m \in 1..n : Arrivals(p)[m].n \in Nat
  BY <1>1, ArrivalsType
<1>3. PICK t : t = [m \in 1..n |-> Arrivals(p)[m].n]
  OBVIOUS
<1>4. t \in [1..n -> Nat]
  BY <1>2, <1>3
<1>5. PICK o : Summing(t, o) /\ t \in Seq(Nat) /\ Len(t) = n /\ \A m \in 0..n : Sum([k \in 1..m |-> t[k]]) = o[m]
  BY <1>2, <1>4, PartialSums
<1>6. ASSUME NEW m \in 0..n
      PROVE  prc_off(p, m) = o[m]
  <2>1. [k \in 1..m |-> t[k]] = [k \in 1..m |-> Arrivals(p)[k].n]
    <3>1. \A k \in 1..m : k \in 1..n
      BY <1>2
    <3> QED
      BY <3>1, <1>3
  <2> QED
    BY <2>1, <1>5 DEF prc_off
<1>7. /\ o[0] = 0 /\ \A m \in 0..n : o[m] \in Nat
      /\ \A m \in 1..n : o[m] = o[m - 1] + Arrivals(p)[m].n
  BY <1>3, <1>5 DEF Summing
<1>8. \A m \in 0..n : o[m] <= o[n]
  <2>1. ASSUME NEW m \in 0..n
        PROVE  o[m] <= o[n]
    <3>1. n \in m..Len(t) /\ m \in 0..Len(t)
      BY <1>2, <1>5
    <3> QED
      BY <3>1, <1>5, SummingGrow
  <2> QED
    BY <2>1
<1>9. PICK ss : ss = [m \in 1..n |-> Picked(ObjectRows(Arrivals(p)[m]))]
  OBVIOUS
<1>10. ASSUME NEW m \in 1..n
       PROVE  /\ ss[m] = Picked(ObjectRows(Arrivals(p)[m])) /\ ss[m] \in Rows /\ Len(ss[m]) = Arrivals(p)[m].n
              /\ Len(ObjectRows(Arrivals(p)[m])) = Arrivals(p)[m].n
  BY <1>1, <1>9, ObjectRowsType, PickedType
<1>11. PICK S : S = [Props -> SUBSET Cells]
  OBVIOUS
<1>12. Rows = Seq(S)
  BY <1>11 DEF Rows
<1>13. ss \in [1..n -> Seq(S)]
  BY <1>9, <1>10, <1>12
<1>14. ss \in Seq(Seq(S)) /\ Len(ss) = n
  BY <1>2, <1>13, FunSeq
<1>15. Offsets(ss, o)
  <2>1. o \in [0..n -> Nat]
    BY <1>5 DEF Summing
  <2> QED
    BY <2>1, <1>7, <1>10, <1>14 DEF Offsets
<1>16. PICK E : E = ExpectedRows(p)
  OBVIOUS
<1>17. E = FlattenSeq(ss)
  <2>1. \A m \in 1..n : ss[m] = [k \in 1..Arrivals(p)[m].n |-> [j \in Props |->
              IF Merged(j) THEN {[src |-> Arrivals(p)[m].src, obj |-> Arrivals(p)[m].obj, k |-> k, prp |-> j]} ELSE {}]]
    <3>1. ASSUME NEW m \in 1..n
          PROVE  ss[m] = [k \in 1..Arrivals(p)[m].n |-> [j \in Props |->
                    IF Merged(j) THEN {[src |-> Arrivals(p)[m].src, obj |-> Arrivals(p)[m].obj, k |-> k, prp |-> j]} ELSE {}]]
      <4>1. PICK a : a = Arrivals(p)[m]
        OBVIOUS
      <4>2. ss[m] = Picked(ObjectRows(a))
        BY <4>1, <1>9
      <4>3. Picked(ObjectRows(a)) = [k \in 1..a.n |-> [j \in Props |-> IF Merged(j) THEN CellOf(a, k, j) ELSE {}]]
        BY DEF Picked, ObjectRows
      <4> QED
        BY <4>1, <4>2, <4>3 DEF CellOf
    <3> QED
      BY <3>1
  <2> QED
    BY <2>1, <1>2, <1>9, <1>16 DEF ExpectedRows
<1>18. E \in Seq(S) /\ FlatTo(ss, o, E, n)
  BY <1>14, <1>15, <1>17, Flattened
<1>19. E \in Rows /\ Len(E) = o[n]
  BY <1>12, <1>18 DEF FlatTo
<1>20. ASSUME NEW m \in 1..n
       PROVE  Continues(E, o[m - 1], ObjectRows(Arrivals(p)[m]))
  <2>1. \A k \in 1..Len(ss[m]) : E[o[m - 1] + k] = ss[m][k]
    BY <1>18 DEF FlatTo
  <2> QED
    BY <2>1, <1>10 DEF Continues
<1> QED
  BY <1>1, <1>6, <1>7, <1>8, <1>16, <1>19, <1>20 DEF Expects

LEMMA OpartInto ==
    ASSUME call \in Calls, NEW p \in Proc, NEW E, NEW o, Expects(p, E, o), NEW m \in 1..Len(Arrivals(p))
    PROVE  /\ m \in DOMAIN opart(p) /\ Into(opart(p)[m], o[m - 1], Arrivals(p)[m].n)
           /\ Into(SubSeq(FlattenSeq(opart(p)), o[m - 1] + 1, o[m]), o[m - 1], Arrivals(p)[m].n)
<1>1. PICK n : n = Len(Arrivals(p))
  OBVIOUS
<1>2. n \in Nat /\ DOMAIN Arrivals(p) = 1..n /\ \A k \in 1..n : Arrivals(p)[k].n \in Nat
  BY <1>1, ArrivalsType
<1>3. PICK ss : ss = opart(p)
  OBVIOUS
<1>4. /\ o[0] = 0 /\ \A k \in 0..n : o[k] \in Nat /\ o[k] <= o[n] /\ prc_off(p, k) = o[k]
      /\ \A k \in 1..n : o[k] = o[k - 1] + Arrivals(p)[k].n
  BY <1>1 DEF Expects
<1>5. \A k \in 1..n : k - 1 \in 0..n /\ o[k - 1] \in Nat /\ prc_off(p, k - 1) = o[k - 1]
  BY <1>2, <1>4
<1>6. ss = [k \in 1..n |-> [l \in 1..Arrivals(p)[k].n |-> 1 + prc_off(p, k - 1) + l]]
  BY <1>2, <1>3 DEF opart
<1>7. ASSUME NEW k \in 1..n
      PROVE  ss[k] \in Seq(Nat) /\ Len(ss[k]) = Arrivals(p)[k].n /\ Into(ss[k], o[k - 1], Arrivals(p)[k].n)
  <2>1. PICK a : a = o[k - 1]
    OBVIOUS
  <2>2. a \in Nat /\ ss[k] = [l \in 1..Arrivals(p)[k].n |-> 1 + a + l]
    BY <1>5, <1>6, <2>1
  <2>3. ss[k] \in [1..Arrivals(p)[k].n -> Nat]
    BY <1>2, <2>2
  <2>4. Into(ss[k], a, Arrivals(p)[k].n)
    BY <1>2, <2>2 DEF Into
  <2> QED
    BY <1>2, <2>1, <2>3, <2>4, FunSeq
<1>8. ss \in [1..n -> Seq(Nat)]
  BY <1>6, <1>7
<1>9. ss \in Seq(Seq(Nat)) /\ Len(ss) = n
  BY <1>2, <1>8, FunSeq
<1>10. PICK w : w = [k \in 0..n |-> o[k]]
  OBVIOUS
<1>11. Offsets(ss, w)
  <2>1. w \in [0..n -> Nat] /\ w[0] = 0
    BY <1>2, <1>4, <1>10
  <2>2. \A k \in 1..n : w[k] = w[k - 1] + Len(ss[k])
    BY <1>4, <1>5, <1>7, <1>10
  <2> QED
    BY <2>1, <2>2, <1>9 DEF Offsets
<1>12. PICK f : f = FlattenSeq(ss)
  OBVIOUS
<1>13. f \in Seq(Nat) /\ FlatTo(ss, w, f, n)
  BY <1>9, <1>11, <1>12, Flattened
<1>14. Len(f) = o[n] /\ \A k \in 1..Arrivals(p)[m].n : f[o[m - 1] + k] = ss[m][k]
  <2>1. Len(f) = w[n] /\ \A k \in 1..Len(ss[m]) : f[w[m - 1] + k] = ss[m][k]
    BY <1>1, <1>13 DEF FlatTo
  <2>2. w[n] = o[n] /\ w[m - 1] = o[m - 1]
    BY <1>1, <1>2, <1>5, <1>10
  <2>3. Len(ss[m]) = Arrivals(p)[m].n
    BY <1>1, <1>7
  <2> QED
    BY <2>1, <2>2, <2>3
<1>15. PICK a \in Nat, k \in Nat : a = o[m - 1] /\ k = Arrivals(p)[m].n
  BY <1>1, <1>2, <1>5
<1>16. o[m] = a + k /\ a + k <= Len(f) /\ Len(f) \in Nat
  BY <1>1, <1>4, <1>5, <1>14, <1>15
<1>17. Into(ss[m], a, k)
  BY <1>1, <1>7, <1>15
<1>18. PICK g : g = SubSeq(f, a + 1, a + k)
  OBVIOUS
<1>19. /\ g \in Seq(Nat) /\ Len(g) = (a + k) - (a + 1) + 1
       /\ \A l \in 1..((a + k) - (a + 1) + 1) : g[l] = f[(a + 1) + l - 1]
  <2>1. \A i \in (a + 1)..(a + k) : f[i] \in Nat
    <3>1. \A i \in (a + 1)..(a + k) : i \in 1..Len(f)
      BY <1>16
    <3> QED
      BY <3>1, <1>13, ElementOfSeq
  <2>2. PICK x \in Int, y \in Int : x = a + 1 /\ y = a + k
    OBVIOUS
  <2>3. /\ SubSeq(f, x, y) \in Seq(Nat) /\ Len(SubSeq(f, x, y)) = IF x <= y THEN y - x + 1 ELSE 0
        /\ \A i \in 1..(y - x + 1) : SubSeq(f, x, y)[i] = f[x + i - 1]
    BY <2>1, <2>2, SubSeqProperties
  <2>4. (IF x <= y THEN y - x + 1 ELSE 0) = y - x + 1
    BY <2>2
  <2> QED
    BY <2>2, <2>3, <2>4, <1>18
<1>20. Len(g) = k /\ DOMAIN g = 1..k /\ \A l \in 1..k : g[l] = f[a + l]
  <2>1. (a + k) - (a + 1) + 1 = k /\ \A l \in 1..k : (a + 1) + l - 1 = a + l
    OBVIOUS
  <2> QED
    BY <2>1, <1>19, LenProperties
<1>21. Into(g, a, k)
  BY <1>14, <1>15, <1>17, <1>20 DEF Into
<1> QED
  BY <1>1, <1>3, <1>6, <1>12, <1>15, <1>16, <1>17, <1>18, <1>21

----------------------------------------------------------------------------
(* One operation, applied to one arrival.                                  *)

\* The memories where the values are kept.
Kept == IF call.direct THEN (IF call.aware THEN {"device"} ELSE {"host", "device"}) ELSE {"host"}
FilledBoth(r, E, a, n) == r \in Recvs /\ \A at \in Kept : FilledIn(r[at], E, a, n)

\* How many rows there are after the first o[m], of all that are expected.
Room(o, m, last) == IF call.op = "add" THEN o[m] ELSE o[last]

LEMMA AddFilled ==
    ASSUME call \in Calls, Fitting(call), NEW E, NEW a \in Nat, NEW rows \in Rows, NEW k \in Nat, k = Len(rows),
           Continues(E, a, rows), NEW r, FilledBoth(r, E, a, a)
    PROVE  FilledBoth(op_ssend_recv_add(r, rows), E, a + k, a + k)
<1>1. r \in Recvs /\ r.host \in Rows /\ r.device \in Rows
  BY DEF FilledBoth, Recvs
<1>2. PICK t : t = Picked(rows)
  OBVIOUS
<1>3. t \in Rows /\ Len(t) = k /\ \A l \in 1..k : E[a + l] = t[l]
  BY <1>2, PickedType DEF Continues
<1>4. \A s : FilledIn(s, E, a, a) => FilledIn(s \o t, E, a + k, a + k)
  BY <1>3, JoinFilled
<1>5. add_prp(r, rows) \in Recvs /\ add_prp_device(r, rows) \in Recvs
  BY <1>1, AddType DEF Grown
<1>6. add_prp(r, rows).host = r.host \o t /\ add_prp(r, rows).device = r.device \o Empty(k)
  BY <1>2 DEF add_prp
<1>7. add_prp_device(r, rows).device = r.device \o t
  BY <1>2 DEF add_prp_device
<1>8. CASE ~call.direct
  <2>1. Kept = {"host"} /\ op_ssend_recv_add(r, rows) = add_prp(r, rows)
    BY <1>8 DEF Kept, op_ssend_recv_add
  <2>2. FilledIn(r.host, E, a, a)
    BY <2>1 DEF FilledBoth
  <2>3. FilledIn(add_prp(r, rows).host, E, a + k, a + k)
    BY <2>2, <1>4, <1>6
  <2> QED
    BY <2>1, <2>3, <1>5 DEF FilledBoth
<1>9. CASE call.direct /\ call.aware
  <2>1. Kept = {"device"} /\ op_ssend_recv_add(r, rows) = add_prp_device(r, rows)
    BY <1>9 DEF Kept, op_ssend_recv_add, Fitting
  <2>2. FilledIn(r.device, E, a, a)
    BY <2>1 DEF FilledBoth
  <2>3. FilledIn(add_prp_device(r, rows).device, E, a + k, a + k)
    BY <2>2, <1>4, <1>7
  <2> QED
    BY <2>1, <2>3, <1>5 DEF FilledBoth
<1>10. CASE call.direct /\ ~call.aware
  <2>1. Kept = {"host", "device"}
        /\ op_ssend_recv_add(r, rows) = hostToDevice(add_prp(r, rows), Len(r.host), Len(r.host) + Len(rows) - 1)
    BY <1>10 DEF Kept, op_ssend_recv_add, Fitting
  <2>2. FilledIn(r.host, E, a, a) /\ FilledIn(r.device, E, a, a)
    BY <2>1 DEF FilledBoth
  <2>3. Len(r.host) = a + 1 /\ Len(r.host) + Len(rows) - 1 = a + k
    <3>1. Len(r.host) = a + 1
      BY <2>2 DEF FilledIn
    <3> QED
      BY <3>1
  <2>4. PICK s : s = add_prp(r, rows)
    OBVIOUS
  <2>5. s \in Recvs /\ FilledIn(s.host, E, a + k, a + k) /\ FilledIn(s.device, E, a, a + k)
    BY <2>2, <2>4, <1>4, <1>5, <1>6, EmptyFilled
  <2>6. PICK new : new = hostToDevice(s, a + 1, a + k)
    OBVIOUS
  <2>7. new \in Recvs /\ new.host = s.host /\ FilledIn(new.device, E, a + k, a + k)
    <3>1. CopiedIn(hostToDevice(s, a + 1, a + k), s, E, a + k, a + k)
      <4>1. Len(rows) = k /\ a + k \in Nat /\ a + k <= a + k
        BY <1>1
      <4> QED
        BY <2>5, <4>1, CopyFilled
    <3> QED
      BY <2>6, <3>1 DEF CopiedIn
  <2>8. op_ssend_recv_add(r, rows) = new
    BY <2>1, <2>3, <2>4, <2>6
  <2> QED
    BY <2>1, <2>5, <2>7, <2>8 DEF FilledBoth
<1> QED
  BY <1>8, <1>9, <1>10, CallType

\* A merge where the values are kept, and nowhere else.
LEMMA MergeBoth ==
    ASSUME NEW E, NEW a \in Nat, NEW n \in Nat, NEW rows \in Rows, NEW k \in Nat, k = Len(rows), a + k <= n,
           Continues(E, a, rows), NoneEmpty(rows), NEW at \in {"host", "device"}, Kept = {at},
           NEW r, FilledBoth(r, E, a, n), NEW replace \in BOOLEAN, NEW into, Into(into, a, k)
    PROVE  FilledBoth(merge_prp(r, at, rows, into, replace), E, a + k, n)
<1>1. r \in Recvs /\ FilledIn(r[at], E, a, n)
  BY DEF FilledBoth
<1>2. MergedIn(merge_prp(r, at, rows, into, replace), r, at, E, a + k, n)
  BY <1>1, MergeFilled
<1> QED
  BY <1>2 DEF FilledBoth, MergedIn

LEMMA RunDeviceFilled ==
    ASSUME call \in Calls, call.direct, NEW E, NEW a \in Nat, NEW n \in Nat, NEW rows \in Rows, NEW k \in Nat, k = Len(rows),
           a + k <= n, Continues(E, a, rows), NoneEmpty(rows), NEW r, FilledBoth(r, E, a, n)
    PROVE  FilledBoth(op_ssend_gg_recv_merge_run_device(r, rows, a + 1), E, a + k, n)
<1>1. PICK into : into = From(a + 1, rows)
  OBVIOUS
<1>2. DOMAIN into = 1..k /\ \A l \in 1..k : into[l] = a + 1 + l
  BY <1>1, RowsType DEF From
<1>3. Into(into, a, k)
  BY <1>2 DEF Into
<1>4. CASE call.aware
  <2>1. Kept = {"device"} /\ op_ssend_gg_recv_merge_run_device(r, rows, a + 1) = merge_prp(r, "device", rows, into, TRUE)
    BY <1>1, <1>4 DEF Kept, op_ssend_gg_recv_merge_run_device
  <2> QED
    BY <2>1, <1>3, MergeBoth
<1>5. CASE ~call.aware
  <2>1. PICK s : s = merge_prp(r, "host", rows, into, TRUE)
    OBVIOUS
  <2>2. Kept = {"host", "device"} /\ r \in Recvs /\ FilledIn(r.host, E, a, n) /\ FilledIn(r.device, E, a, n)
    BY <1>5 DEF Kept, FilledBoth
  <2>3. PICK at \in {"host", "device"} : at = "host"
    OBVIOUS
  <2>4. FilledIn(r[at], E, a, n) /\ s = merge_prp(r, at, rows, into, TRUE)
    BY <2>1, <2>2, <2>3
  <2>11. MergedIn(merge_prp(r, at, rows, into, TRUE), r, at, E, a + k, n)
    BY <2>2, <2>4, <1>3, MergeFilled
  <2>5. s \in Recvs /\ FilledIn(s[at], E, a + k, n) /\ \A o \in {"host", "device"} : o # at => s[o] = r[o]
    BY <2>4, <2>11 DEF MergedIn
  <2>6. FilledIn(s.host, E, a + k, n) /\ FilledIn(s.device, E, a, n)
    BY <2>2, <2>3, <2>5
  <2>7. PICK new : new = hostToDevice(s, a + 1, a + k)
    OBVIOUS
  <2>8. new \in Recvs /\ new.host = s.host /\ FilledIn(new.device, E, a + k, n)
    <3>1. CopiedIn(hostToDevice(s, a + 1, a + k), s, E, a + k, n)
      <4>1. Len(rows) = k
        OBVIOUS
      <4> QED
        BY <2>5, <2>6, <4>1, CopyFilled
    <3> QED
      BY <2>7, <3>1 DEF CopiedIn
  <2>9. a + 1 + Len(rows) - 1 = a + k
    OBVIOUS
  <2>10. op_ssend_gg_recv_merge_run_device(r, rows, a + 1) = new
    BY <1>1, <1>5, <2>1, <2>7, <2>9 DEF op_ssend_gg_recv_merge_run_device, op_ssend_gg_recv_merge
  <2> QED
    BY <2>2, <2>6, <2>8, <2>10 DEF FilledBoth
<1> QED
  BY <1>4, <1>5, CallType

LEMMA ExecuteFilled ==
    ASSUME call \in Calls, Fitting(call), NEW p \in Proc, NEW E, NEW o, Expects(p, E, o),
           NEW m \in 1..Len(Arrivals(p)), NEW i, i = (m - 1) * Parts, NEW rows, rows = ObjectRows(Arrivals(p)[m]),
           NEW r, FilledBoth(r, E, o[m - 1], Room(o, m - 1, Len(Arrivals(p))))
    PROVE  FilledBoth(execute(p, r, rows, i, o[m - 1] + 1), E, o[m], Room(o, m, Len(Arrivals(p))))
<1>1. PICK last \in Nat : last = Len(Arrivals(p))
  BY ArrivalsType
<1>2. m - 1 \in 0..last /\ m \in 0..last /\ last \in 0..last
  BY <1>1
<1>3. o[m - 1] \in Nat /\ o[m] \in Nat /\ o[last] \in Nat /\ o[m] <= o[last] /\ o[m] = o[m - 1] + Arrivals(p)[m].n
      /\ prc_off(p, m) = o[m] /\ prc_off(p, m - 1) = o[m - 1] /\ o[0] = 0
  BY <1>1, <1>2 DEF Expects
<1>4. PICK a \in Nat, n \in Nat : a = o[m - 1] /\ n = o[last]
  BY <1>3
<1>5. PICK k \in Nat : k = Arrivals(p)[m].n
  BY ArrivalOfRank
<1>6. o[m] = a + k /\ a + k <= n
  BY <1>3, <1>4, <1>5
<1>7. rows \in Rows /\ k = Len(rows) /\ NoneEmpty(rows) /\ Continues(E, a, rows)
  BY <1>4, <1>5, ObjectRowsType DEF Expects
<1>8. /\ m \in DOMAIN opart(p) /\ Into(opart(p)[m], a, k)
      /\ Into(SubSeq(FlattenSeq(opart(p)), a + 1, a + k), a, k)
  BY <1>4, <1>5, <1>6, OpartInto
<1>9. CASE call.op = "add"
  <2>1. FilledBoth(r, E, a, a)
    BY <1>9, <1>4 DEF Room
  <2>2. FilledBoth(op_ssend_recv_add(r, rows), E, a + k, a + k)
    BY <2>1, <1>7, AddFilled
  <2> QED
    BY <2>2, <1>6, <1>9 DEF Room, execute
<1>10. CASE call.op = "merge"
  <2>1. FilledBoth(r, E, a, n) /\ Kept = {"host"} /\ Parts = 1
    BY <1>10, <1>1, <1>4 DEF Room, Kept, Fitting, Parts
  <2>2. i + 1 = m
    BY <2>1
  <2>3. op_ssend_recv_merge(p, r, rows, i) = merge_prp(r, "host", rows, opart(p)[m], FALSE)
    BY <2>2, <1>8 DEF op_ssend_recv_merge
  <2>4. FilledBoth(merge_prp(r, "host", rows, opart(p)[m], FALSE), E, a + k, n)
    BY <2>1, <1>6, <1>7, <1>8, MergeBoth
  <2> QED
    BY <2>3, <2>4, <1>1, <1>4, <1>6, <1>10 DEF Room, execute
<1>11. CASE call.op = "merge_gpu"
  <2>1. FilledBoth(r, E, a, n) /\ Kept = {"device"} /\ call.layout = "inte" /\ Parts = Len(call.prps)
    BY <1>11, <1>1, <1>4 DEF Room, Kept, Fitting, Parts
  <2>2. i \div Len(call.prps) = m - 1
    <3>1. PICK c \in Nat \ {0} : c = Parts
      BY PartsType
    <3>2. PICK x \in Nat : x = m - 1
      OBVIOUS
    <3>3. i = x * c /\ Len(call.prps) = c
      BY <2>1, <3>1, <3>2
    <3>4. (x * c) \div c = x
      BY DivTimes
    <3> QED
      BY <3>2, <3>3, <3>4
  <2>3. i = 0 => m - 1 = 0
    <3>1. PICK c \in Nat \ {0} : c = Parts
      BY PartsType
    <3>2. PICK x \in Nat : x = m - 1
      OBVIOUS
    <3>3. 0 \div c = 0
      BY <3>1
    <3> QED
      BY <2>1, <2>2, <3>1, <3>3
  <2>4. PICK into : into = SubSeq(FlattenSeq(opart(p)), a + 1, a + k)
    OBVIOUS
  <2>5. op_ssend_recv_merge_gpu(p, r, rows, i) = merge_prp(r, "device", rows, into, FALSE)
    <3>1. (IF i = 0 THEN 0 ELSE prc_off(p, m - 1)) = a
      BY <2>3, <1>3, <1>4
    <3>2. prc_off(p, (m - 1) + 1) = a + k
      BY <1>3, <1>6
    <3> QED
      BY <2>1, <2>2, <2>4, <3>1, <3>2 DEF op_ssend_recv_merge_gpu
  <2>6. FilledBoth(merge_prp(r, "device", rows, into, FALSE), E, a + k, n)
    BY <2>1, <2>4, <1>6, <1>7, <1>8, MergeBoth
  <2> QED
    BY <2>5, <2>6, <1>1, <1>4, <1>6, <1>11 DEF Room, execute
<1>12. CASE call.op = "gg_recv_merge"
  <2>1. FilledBoth(r, E, a, n) /\ Kept = {"host"}
    BY <1>12, <1>1, <1>4 DEF Room, Kept, Fitting
  <2>2. PICK into : into = From(a + 1, rows)
    OBVIOUS
  <2>3. Into(into, a, k)
    BY <2>2, <1>7, RowsType DEF From, Into
  <2>4. FilledBoth(merge_prp(r, "host", rows, into, TRUE), E, a + k, n)
    BY <2>1, <2>3, <1>6, <1>7, MergeBoth
  <2> QED
    BY <2>2, <2>4, <1>1, <1>4, <1>6, <1>12 DEF Room, execute, op_ssend_gg_recv_merge
<1>13. CASE call.op = "gg_recv_merge_run_device"
  <2>1. FilledBoth(r, E, a, n) /\ call.direct
    BY <1>13, <1>1, <1>4 DEF Room, Fitting
  <2>2. FilledBoth(op_ssend_gg_recv_merge_run_device(r, rows, a + 1), E, a + k, n)
    BY <2>1, <1>6, <1>7, RunDeviceFilled
  <2> QED
    BY <2>2, <1>1, <1>4, <1>6, <1>13 DEF Room, execute
<1> QED
  BY <1>9, <1>10, <1>11, <1>12, <1>13, CallType

----------------------------------------------------------------------------
(* The loop over the buffers, object after object.                         *)

\* recv as the application gives it to the call.
Given(p) == Empty(IF call.op = "add" THEN 1 ELSE 1 + Elements(p))
Untouched(p) == recv[p] = [host |-> Given(p), device |-> Given(p)]

\* The lists have the size and the bytes of arrival l at its first buffer.
Noted(p, s, l) ==
    LET a == Arrivals(p)[l] IN
    /\ s.sz[Place(l, 1)] = a.n
    /\ s.byte[Place(l, 1)] = packingRequest(Objects(a.src)[a.obj])[1]

\* What the loop has done after m objects.
Walked(p, buf, E, o, m, s) ==
    /\ s \in Carried(Len(buf)) /\ s.start = o[m] + 1
    /\ FilledBoth(s.recv, E, o[m], Room(o, m, Len(Arrivals(p))))
    /\ call.op = "add" => \A l \in 1..m : Noted(p, s, l)

LEMMA BlankFilled ==
    ASSUME NEW E, NEW n \in Nat
    PROVE  FilledIn(Empty(1 + n), E, 0, n)
<1>1. PICK k \in Nat : k = 1 + n
  OBVIOUS
<1>2. PICK t : t = Empty(k)
  OBVIOUS
<1>3. t \in Rows /\ Len(t) = k /\ \A x \in 1..k : t[x] = BlankRow
  BY <1>2, EmptyRows DEF Empty, BlankRow
<1>4. k = n + 1 /\ \A x \in 1..k : ~(x > 1 /\ x - 1 <= 0)
  BY <1>1
<1>5. FilledIn(t, E, 0, n)
  BY <1>3, <1>4 DEF FilledIn
<1> QED
  BY <1>1, <1>2, <1>5

LEMMA WalkFirst ==
    ASSUME call \in Calls, NEW p \in Proc, NEW buf \in Seq(Messages \cup {NoBuffer}), NEW sz \in Seq(Nat), sz_byte[p] \in Seq(Nat),
           Untouched(p), NEW E, NEW o, Expects(p, E, o)
    PROVE  Walked(p, buf, E, o, 0, Before_All(p, buf, sz))
<1>1. PICK last \in Nat : last = Len(Arrivals(p))
  BY ArrivalsType
<1>2. PICK n \in Nat : n = o[last]
  BY <1>1 DEF Expects
<1>3. o[0] = 0 /\ Elements(p) = n
  <2>1. prc_off(p, last) = n /\ o[0] = 0
    BY <1>1, <1>2 DEF Expects
  <2>2. DOMAIN Arrivals(p) = 1..last
    BY <1>1, ArrivalsType
  <2> QED
    BY <2>1, <2>2 DEF Elements, prc_off
<1>4. PICK t : t = Given(p)
  OBVIOUS
<1>5. PICK k \in Nat : k = IF call.op = "add" THEN 0 ELSE n
  OBVIOUS
<1>6. t = Empty(1 + k)
  BY <1>3, <1>4, <1>5 DEF Given
<1>7. FilledIn(t, E, 0, k)
  BY <1>6, BlankFilled
<1>8. PICK r : r = recv[p]
  OBVIOUS
<1>9. r = [host |-> t, device |-> t]
  BY <1>4, <1>8 DEF Untouched
<1>10. t \in Rows
  BY <1>7 DEF FilledIn
<1>11. r \in Recvs
  BY <1>9, <1>10 DEF Recvs
<1>12. Room(o, 0, last) = k
  BY <1>2, <1>3, <1>5 DEF Room
<1>13. FilledBoth(r, E, 0, k)
  BY <1>7, <1>9, <1>11 DEF FilledBoth, Kept
<1>14. Before_All(p, buf, sz) \in Carried(Len(buf))
  BY <1>8, <1>11, ResizeType, LenProperties DEF Before_All, Carried
<1>15. Before_All(p, buf, sz).recv = r /\ Before_All(p, buf, sz).start = 1
  BY <1>8 DEF Before_All
<1>16. \A l \in 1..0 : FALSE
  OBVIOUS
<1> QED
  BY <1>1, <1>3, <1>12, <1>13, <1>14, <1>15, <1>16 DEF Walked

LEMMA WalkOn ==
    ASSUME call \in Calls, Fitting(call), NEW p \in Proc, NEW buf, Laid(p, buf), NEW E, NEW o, Expects(p, E, o),
           NEW m \in 1..Len(Arrivals(p)), NEW i, i = (m - 1) * Parts, NEW s, Walked(p, buf, E, o, m - 1, s)
    PROVE  Walked(p, buf, E, o, m, process_one(p, buf, s, i))
<1>1. PICK last \in Nat : last = Len(Arrivals(p))
  BY ArrivalsType
<1>2. PICK a : a = Arrivals(p)[m]
  OBVIOUS
<1>3. PICK rows : rows = ObjectRows(a)
  OBVIOUS
<1>4. a.n \in Nat /\ rows \in Rows /\ Len(rows) = a.n
  BY <1>2, <1>3, ObjectRowsType, ArrivalOfRank
<1>5. v2(buf, i) = rows /\ i + 1 \in 1..Len(buf) /\ IsPart(buf[i + 1], a, 1)
  BY <1>2, <1>3, Unpacking
<1>6. i \in Nat /\ m - 1 \in 0..last /\ m \in 0..last /\ m \in Nat \ {0}
  BY <1>1, PartsType, Times
<1>7. /\ s.recv \in Recvs /\ s.start = o[m - 1] + 1 /\ s.sz \in Seq(Nat) /\ s.byte \in Seq(Nat)
      /\ Len(s.sz) = Len(buf) /\ Len(s.byte) = Len(buf) /\ s \in Carried(Len(buf))
      /\ FilledBoth(s.recv, E, o[m - 1], Room(o, m - 1, last))
  BY <1>1 DEF Walked, Carried
<1>8. PICK new : new = execute(p, s.recv, rows, i, s.start)
  OBVIOUS
<1>9. FilledBoth(new, E, o[m], Room(o, m, last))
  BY <1>1, <1>2, <1>3, <1>7, <1>8, ExecuteFilled
<1>10. PICK t : t = process_one(p, buf, s, i)
  OBVIOUS
<1>11. t \in Carried(Len(buf))
  <2>1. buf \in Seq(Messages \cup {NoBuffer})
    BY DEF Laid
  <2> QED
    BY <1>5, <1>6, <1>7, <1>10, <2>1, ProcessOneType
<1>12. /\ t.recv = new /\ t.start = s.start + Len(rows)
       /\ t.sz = [s.sz EXCEPT ![i + 1] = Added(s.recv, new)]
       /\ t.byte = [s.byte EXCEPT ![i + 1] = buf[i + 1].bytes]
  BY <1>5, <1>8, <1>10 DEF process_one, Moved
<1>13. t.start = o[m] + 1
  <2>1. o[m] = o[m - 1] + a.n /\ o[m - 1] \in Nat
    BY <1>1, <1>2, <1>6 DEF Expects
  <2>2. PICK w \in Nat : w = o[m - 1]
    BY <2>1
  <2>3. t.start = w + 1 + a.n /\ o[m] = w + a.n
    BY <2>1, <2>2, <1>4, <1>7, <1>12
  <2> QED
    BY <2>3, <1>4
<1>14. i + 1 = Place(m, 1)
  BY DEF Place
<1>15. ASSUME call.op = "add"
       PROVE  Noted(p, t, m)
  <2>1. Grown(s.recv, new, Len(rows))
    BY <1>4, <1>7, <1>8, <1>15, ExecuteType
  <2>2. Len(new.host) = Len(s.recv.host) + a.n
    BY <2>1, <1>4 DEF Grown
  <2>3. PICK h \in Nat : h = Len(s.recv.host)
    BY <1>7, RowsType DEF Recvs
  <2>4. Added(s.recv, new) = a.n
    BY <1>4, <2>2, <2>3 DEF Added
  <2>5. PICK x : x = i + 1
    OBVIOUS
  <2>6. x \in DOMAIN s.sz /\ x \in DOMAIN s.byte
    BY <1>5, <1>7, <2>5, LenProperties
  <2>7. t.sz[x] = a.n /\ t.byte[x] = buf[x].bytes
    BY <1>12, <2>4, <2>5, <2>6
  <2>8. buf[x].bytes = packingRequest(Objects(a.src)[a.obj])[1]
    BY <1>5, <2>5 DEF IsPart
  <2> QED
    BY <1>2, <1>14, <2>5, <2>7, <2>8 DEF Noted
<1>16. ASSUME call.op = "add", NEW l \in 1..m
       PROVE  Noted(p, t, l)
  <2>1. CASE l = m
    BY <1>15, <1>16, <2>1
  <2>2. CASE l # m
    <3>1. l \in 1..(m - 1) /\ l \in Nat \ {0}
      BY <2>2, <1>6
    <3>2. Noted(p, s, l)
      BY <1>16, <3>1 DEF Walked
    <3>3. l \in 1..last /\ 1 \in 1..Parts
      BY <1>1, <1>6, <3>1, PartsType
    <3>4. PICK x : x = Place(l, 1)
      OBVIOUS
    <3>5. x \in 1..Len(buf)
      BY <1>1, <3>3, <3>4, LaidPart
    <3>6. x # i + 1
      BY <1>6, <1>14, <2>2, <3>1, <3>3, <3>4, PlaceGrows
    <3>7. x \in DOMAIN s.sz /\ x \in DOMAIN s.byte
      BY <1>7, <3>5, LenProperties
    <3>8. PICK y : y = i + 1
      OBVIOUS
    <3>9. t.sz[x] = s.sz[x] /\ t.byte[x] = s.byte[x]
      BY <1>12, <3>6, <3>7, <3>8
    <3> QED
      BY <3>2, <3>4, <3>9 DEF Noted
  <2> QED
    BY <2>1, <2>2
<1> QED
  BY <1>1, <1>9, <1>10, <1>11, <1>12, <1>13, <1>16 DEF Walked

LEMMA CeilingTimes ==
    ASSUME NEW n \in Nat, NEW c \in Nat \ {0}, NEW x, x = n * c
    PROVE  (x + c - 1) \div c = n
<1>1. x \in Nat
  BY Times
<1>2. PICK q : q = (x + c - 1) \div c
  OBVIOUS
<1>3. PICK y : y = x + c - 1
  OBVIOUS
<1>4. y \in Nat /\ q \in Nat /\ q * c <= y /\ y < q * c + c
  BY <1>1, <1>2, <1>3
<1>5. PICK z : z = q * c
  OBVIOUS
<1>6. z \in Nat /\ z <= x + c - 1 /\ x + c - 1 < z + c
  BY <1>1, <1>3, <1>4, <1>5, Times
<1>7. ~(n < q)
  BY <1>1, <1>4, <1>5, <1>6, TimesGrow
<1>8. ~(q < n)
  BY <1>1, <1>4, <1>5, <1>6, TimesGrow
<1> QED
  BY <1>2, <1>4, <1>7, <1>8

\* The loop leaves what is expected.
LEMMA ProcessFilled ==
    ASSUME call \in Calls, SomeProperty(Calls), Fitting(call), NEW p \in Proc, NEW buf, Laid(p, buf), NEW sz \in Seq(Nat),
           sz_byte[p] \in Seq(Nat), Untouched(p), NEW E, NEW o, Expects(p, E, o)
    PROVE  Walked(p, buf, E, o, Len(Arrivals(p)), process(p, buf, sz))
<1>1. PICK n \in Nat, c \in Nat \ {0} : n = Len(Arrivals(p)) /\ c = Parts
  BY ArrivalsType, PartsType
<1>2. buf \in Seq(Messages \cup {NoBuffer}) /\ Len(buf) = n * c
  BY <1>1 DEF Laid
<1>3. Stride = c
  BY <1>1, StrideParts
<1>4. PICK starts \in Seq(Nat) : starts = Starts(buf)
  BY <1>2, StartsType
<1>5. starts = [m \in 1..n |-> (m - 1) * c]
  <2>1. PICK x : x = Len(buf)
    OBVIOUS
  <2>2. (x + c - 1) \div c = n
    BY <1>2, <2>1, CeilingTimes
  <2> QED
    BY <1>3, <1>4, <2>1, <2>2 DEF Starts
<1>6. Len(starts) = n /\ \A m \in 1..n : starts[m] = (m - 1) * c
  <2>1. DOMAIN starts = 1..n
    BY <1>5
  <2>2. Len(starts) = n
    BY <2>1, LenProperties
  <2> QED
    BY <2>2, <1>5
<1>7. \A k \in 1..n : starts[k] \in Nat /\ starts[k] + 1 \in 1..Len(buf)
  BY <1>2, <1>4, <1>6, StartsType
<1>8. PICK V : V = Carried(Len(buf))
  OBVIOUS
<1>9. Walked(p, buf, E, o, 0, Before_All(p, buf, sz))
  BY <1>2, WalkFirst
<1>10. Stays(p, buf, sz, starts, V)
  <2>1. Before_All(p, buf, sz) \in V
    BY <1>8, <1>9 DEF Walked
  <2>2. \A s \in V : \A k \in 1..n : process_one(p, buf, s, starts[k]) \in V
    BY <1>2, <1>7, <1>8, ProcessOneType
  <2> QED
    BY <1>6, <2>1, <2>2 DEF Stays
<1>11. Loop(p, buf, sz, starts, V)
  BY <1>4, <1>10, ProcessOf
<1>12. PICK h \in [0..n -> V] :
         Processing(p, buf, sz, starts, h) /\ process(p, buf, sz) = h[n]
  BY <1>6, <1>11 DEF Loop
<1>13. h[0] = Before_All(p, buf, sz) /\ \A k \in 1..n : h[k] = process_one(p, buf, h[k - 1], starts[k])
  BY <1>6, <1>12 DEF Processing
<1> DEFINE T == {m \in 0..n : Walked(p, buf, E, o, m, h[m])}
<1>14. 0 \in T
  BY <1>9, <1>13
<1>15. ASSUME NEW m \in 0..(n - 1), m \in T
       PROVE  m + 1 \in T
  <2>1. PICK k \in 1..n : k = m + 1
    OBVIOUS
  <2>2. m = k - 1 /\ Walked(p, buf, E, o, k - 1, h[k - 1])
    BY <1>15, <2>1
  <2>3. PICK i : i = (k - 1) * c
    OBVIOUS
  <2>4. h[k] = process_one(p, buf, h[k - 1], i)
    BY <1>6, <1>13, <2>3
  <2>5. PICK s : s = h[k - 1]
    OBVIOUS
  <2>6. Walked(p, buf, E, o, k, process_one(p, buf, s, i))
    BY <1>1, <2>2, <2>3, <2>5, WalkOn
  <2> QED
    BY <2>1, <2>4, <2>5, <2>6
<1> HIDE DEF T
<1>16. 0..n \subseteq T
  BY <1>14, <1>15, InductionTo
<1>17. n \in T
  BY <1>16
<1> QED
  BY <1>1, <1>12, <1>17 DEF T

\* All expected rows are there.
LEMMA AllFilled ==
    ASSUME NEW s, NEW E, NEW n \in Nat, E \in Rows, Len(E) = n, FilledIn(s, E, n, n)
    PROVE  s = Empty(1) \o E
<1>1. Empty(1) \in Rows /\ Len(Empty(1)) = 1 /\ Empty(1)[1] = BlankRow
  <2>1. PICK k \in Nat : k = 1
    OBVIOUS
  <2>2. Empty(k) \in Rows /\ Len(Empty(k)) = k /\ Empty(k)[k] = BlankRow
    <3>1. Empty(k) \in Rows /\ Len(Empty(k)) = k
      BY EmptyRows
    <3>2. Empty(k)[k] = BlankRow
      BY <2>1 DEF Empty, BlankRow
    <3> QED
      BY <3>1, <3>2
  <2> QED
    BY <2>1, <2>2
<1>2. PICK t : t = Empty(1) \o E
  OBVIOUS
<1>3. PICK e : e = Empty(1)
  OBVIOUS
<1>4. t \in Rows /\ Len(t) = 1 + n
  BY <1>1, <1>2, JoinedType
<1>5. ASSUME NEW x \in 1..(n + 1)
      PROVE  s[x] = t[x]
  <2>1. t[x] = IF x <= 1 THEN e[x] ELSE E[x - 1]
    BY <1>1, <1>2, <1>3, <1>5, ConcatProperties DEF Rows
  <2>2. s[x] = IF x > 1 /\ x - 1 <= n THEN E[x - 1] ELSE BlankRow
    BY <1>5 DEF FilledIn
  <2>3. CASE x = 1
    BY <1>1, <1>3, <2>1, <2>2, <2>3
  <2>4. CASE x > 1
    <3>1. x - 1 <= n /\ ~(x <= 1)
      BY <2>4
    <3> QED
      BY <2>1, <2>2, <2>4, <3>1
  <2>5. x = 1 \/ x > 1
    OBVIOUS
  <2> QED
    BY <2>3, <2>4, <2>5
<1>6. s \in Rows /\ Len(s) = n + 1 /\ Len(t) = n + 1
  BY <1>4 DEF FilledIn
<1>7. s = t
  <2>1. PICK S : S = [Props -> SUBSET Cells]
    OBVIOUS
  <2>2. s \in Seq(S) /\ t \in Seq(S)
    BY <1>4, <1>6, <2>1 DEF Rows
  <2> QED
    BY <1>5, <1>6, <2>2, SeqEqual
<1> QED
  BY <1>2, <1>7

\* What a call leaves at a rank whose buffers are complete.
LEMMA ProcessWhole ==
    ASSUME call \in Calls, SomeProperty(Calls), Fitting(call), NEW p \in Proc, NEW buf, Laid(p, buf), NEW sz \in Seq(Nat),
           sz_byte[p] \in Seq(Nat), Untouched(p)
    PROVE  /\ process(p, buf, sz) \in Carried(Len(buf))
           /\ process(p, buf, sz).recv[Home] = Empty(1) \o ExpectedRows(p)
           /\ call.op = "add" => \A l \in 1..Len(Arrivals(p)) : Noted(p, process(p, buf, sz), l)
<1>1. PICK n \in Nat : n = Len(Arrivals(p))
  BY ArrivalsType
<1>2. PICK E : E = ExpectedRows(p)
  OBVIOUS
<1>3. PICK o : Expects(p, E, o)
  BY <1>2, ExpectedExists
<1>4. PICK s : s = process(p, buf, sz)
  OBVIOUS
<1>5. Walked(p, buf, E, o, n, s)
  BY <1>1, <1>3, <1>4, ProcessFilled
<1>6. PICK w \in Nat : w = o[n]
  BY <1>1, <1>3 DEF Expects
<1>7. E \in Rows /\ Len(E) = w
  BY <1>1, <1>3, <1>6 DEF Expects
<1>8. FilledBoth(s.recv, E, w, w)
  BY <1>1, <1>5, <1>6 DEF Walked, Room
<1>9. Home \in Kept
  BY DEF Home, Kept
<1>10. FilledIn(s.recv[Home], E, w, w)
  BY <1>8, <1>9 DEF FilledBoth
<1>11. s.recv[Home] = Empty(1) \o E
  BY <1>7, <1>10, AllFilled
<1> QED
  BY <1>1, <1>2, <1>4, <1>5, <1>11 DEF Walked

----------------------------------------------------------------------------
(* What a rank has when its exchange is over.                              *)

\* The slots of p are those of the messages it waits for.
Ready(p) ==
    /\ \A l \in 1..Len(recv_buf[p]) : recv_buf[p][l] # NoBuffer /\ recv_buf[p][l].at = Landing
    /\ IF Known
       THEN /\ \A l \in 1..Len(recv_buf[p]) : \E m \in 1..Len(Arrivals(p)) : Arrivals(p)[m].src = recv_buf[p][l].src
            /\ \A m \in 1..Len(Arrivals(p)) : \E l \in 1..Len(recv_buf[p]) : recv_buf[p][l].src = Arrivals(p)[m].src
       ELSE flight = {} /\ \A q \in Proc : pc[q] # "app"

\* A buffer and the object it is of.
Carries(p, b, i, j) ==
    /\ b \in Messages /\ b.src \in Proc /\ b.at = Landing /\ Stripped(b) \in Outgoing(b.src)
    /\ i \in 1..Len(Objects(b.src)) /\ j \in 1..Parts /\ Objects(b.src)[i].dst = p /\ Sends(b.src)
    /\ (Known \/ Sized(Objects(b.src)[i])) /\ Stripped(b) = MessageOf(b.src, i, j) /\ KeyOf(b) = <<b.src, Place(i, j)>>

LEMMA SlotCarries ==
    ASSUME ListsInv, KeptInv, Fitting(call), NEW p \in Proc, Ready(p), NEW l \in 1..Len(recv_buf[p])
    PROVE  \E i, j : Carries(p, recv_buf[p][l], i, j)
<1>1. PICK b : b = recv_buf[p][l]
  OBVIOUS
<1>2. b # NoBuffer /\ b.at = Landing
  BY <1>1 DEF Ready
<1>3. b \in Messages /\ b.dst = p /\ Stripped(b) \in Outgoing(b.src)
  BY <1>1, <1>2, RecvBufType DEF KeptInv
<1>4. b.src \in Proc /\ Stripped(b).dst = p /\ Stripped(b).tag = b.tag /\ call \in Calls
  <2>1. b \in Messages => Stripped(b).dst = b.dst /\ Stripped(b).tag = b.tag
    BY StrippedType
  <2>2. b.src \in Proc
    BY <1>3 DEF Messages
  <2> QED
    BY <1>3, <2>1, <2>2 DEF ListsInv
<1>5. Known => call.layout # "inte"
  BY DEF Fitting, Known
<1>6. PICK q \in Proc : q = b.src
  BY <1>4
<1>7. Sends(q) /\ \E i \in 1..Len(Objects(q)), j \in 1..Parts :
                     (Known \/ Sized(Objects(q)[i])) /\ Stripped(b) = MessageOf(q, i, j)
  BY <1>3, <1>4, <1>5, <1>6, OutgoingOf
<1>8. PICK i \in 1..Len(Objects(q)), j \in 1..Parts :
         (Known \/ Sized(Objects(q)[i])) /\ Stripped(b) = MessageOf(q, i, j)
  BY <1>7
<1>9. Objects(q)[i].dst = p /\ b.tag = Place(i, j)
  BY <1>4, <1>8 DEF MessageOf
<1>10. Carries(p, b, i, j)
  BY <1>2, <1>3, <1>4, <1>6, <1>7, <1>8, <1>9 DEF Carries, KeyOf
<1> QED
  BY <1>1, <1>10

\* A sender that is known has one object for p.
LEMMA OneObject ==
    ASSUME call \in Calls, Fitting(call), Known, NEW p \in Proc, NEW m \in 1..Len(Arrivals(p)),
           NEW i \in 1..Len(Objects(Arrivals(p)[m].src)), Objects(Arrivals(p)[m].src)[i].dst = p
    PROVE  i = Arrivals(p)[m].obj
<1>1. PICK a : a = Arrivals(p)[m]
  OBVIOUS
<1>2. a.src \in Proc /\ a.obj \in 1..Len(Objects(a.src)) /\ Objects(a.src)[a.obj].dst = p
  BY <1>1, ArrivalOfRank
<1>3. \A q \in Proc : \A x, y \in DOMAIN Objects(q) : Objects(q)[x].dst = Objects(q)[y].dst => x = y
  BY DEF Fitting, Known, Objects
<1>4. DOMAIN Objects(a.src) = 1..Len(Objects(a.src))
  BY <1>2, ObjectsType
<1> QED
  BY <1>1, <1>2, <1>3, <1>4

LEMMA SlotExpected ==
    ASSUME ListsInv, KeptInv, Fitting(call), NEW p \in Proc, Ready(p), NEW l \in 1..Len(recv_buf[p])
    PROVE  \E m \in 1..Len(Arrivals(p)), j \in 1..Parts :
              KeyOf(recv_buf[p][l]) = ExpectedKey(p, m, j) /\ Arrivals(p)[m].src = recv_buf[p][l].src
<1>1. PICK b : b = recv_buf[p][l]
  OBVIOUS
<1>2. PICK i, j : Carries(p, b, i, j)
  BY <1>1, SlotCarries
<1>3. call \in Calls
  BY DEF ListsInv
<1>4. PICK q \in Proc : q = b.src
  BY <1>2 DEF Carries
<1>5. i \in 1..Len(Objects(q)) /\ j \in 1..Parts /\ Objects(q)[i].dst = p /\ Sends(q) /\ KeyOf(b) = <<q, Place(i, j)>>
  BY <1>2, <1>4 DEF Carries
<1>6. \E m \in 1..Len(Arrivals(p)) : Arrivals(p)[m].src = q /\ Arrivals(p)[m].obj = i
  <2>1. CASE Known
    <3>1. PICK m \in 1..Len(Arrivals(p)) : Arrivals(p)[m].src = q
      BY <1>1, <1>4, <2>1 DEF Ready
    <3>2. PICK a : a = Arrivals(p)[m]
      OBVIOUS
    <3>3. i = Arrivals(p)[m].obj
      BY <1>3, <1>5, <2>1, <3>1, OneObject
    <3> QED
      BY <3>1, <3>3
  <2>2. CASE ~Known
    <3>1. IsAddressed(p, q, i) /\ q \in Senders(p)
      <4>1. Sized(Objects(q)[i])
        BY <1>2, <1>4, <2>2 DEF Carries
      <4>2. q \in Senders(p)
        BY <1>3, <1>5, SendersSend
      <4> QED
        BY <1>5, <4>1, <4>2 DEF IsAddressed
    <3>2. \E m \in 1..Len(Arrivals(p)) : Arrivals(p)[m] = ArrivalAs(q, i)
      BY <1>3, <1>5, <3>1, ArrivalsOrder DEF ArrivalsOf
    <3>3. ArrivalAs(q, i).src = q /\ ArrivalAs(q, i).obj = i
      BY DEF ArrivalAs
    <3> QED
      BY <3>2, <3>3
  <2> QED
    BY <2>1, <2>2
<1>7. PICK m \in 1..Len(Arrivals(p)) : Arrivals(p)[m].src = q /\ Arrivals(p)[m].obj = i
  BY <1>6
<1>8. KeyOf(b) = ExpectedKey(p, m, j)
  BY <1>5, <1>7 DEF ExpectedKey
<1> QED
  BY <1>1, <1>4, <1>5, <1>7, <1>8

LEMMA ExpectedSlot ==
    ASSUME ListsInv, KeptInv, Fitting(call), NEW p \in Proc, Ready(p), NEW m \in 1..Len(Arrivals(p)), NEW j \in 1..Parts
    PROVE  \E l \in 1..Len(recv_buf[p]) : KeyOf(recv_buf[p][l]) = ExpectedKey(p, m, j)
<1>1. PICK a : a = Arrivals(p)[m]
  OBVIOUS
<1>2. call \in Calls /\ (Known => call.layout # "inte")
  BY DEF ListsInv, Fitting, Known
<1>3. PICK q \in Proc : q = a.src
  BY <1>1, <1>2, ArrivalOfRank
<1>4. PICK i \in 1..Len(Objects(q)) : i = a.obj
  BY <1>1, <1>2, <1>3, ArrivalOfRank
<1>5. Sends(q) /\ Objects(q)[i].dst = p /\ Sized(Objects(q)[i])
  BY <1>1, <1>2, <1>3, <1>4, ArrivalOfRank
<1>6. ExpectedKey(p, m, j) = <<q, Place(i, j)>>
  BY <1>1, <1>3, <1>4 DEF ExpectedKey
<1>7. CASE Known
  <2>1. PICK l \in 1..Len(recv_buf[p]) : recv_buf[p][l].src = q
    BY <1>1, <1>3, <1>7 DEF Ready
  <2>2. PICK b : b = recv_buf[p][l]
    OBVIOUS
  <2>3. PICK k, n : Carries(p, b, k, n)
    BY <2>2, SlotCarries
  <2>4. k \in 1..Len(Objects(q)) /\ n \in 1..Parts /\ Objects(q)[k].dst = p /\ KeyOf(b) = <<q, Place(k, n)>>
    BY <2>1, <2>2, <2>3 DEF Carries
  <2>5. k = i
    BY <1>1, <1>2, <1>3, <1>4, <1>7, <2>4, OneObject
  <2>6. n = j
    <3>1. Parts = 1
      BY <1>2, <1>7 DEF Parts
    <3> QED
      BY <2>4, <3>1
  <2> QED
    BY <1>6, <2>2, <2>4, <2>5, <2>6
<1>8. CASE ~Known
  <2>1. PICK x : x = MessageOf(q, i, j)
    OBVIOUS
  <2>2. x \in Outgoing(q) /\ x.dst = p /\ x.src = q /\ x.tag = Place(i, j)
    BY <1>2, <1>5, <2>1, OutgoingOf DEF MessageOf
  <2>3. flight = {} /\ pc[q] # "app"
    BY <1>8 DEF Ready
  <2>4. PICK l \in 1..Len(recv_buf[p]) : Has(p, l, x)
    BY <2>2, <2>3 DEF KeptInv
  <2>5. PICK b : b = recv_buf[p][l]
    OBVIOUS
  <2>6. b # NoBuffer /\ Stripped(b) = x
    BY <2>4, <2>5 DEF Has
  <2>7. b \in Messages
    BY <2>5, <2>6, RecvBufType
  <2>8. b.src = q /\ b.tag = Place(i, j)
    <3>1. b \in Messages => Stripped(b).src = b.src /\ Stripped(b).tag = b.tag
      BY StrippedType
    <3> QED
      BY <2>2, <2>6, <2>7, <3>1
  <2> QED
    BY <1>6, <2>5, <2>8 DEF KeyOf
<1> QED
  BY <1>7, <1>8

\* Two slots have different keys.
LEMMA KeysDiffer ==
    ASSUME ListsInv, KeptInv, Fitting(call), NEW p \in Proc, Ready(p),
           NEW l \in 1..Len(recv_buf[p]), NEW k \in 1..Len(recv_buf[p]), KeyOf(recv_buf[p][l]) = KeyOf(recv_buf[p][k])
    PROVE  l = k
<1>1. PICK b : b = recv_buf[p][l]
  OBVIOUS
<1>2. PICK c : c = recv_buf[p][k]
  OBVIOUS
<1>3. PICK i, j : Carries(p, b, i, j)
  BY <1>1, SlotCarries
<1>4. PICK x, y : Carries(p, c, x, y)
  BY <1>2, SlotCarries
<1>5. KeyOf(b) = <<b.src, Place(i, j)>> /\ KeyOf(c) = <<c.src, Place(x, y)>> /\ b.src \in Proc
  BY <1>3, <1>4 DEF Carries
<1>6. b.src = c.src /\ Place(i, j) = Place(x, y)
  <2>1. KeyOf(b) = KeyOf(c)
    BY <1>1, <1>2
  <2>2. PICK v : v = Place(i, j)
    OBVIOUS
  <2>3. PICK w : w = Place(x, y)
    OBVIOUS
  <2>4. <<b.src, v>> = <<c.src, w>>
    BY <1>5, <2>1, <2>2, <2>3
  <2>5. b.src = c.src /\ v = w
    BY <2>4
  <2> QED
    BY <2>2, <2>3, <2>5
<1>7. i \in 1..Len(Objects(b.src)) /\ j \in 1..Parts /\ x \in 1..Len(Objects(b.src)) /\ y \in 1..Parts
      /\ Len(Objects(b.src)) \in Nat
  BY <1>3, <1>4, <1>6, ObjectsType DEF Carries, ListsInv
<1>8. i \in Nat \ {0} /\ x \in Nat \ {0}
  BY <1>7
<1>9. i = x /\ j = y
  BY <1>6, <1>7, <1>8, PlaceGrows
<1>10. Stripped(b) = Stripped(c)
  BY <1>3, <1>4, <1>6, <1>9 DEF Carries
<1>11. b # NoBuffer /\ c # NoBuffer
  BY <1>1, <1>2 DEF Ready
<1>12. Has(p, l, Stripped(c)) /\ recv_buf[p][k] # NoBuffer
  BY <1>1, <1>2, <1>10, <1>11 DEF Has
<1> QED
  BY <1>2, <1>12 DEF KeptInv

\* In the order of their keys they are what is collected.
InKeyOrder(p, f, buf) ==
    /\ Shuffles(f, Len(recv_buf[p])) /\ buf \in Seq(Messages \cup {NoBuffer}) /\ Len(buf) = Len(recv_buf[p])
    /\ \A l \in 1..Len(buf) : buf[l] = recv_buf[p][f[l]]
    /\ \A i, k \in 1..Len(buf) : i < k => <<KeyOf(buf[i]), KeyOf(buf[k])>> \in KeyOrder

LEMMA CollectedFrom ==
    ASSUME ListsInv, KeptInv, Fitting(call), NEW p \in Proc, Ready(p), NEW f, NEW buf, InKeyOrder(p, f, buf)
    PROVE  Collected(p, buf)
<1>0. PICK N \in Nat : N = Len(recv_buf[p]) /\ N = Len(buf)
  BY RecvBufType DEF InKeyOrder
<1>a. Shuffles(f, N) /\ buf \in Seq(Messages \cup {NoBuffer}) /\ \A l \in 1..N : buf[l] = recv_buf[p][f[l]]
  BY <1>0 DEF InKeyOrder
<1>b. \A i, k \in 1..N : i < k => <<KeyOf(buf[i]), KeyOf(buf[k])>> \in KeyOrder
  BY <1>0 DEF InKeyOrder
<1>1. \A l \in 1..N : f[l] \in 1..N
  BY <1>a DEF Shuffles
<1>2. ASSUME NEW l \in 1..N
      PROVE  buf[l] \in Messages /\ buf[l].at = Landing /\ Stripped(buf[l]) \in Outgoing(buf[l].src)
  <2>1. PICK x \in 1..Len(recv_buf[p]) : x = f[l]
    BY <1>0, <1>1
  <2>2. PICK i, j : Carries(p, recv_buf[p][x], i, j)
    BY SlotCarries
  <2>3. buf[l] = recv_buf[p][x]
    BY <1>a, <2>1
  <2> QED
    BY <2>2, <2>3 DEF Carries
<1>3. buf \in Seq(Messages)
  <2>1. buf \in [1..N -> Messages]
    BY <1>0, <1>a, <1>2, LenProperties
  <2> QED
    BY <2>1, FunSeq
<1>4. ASSUME NEW l \in 1..N
      PROVE  \E m \in 1..Len(Arrivals(p)), j \in 1..Parts : KeyOf(buf[l]) = ExpectedKey(p, m, j)
  <2>1. PICK x \in 1..Len(recv_buf[p]) : x = f[l]
    BY <1>0, <1>1
  <2>2. \E m \in 1..Len(Arrivals(p)), j \in 1..Parts : KeyOf(recv_buf[p][x]) = ExpectedKey(p, m, j)
    BY SlotExpected
  <2> QED
    BY <1>a, <2>1, <2>2
<1>5. ASSUME NEW m \in 1..Len(Arrivals(p)), NEW j \in 1..Parts
      PROVE  \E l \in 1..N : KeyOf(buf[l]) = ExpectedKey(p, m, j)
  <2>1. PICK x \in 1..N : KeyOf(recv_buf[p][x]) = ExpectedKey(p, m, j)
    BY <1>0, ExpectedSlot
  <2>2. PICK l \in 1..N : f[l] = x
    BY <1>a DEF Shuffles
  <2> QED
    BY <1>a, <2>1, <2>2
<1> QED
  BY <1>0, <1>b, <1>2, <1>3, <1>4, <1>5 DEF Collected

----------------------------------------------------------------------------
(* What the lists of the call tell of the buffers while it runs.           *)

Slotted(p) == \A l \in 1..Len(recv_buf[p]) : recv_buf[p][l] # NoBuffer => recv_buf[p][l].at = Landing

\* A receiver that knows its senders, and one that is told them by msg_alloc.
ToldKnown(p) ==
    /\ tags[p] = <<>> /\ prc_recv[p] = KnownSenders(p) /\ Len(recv_buf[p]) = Len(KnownSenders(p))
    /\ \A l \in 1..Len(recv_buf[p]) : recv_buf[p][l] # NoBuffer => prc_recv[p][l] = recv_buf[p][l].src
ToldUnknown(p) ==
    /\ Len(tags[p]) = Len(recv_buf[p])
    /\ \A l \in 1..Len(recv_buf[p]) :
          /\ recv_buf[p][l] # NoBuffer /\ tags[p][l] = recv_buf[p][l].tag
          /\ call.form # "SScatter" => prc_recv[p][l] = recv_buf[p][l].src
Told(p) == IF Known THEN ToldKnown(p) ELSE ToldUnknown(p)

\* A scatter sorts nothing: its buffers come in the order of their tags.
InOrder(p) == \A l, k \in 1..Len(recv_buf[p]) : l < k => recv_buf[p][l].tag < recv_buf[p][k].tag
Later(p) == \A m \in flight : m.dst = p => \A l \in 1..Len(recv_buf[p]) : recv_buf[p][l].tag < m.tag

ToldAt(p) ==
    /\ pc[p] # "done" => Untouched(p)
    /\ Slotted(p)
    /\ pc[p] = "wait" => Told(p) /\ (call.form = "SScatter" => InOrder(p))
ToldInv == \A p \in Proc : ToldAt(p)
LaterInv == call.form = "SScatter" => \A p \in Proc : pc[p] = "wait" => Later(p)

LEMMA CallStays ==
    ASSUME call' = call, NEW p
    PROVE  /\ Given(p)' = Given(p) /\ KnownSenders(p)' = KnownSenders(p) /\ Landing' = Landing /\ Known' = Known
           /\ ExpectedRows(p)' = ExpectedRows(p) /\ Home' = Home /\ Own(p)' = Own(p) /\ Arrivals(p)' = Arrivals(p)
           /\ Objects(p)' = Objects(p) /\ prc_send(p)' = prc_send(p)
<1>1. Senders(p)' = Senders(p)
  BY DEF Senders
<1>2. \A q : Arrive(p, q)' = Arrive(p, q)
  BY DEF Arrive, Objects
<1>3. Arrivals(p)' = Arrivals(p)
  BY <1>1, <1>2 DEF Arrivals
<1>4. Elements(p)' = Elements(p) /\ KnownSenders(p)' = KnownSenders(p)
  BY <1>3 DEF Elements, KnownSenders
<1>5. Given(p)' = Given(p)
  BY <1>4 DEF Given
<1>6. ExpectedRows(p)' = ExpectedRows(p)
  BY <1>3 DEF ExpectedRows, Merged
<1>7. Landing' = Landing /\ Known' = Known /\ Home' = Home /\ Own(p)' = Own(p) /\ Objects(p)' = Objects(p)
      /\ prc_send(p)' = prc_send(p)
  BY DEF Landing, Known, Home, Own, Objects, prc_send
<1> QED
  BY <1>3, <1>4, <1>5, <1>6, <1>7

LEMMA ToldStays ==
    ASSUME NEW q, ToldAt(q), call' = call, pc'[q] = pc[q] \/ pc'[q] = "done", pc[q] = "done" => pc'[q] = "done",
           pc'[q] # "done" => recv'[q] = recv[q], recv_buf'[q] = recv_buf[q],
           tags'[q] = tags[q], pc'[q] # "done" => prc_recv'[q] = prc_recv[q]
    PROVE  ToldAt(q)'
<1>1. Given(q)' = Given(q) /\ KnownSenders(q)' = KnownSenders(q) /\ Landing' = Landing /\ Known' = Known
  BY CallStays
<1>2. Slotted(q)'
  BY <1>1 DEF ToldAt, Slotted, NoBuffer
<1>3. pc'[q] # "done" => Untouched(q)'
  BY <1>1 DEF ToldAt, Untouched
<1>4. pc'[q] = "wait" => Told(q)'
  <2>1. ASSUME pc'[q] = "wait"
        PROVE  Told(q)'
    <3>1. Told(q) /\ prc_recv'[q] = prc_recv[q]
      BY <2>1 DEF ToldAt
    <3> QED
      BY <1>1, <3>1 DEF Told, ToldKnown, ToldUnknown, NoBuffer
  <2> QED
    BY <2>1
<1>5. pc'[q] = "wait" /\ call'.form = "SScatter" => InOrder(q)'
  BY DEF ToldAt, InOrder
<1> QED
  BY <1>2, <1>3, <1>4, <1>5 DEF ToldAt

LEMMA InitTold ==
    ASSUME Init
    PROVE  ToldInv /\ LaterInv
<1>1. ASSUME NEW p \in Proc
      PROVE  ToldAt(p)
  <2>1. pc[p] = "app" /\ recv_buf[p] = <<>> /\ Len(<<>>) = 0
    BY DEF Init
  <2>2. Untouched(p)
    BY DEF Init, Untouched, Given
  <2> QED
    BY <2>1, <2>2 DEF ToldAt, Slotted
<1> QED
  BY <1>1 DEF ToldInv, LaterInv, Init

\* In a scatter the root alone sends.
LEMMA ScatterSender ==
    ASSUME call \in Calls, call.form = "SScatter", NEW q, NEW m \in Outgoing(q)
    PROVE  q = call.root
BY DEF Outgoing, Sends

LEMMA PrepareTold ==
    ASSUME ListsInv, KeptInv, ToldInv, LaterInv, NEW p \in Proc, Prepare(p)
    PROVE  ToldInv' /\ LaterInv'
<1> DEFINE posted == IF Known THEN [i \in DOMAIN KnownSenders(p) |-> NoBuffer] ELSE <<>>
           list == IF Known THEN KnownSenders(p)
                   ELSE IF call.form = "SScatter" /\ p = call.root THEN prc_send(p) ELSE <<>>
<1>1. /\ call \in Calls /\ call' = call /\ tags' = tags /\ recv' = recv
      /\ pc[p] = "app" /\ pc' = [pc EXCEPT ![p] = "wait"] /\ flight' = flight \cup Outgoing(p)
      /\ recv_buf' = [recv_buf EXCEPT ![p] = posted] /\ prc_recv' = [prc_recv EXCEPT ![p] = list]
  BY DEF Prepare, ListsInv
<1>2. posted \in Seq({NoBuffer}) /\ Len(posted) \in Nat
      /\ (Known => Len(posted) = Len(KnownSenders(p))) /\ (~Known => posted = <<>>)
  <2>1. CASE Known
    <3>1. posted \in [1..Len(KnownSenders(p)) -> {NoBuffer}] /\ Len(KnownSenders(p)) \in Nat
      BY <1>1, <2>1, KnownSendersType
    <3> QED
      BY <2>1, <3>1, FunSeq
  <2>2. CASE ~Known
    BY <2>2
  <2> QED
    BY <2>1, <2>2
<1>3. \A l \in 1..Len(posted) : posted[l] = NoBuffer
  BY <1>2, ElementOfSeq
<1>4. Known => list = KnownSenders(p)
  OBVIOUS
<1> HIDE DEF posted, list
<1>5. /\ pc'[p] = "wait" /\ recv_buf'[p] = posted /\ prc_recv'[p] = list
      /\ \A q \in Proc : q # p => pc'[q] = pc[q] /\ recv_buf'[q] = recv_buf[q] /\ prc_recv'[q] = prc_recv[q]
      /\ tags[p] = <<>> /\ Len(<<>>) = 0
  BY <1>1 DEF ListsInv
<1>6. ASSUME NEW q \in Proc, q # p
      PROVE  ToldAt(q)'
  <2>1. ToldAt(q)
    BY DEF ToldInv
  <2> QED
    BY <1>1, <1>5, <1>6, <2>1, ToldStays
<1>7. ToldAt(p)'
  <2>1. Given(p)' = Given(p) /\ KnownSenders(p)' = KnownSenders(p) /\ Landing' = Landing /\ Known' = Known
    BY <1>1, CallStays
  <2>2. Untouched(p)'
    BY <1>1, <2>1 DEF ToldInv, ToldAt, Untouched
  <2>3. Slotted(p)'
    BY <1>3, <1>5 DEF Slotted, NoBuffer
  <2>4. Told(p)'
    <3>1. CASE Known
      <4>1. ToldKnown(p)'
        BY <1>1, <1>2, <1>3, <1>4, <1>5, <2>1, <3>1 DEF ToldKnown, NoBuffer
      <4> QED
        BY <2>1, <3>1, <4>1 DEF Told
    <3>2. CASE ~Known
      <4>1. recv_buf'[p] = <<>> /\ tags'[p] = <<>>
        BY <1>1, <1>2, <1>5, <3>2
      <4>2. ToldUnknown(p)'
        BY <1>5, <4>1 DEF ToldUnknown
      <4> QED
        BY <2>1, <3>2, <4>2 DEF Told
    <3> QED
      BY <3>1, <3>2
  <2>5. call.form = "SScatter" => InOrder(p)'
    <3>1. ASSUME call.form = "SScatter"
          PROVE  InOrder(p)'
      <4>1. ~Known
        BY <1>1, <3>1, CallType DEF AsDeclared, Known
      <4>2. recv_buf'[p] = <<>>
        BY <1>2, <1>5, <4>1
      <4> QED
        BY <1>5, <4>2 DEF InOrder
    <3> QED
      BY <3>1
  <2> QED
    BY <1>1, <2>2, <2>3, <2>4, <2>5 DEF ToldAt
<1>8. ASSUME call.form = "SScatter", NEW q \in Proc, pc'[q] = "wait", NEW m \in flight', m.dst = q,
             NEW l \in 1..Len(recv_buf'[q])
      PROVE  recv_buf'[q][l].tag < m.tag
  <2>1. ~Known
    BY <1>1, <1>8, CallType DEF AsDeclared, Known
  <2>2. q # p
    <3>1. posted = <<>>
      BY <1>2, <2>1
    <3> QED
      BY <1>5, <1>8, <3>1
  <2>3. pc[q] = "wait" /\ l \in 1..Len(recv_buf[q]) /\ recv_buf'[q][l] = recv_buf[q][l]
    BY <1>5, <1>8, <2>2
  <2>4. CASE m \in flight
    BY <1>8, <2>3, <2>4 DEF LaterInv, Later
  <2>5. CASE m \in Outgoing(p)
    <3>1. p = call.root
      BY <1>1, <1>8, <2>5, ScatterSender
    <3>2. recv_buf[q][l] # NoBuffer
      BY <2>1, <2>3 DEF ToldInv, ToldAt, Told, ToldUnknown
    <3>3. pc[recv_buf[q][l].src] # "app" /\ Stripped(recv_buf[q][l]) \in Outgoing(recv_buf[q][l].src)
      BY <2>3, <3>2 DEF KeptInv
    <3>4. recv_buf[q][l].src = call.root
      BY <1>1, <1>8, <3>3, ScatterSender
    <3> QED
      BY <1>1, <3>1, <3>3, <3>4
  <2> QED
    BY <1>1, <1>8, <2>4, <2>5
<1>9. ToldInv'
  BY <1>6, <1>7 DEF ToldInv
<1> QED
  BY <1>1, <1>8, <1>9 DEF LaterInv, Later

\* Two messages of one rank have different tags.
LEMMA TagsDiffer ==
    ASSUME call \in Calls, Known => call.layout # "inte", NEW q \in Proc, NEW m \in Outgoing(q), NEW o \in Outgoing(q),
           m.tag = o.tag
    PROVE  m = o
<1>1. PICK i \in 1..Len(Objects(q)), j \in 1..Parts : m = MessageOf(q, i, j)
  BY OutgoingOf
<1>2. PICK x \in 1..Len(Objects(q)), y \in 1..Parts : o = MessageOf(q, x, y)
  BY OutgoingOf
<1>3. Place(i, j) = Place(x, y)
  BY <1>1, <1>2 DEF MessageOf
<1>4. i \in Nat \ {0} /\ x \in Nat \ {0}
  BY ObjectsType
<1>5. i = x /\ j = y
  BY <1>3, <1>4, PlaceGrows
<1> QED
  BY <1>1, <1>2, <1>5

LEMMA AllocTold ==
    ASSUME ListsInv, KeptInv, ToldInv, LaterInv, Fitting(call), NEW p \in Proc, NEW m \in flight, msg_alloc(p, m)
    PROVE  ToldInv' /\ LaterInv'
<1> DEFINE b == [m EXCEPT !.at = Landing]
<1>1. /\ m.dst = p /\ call' = call /\ pc' = pc /\ flight' = flight \ {m} /\ pc[p] = "wait" /\ recv' = recv
      /\ recv_buf' = [recv_buf EXCEPT ![p] = Append(@, b)]
      /\ prc_recv' = [prc_recv EXCEPT ![p] = Append(@, m.src)]
      /\ tags' = [tags EXCEPT ![p] = Append(@, m.tag)] /\ ~Known /\ call \in Calls
      /\ \A o \in flight : o.dst = p /\ o.src = m.src => m.tag <= o.tag
  BY DEF msg_alloc, Next_from, Landing, ListsInv
<1>2. /\ m \in Messages /\ m.src \in Proc /\ m.tag \in Nat /\ b \in Messages /\ b # NoBuffer
      /\ b.tag = m.tag /\ b.src = m.src /\ b.at = Landing
  <2>1. PICK at \in {"wire", "host", "device"} : at = Landing
    BY DEF Landing
  <2>2. PICK c : c = [m EXCEPT !.at = at]
    OBVIOUS
  <2>3. m \in Messages /\ m.src \in Proc /\ m.tag \in Nat /\ c # NoBuffer
    BY <2>2, FlightType
  <2>4. c \in Messages /\ c.tag = m.tag /\ c.src = m.src /\ c.at = at
    BY <2>2, <2>3, StrippedType
  <2> QED
    BY <2>1, <2>2, <2>3, <2>4
<1> HIDE DEF b
<1>3. PICK s \in Seq(Messages \cup {NoBuffer}) : s = recv_buf[p]
  BY RecvBufType
<1>4. PICK n \in Nat : n = Len(s)
  BY LenProperties
<1>5. /\ Len(Append(s, b)) = n + 1 /\ \A l \in 1..n : Append(s, b)[l] = s[l]
      /\ Append(s, b)[n + 1] = b
  BY <1>2, <1>4, AppendProperties
<1>6. /\ recv_buf'[p] = Append(s, b)
      /\ \A q \in Proc : q # p => recv_buf'[q] = recv_buf[q] /\ tags'[q] = tags[q] /\ prc_recv'[q] = prc_recv[q]
  BY <1>1, <1>3 DEF ListsInv
<1>7. ASSUME NEW q \in Proc, q # p
      PROVE  ToldAt(q)'
  <2>1. ToldAt(q)
    BY DEF ToldInv
  <2> QED
    BY <1>1, <1>6, <1>7, <2>1, ToldStays
<1>8. /\ Slotted(p) /\ ToldUnknown(p) /\ Untouched(p) /\ (call.form = "SScatter" => InOrder(p))
  BY <1>1 DEF ToldInv, ToldAt, Told
<1>9. ToldAt(p)'
  <2>1. Given(p)' = Given(p) /\ Landing' = Landing /\ Known' = Known
    BY <1>1, CallStays
  <2>2. Untouched(p)'
    BY <1>1, <1>8, <2>1 DEF Untouched
  <2>3. ASSUME NEW l \in 1..(n + 1)
        PROVE  (l \in 1..n /\ Append(s, b)[l] = s[l]) \/ (l = n + 1 /\ Append(s, b)[l] = b)
    <3>1. l \in 1..n \/ l = n + 1
      OBVIOUS
    <3> QED
      BY <1>5, <3>1
  <2>4. Slotted(p)'
    <3>1. \A l \in 1..(n + 1) : recv_buf'[p][l] # NoBuffer => recv_buf'[p][l].at = Landing
      BY <1>2, <1>3, <1>4, <1>6, <1>8, <2>3 DEF Slotted
    <3> QED
      BY <1>5, <1>6, <2>1, <3>1 DEF Slotted, NoBuffer
  <2>5. ToldUnknown(p)'
    <3>1. PICK t \in Seq(Nat) : t = tags[p]
      BY DEF ListsInv
    <3>2. Len(t) = n /\ tags'[p] = Append(t, m.tag)
      BY <1>1, <1>3, <1>4, <1>8, <3>1 DEF ToldUnknown, ListsInv
    <3>3. Len(tags'[p]) = n + 1 /\ tags'[p][n + 1] = m.tag /\ \A l \in 1..n : tags'[p][l] = t[l]
      BY <1>2, <3>2, AppendProperties
    <3>4. ASSUME call.form # "SScatter"
          PROVE  prc_recv'[p][n + 1] = m.src /\ \A l \in 1..n : prc_recv'[p][l] = prc_recv[p][l]
      <4>1. PICK x \in Seq(Proc) : x = prc_recv[p]
        BY DEF ListsInv
      <4>2. Len(x) = n /\ prc_recv'[p] = Append(x, m.src)
        BY <1>1, <1>3, <1>4, <3>4, <4>1 DEF ListsInv
      <4> QED
        BY <1>2, <4>1, <4>2, AppendProperties
    <3>5. ASSUME NEW l \in 1..(n + 1)
          PROVE  /\ recv_buf'[p][l] # NoBuffer /\ tags'[p][l] = recv_buf'[p][l].tag
                 /\ call.form # "SScatter" => prc_recv'[p][l] = recv_buf'[p][l].src
      <4>1. CASE l \in 1..n
        <5>1. recv_buf'[p][l] = s[l] /\ tags'[p][l] = t[l]
          BY <1>5, <1>6, <3>3, <4>1
        <5>2. s[l] # NoBuffer /\ t[l] = s[l].tag /\ (call.form # "SScatter" => prc_recv[p][l] = s[l].src)
          BY <1>3, <1>4, <1>8, <3>1, <4>1 DEF ToldUnknown
        <5> QED
          BY <3>4, <4>1, <5>1, <5>2
      <4>2. CASE l = n + 1
        BY <1>2, <1>5, <1>6, <3>3, <3>4, <4>2
      <4> QED
        BY <2>3, <4>1, <4>2
    <3>6. Len(recv_buf'[p]) = n + 1 /\ Len(tags'[p]) = n + 1 /\ call' = call
      BY <1>1, <1>5, <1>6, <3>3
    <3>7. \A l \in 1..Len(recv_buf'[p]) :
             /\ recv_buf'[p][l] # NoBuffer /\ tags'[p][l] = recv_buf'[p][l].tag
             /\ call'.form # "SScatter" => prc_recv'[p][l] = recv_buf'[p][l].src
      BY <3>5, <3>6
    <3> QED
      BY <3>6, <3>7 DEF ToldUnknown, NoBuffer
  <2>6. Told(p)'
    BY <1>1, <2>1, <2>5 DEF Told
  <2>7. ASSUME call.form = "SScatter"
        PROVE  InOrder(p)'
    <3>1. ASSUME NEW l \in 1..(n + 1), NEW k \in 1..(n + 1), l < k
          PROVE  recv_buf'[p][l].tag < recv_buf'[p][k].tag
      <4>1. l \in 1..n /\ recv_buf'[p][l] = s[l]
        <5>1. l \in 1..n
          BY <3>1
        <5> QED
          BY <1>5, <1>6, <5>1
      <4>2. CASE k \in 1..n
        <5>1. recv_buf'[p][k] = s[k]
          BY <1>5, <1>6, <4>2
        <5> QED
          BY <1>3, <1>4, <1>8, <2>7, <3>1, <4>1, <4>2, <5>1 DEF InOrder
      <4>3. CASE k = n + 1
        <5>1. recv_buf'[p][k].tag = m.tag
          BY <1>2, <1>5, <1>6, <4>3
        <5>2. s[l].tag < m.tag
          BY <1>1, <1>3, <1>4, <2>7, <4>1 DEF LaterInv, Later
        <5> QED
          BY <4>1, <5>1, <5>2
      <4> QED
        BY <2>3, <4>2, <4>3
    <3> QED
      BY <1>5, <1>6, <3>1 DEF InOrder
  <2> QED
    BY <1>1, <2>2, <2>4, <2>6, <2>7 DEF ToldAt
<1>10. ASSUME call.form = "SScatter", NEW q \in Proc, pc[q] = "wait", NEW o \in flight', o.dst = q,
              NEW l \in 1..Len(recv_buf'[q])
       PROVE  recv_buf'[q][l].tag < o.tag
  <2>1. o \in flight /\ o # m
    BY <1>1
  <2>2. ASSUME NEW k \in 1..Len(recv_buf[q])
        PROVE  recv_buf[q][k].tag < o.tag
    BY <1>10, <2>1 DEF LaterInv, Later
  <2>3. CASE q # p
    BY <1>6, <2>2, <2>3
  <2>4. CASE q = p /\ l \in 1..n
    BY <1>3, <1>4, <1>5, <1>6, <2>2, <2>4
  <2>5. CASE q = p /\ l = n + 1
    <3>1. recv_buf'[q][l].tag = m.tag
      BY <1>2, <1>5, <1>6, <2>5
    <3>2. m \in Outgoing(m.src) /\ o \in Outgoing(o.src) /\ o.src \in Proc /\ o.tag \in Nat
      BY <2>1, FlightType DEF KeptInv
    <3>3. m.src = o.src
      BY <1>1, <1>10, <3>2, ScatterSender
    <3>4. m.tag # o.tag
      <4>1. PICK r \in Proc : r = m.src
        BY <1>2
      <4>2. m \in Outgoing(r) /\ o \in Outgoing(r)
        BY <3>2, <3>3, <4>1
      <4> QED
        BY <1>1, <2>1, <4>2, TagsDiffer
    <3>5. m.tag <= o.tag
      BY <1>1, <1>10, <2>1, <2>5, <3>3
    <3> QED
      BY <1>2, <3>1, <3>2, <3>4, <3>5
  <2>6. q = p => l \in 1..n \/ l = n + 1
    BY <1>4, <1>5, <1>6
  <2> QED
    BY <2>3, <2>4, <2>5, <2>6
<1>11. ToldInv'
  BY <1>7, <1>9 DEF ToldInv
<1> QED
  BY <1>1, <1>10, <1>11 DEF LaterInv, Later

LEMMA FillInTold ==
    ASSUME ListsInv, KeptInv, ToldInv, LaterInv, Fitting(call), NEW p \in Proc, NEW m \in flight, FillIn(p, m)
    PROVE  ToldInv' /\ LaterInv'
<1> DEFINE b == [m EXCEPT !.at = "host"]
<1>1. PICK i \in DOMAIN recv_buf[p] :
      /\ call' = call /\ pc' = pc /\ pc[p] = "wait" /\ recv_buf' = [recv_buf EXCEPT ![p][i] = b]
      /\ prc_recv' = prc_recv /\ tags' = tags /\ recv' = recv /\ prc_recv[p][i] = m.src /\ Known /\ call \in Calls
  BY DEF FillIn, Next_from, ListsInv
<1>2. b \in Messages /\ b.src = m.src /\ b.at = "host"
  BY FlightType, StrippedType
<1> HIDE DEF b
<1>3. Landing = "host"
  BY <1>1 DEF Landing, Fitting, Known
<1>4. call.form # "SScatter"
  BY <1>1, CallType DEF AsDeclared, Known
<1>5. PICK s \in Seq(Messages \cup {NoBuffer}) : s = recv_buf[p]
  BY RecvBufType
<1>6. i \in 1..Len(s) /\ Len(s) \in Nat
  BY <1>1, <1>5, LenProperties
<1>7. /\ Len([s EXCEPT ![i] = b]) = Len(s)
      /\ \A l \in 1..Len(s) : [s EXCEPT ![i] = b][l] = IF l = i THEN b ELSE s[l]
  BY <1>2, <1>6, ExceptSeq
<1>8. recv_buf'[p] = [s EXCEPT ![i] = b] /\ \A q \in Proc : q # p => recv_buf'[q] = recv_buf[q]
  BY <1>1, <1>5 DEF ListsInv
<1>9. Len(recv_buf'[p]) = Len(s) /\ \A l \in 1..Len(s) : recv_buf'[p][l] = IF l = i THEN b ELSE s[l]
  BY <1>7, <1>8
<1>10. ASSUME NEW q \in Proc, q # p
       PROVE  ToldAt(q)'
  <2>1. ToldAt(q)
    BY DEF ToldInv
  <2> QED
    BY <1>1, <1>8, <1>10, <2>1, ToldStays
<1>11. ToldAt(p)'
  <2>1. Given(p)' = Given(p) /\ Landing' = Landing /\ Known' = Known /\ KnownSenders(p)' = KnownSenders(p)
    BY <1>1, CallStays
  <2>2. Slotted(p) /\ ToldKnown(p) /\ Untouched(p)
    BY <1>1 DEF ToldInv, ToldAt, Told
  <2>3. Untouched(p)'
    BY <1>1, <2>1, <2>2 DEF Untouched
  <2>4. Slotted(p)'
    <3>1. \A l \in 1..Len(s) : recv_buf'[p][l] # NoBuffer => recv_buf'[p][l].at = Landing
      BY <1>2, <1>3, <1>5, <1>9, <2>2 DEF Slotted
    <3> QED
      BY <1>9, <2>1, <3>1 DEF Slotted, NoBuffer
  <2>5. ToldKnown(p)'
    <3>1. \A l \in 1..Len(s) : recv_buf'[p][l] # NoBuffer => prc_recv[p][l] = recv_buf'[p][l].src
      BY <1>1, <1>2, <1>5, <1>9, <2>2 DEF ToldKnown
    <3>2. tags'[p] = <<>> /\ prc_recv'[p] = KnownSenders(p) /\ Len(recv_buf'[p]) = Len(KnownSenders(p))
      BY <1>1, <1>5, <1>9, <2>2 DEF ToldKnown
    <3> QED
      BY <1>1, <1>9, <2>1, <3>1, <3>2 DEF ToldKnown, NoBuffer
  <2>6. Told(p)'
    BY <1>1, <2>1, <2>5 DEF Told
  <2> QED
    BY <1>1, <1>4, <2>3, <2>4, <2>6 DEF ToldAt
<1>12. ToldInv'
  BY <1>10, <1>11 DEF ToldInv
<1> QED
  BY <1>1, <1>4, <1>12 DEF LaterInv

----------------------------------------------------------------------------
(* The end of a call.                                                      *)

LEMMA ReadyAtEnd ==
    ASSUME ListsInv, KeptInv, ToldInv, NEW p \in Proc, Complete(p)
    PROVE  Ready(p)
<1>1. pc[p] = "wait" /\ Slotted(p) /\ Told(p) /\ call \in Calls
  BY DEF Complete, ToldInv, ToldAt, ListsInv
<1>2. CASE Known
  <2>1. \A l \in 1..Len(recv_buf[p]) : recv_buf[p][l] # NoBuffer
    BY <1>2, RecvBufType DEF Complete
  <2>2. /\ Len(recv_buf[p]) = Len(KnownSenders(p))
        /\ \A l \in 1..Len(recv_buf[p]) : recv_buf[p][l].src = KnownSenders(p)[l]
    BY <1>1, <1>2, <2>1 DEF Told, ToldKnown
  <2>3. ASSUME NEW l \in 1..Len(recv_buf[p])
        PROVE  \E m \in 1..Len(Arrivals(p)) : Arrivals(p)[m].src = recv_buf[p][l].src
    <3>1. KnownSenders(p)[l] \in {Arrivals(p)[m].src : m \in 1..Len(Arrivals(p))}
      BY <1>1, <2>2, KnownSendersType
    <3> QED
      BY <2>2, <3>1
  <2>4. ASSUME NEW m \in 1..Len(Arrivals(p))
        PROVE  \E l \in 1..Len(recv_buf[p]) : recv_buf[p][l].src = Arrivals(p)[m].src
    <3>1. PICK l \in 1..Len(KnownSenders(p)) : KnownSenders(p)[l] = Arrivals(p)[m].src
      BY <1>1, KnownSendersType
    <3> QED
      BY <2>2, <3>1
  <2> QED
    BY <1>1, <1>2, <2>1, <2>3, <2>4 DEF Ready, Slotted
<1>3. CASE ~Known
  <2>1. \A l \in 1..Len(recv_buf[p]) : recv_buf[p][l] # NoBuffer
    BY <1>1, <1>3 DEF Told, ToldUnknown
  <2> QED
    BY <1>1, <1>3, <2>1 DEF Complete, Ready, Slotted
<1> QED
  BY <1>2, <1>3

\* Sorted by processor and tag.
LEMMA SortedCollected ==
    ASSUME ListsInv, KeptInv, ToldInv, Fitting(call), NEW p \in Proc, Complete(p), call.form # "SScatter",
           NEW f, f = Sorting(p), NEW buf, buf = Sorted(f, recv_buf[p])
    PROVE  /\ Collected(p, buf) /\ Shuffles(f, Len(recv_buf[p])) /\ Len(prc_recv[p]) = Len(recv_buf[p])
           /\ Len(buf) = Len(recv_buf[p])
           /\ \A l \in 1..Len(buf) : Sorted(f, prc_recv[p])[l] = buf[l].src
<1>1. pc[p] = "wait" /\ Told(p) /\ call \in Calls /\ Ready(p)
  BY ReadyAtEnd DEF Complete, ToldInv, ToldAt, ListsInv
<1>2. PICK N \in Nat, s \in Seq(Messages \cup {NoBuffer}) : s = recv_buf[p] /\ N = Len(s)
  BY RecvBufType
<1>3. Shuffles(f, N) /\ SortedBy(f, N, Earlier(p, N))
  BY <1>1, <1>2, SortingShuffles
<1>4. buf \in Seq(Messages \cup {NoBuffer}) /\ Len(buf) = N /\ \A l \in 1..N : buf[l] = s[f[l]]
  <2>1. PICK S : S = Messages \cup {NoBuffer}
    OBVIOUS
  <2>2. s \in Seq(S) /\ N <= Len(s) /\ Shuffles(f, N) /\ buf = Sorted(f, s)
    BY <1>2, <1>3, <2>1
  <2>3. Sorted(f, s) \in Seq(S) /\ Len(Sorted(f, s)) = N /\ \A l \in 1..N : Sorted(f, s)[l] = s[f[l]]
    BY <2>2, SortedList
  <2> QED
    BY <2>1, <2>2, <2>3
<1>5. prc_recv[p] \in Seq(Proc) /\ Len(prc_recv[p]) = N
  BY <1>1, <1>2 DEF ListsInv
<1>6. \A l \in 1..N : Sorted(f, prc_recv[p])[l] = prc_recv[p][f[l]]
  BY <1>3, <1>5, SortedList
<1>7. \A l \in 1..N : f[l] \in 1..N
  BY <1>3 DEF Shuffles
<1>8. \A x \in 1..N : prc_recv[p][x] = s[x].src
  BY <1>1, <1>2 DEF Told, ToldKnown, ToldUnknown, Ready
<1>9. \A x \in 1..N : s[x].src \in Nat /\ s[x].tag \in Nat
  <2>1. \A x \in 1..N : s[x] \in Messages
    BY <1>1, <1>2, RecvBufType DEF Ready
  <2> QED
    BY <2>1, PackingAssumption DEF Messages
<1>10. \A x, y \in 1..N : s[x].src = s[y].src /\ s[x].tag = s[y].tag => x = y
  <2>1. ASSUME NEW x \in 1..N, NEW y \in 1..N, s[x].src = s[y].src, s[x].tag = s[y].tag
        PROVE  x = y
    <3>1. KeyOf(recv_buf[p][x]) = KeyOf(recv_buf[p][y])
      BY <1>2, <2>1 DEF KeyOf
    <3> QED
      BY <1>1, <1>2, <3>1, KeysDiffer
  <2> QED
    BY <2>1
<1>11. ASSUME NEW x \in 1..N, NEW y \in 1..N, x # y, <<x, y>> \in Earlier(p, N)
       PROVE  s[x].src < s[y].src \/ (s[x].src = s[y].src /\ s[x].tag < s[y].tag)
  <2>1. Before(Entry(p, x), Entry(p, y)) \/ ~Before(Entry(p, y), Entry(p, x))
    BY <1>11 DEF Earlier
  <2>2. CASE Known
    <3>1. tags[p] = <<>> /\ prc_recv[p] = KnownSenders(p) /\ Len(KnownSenders(p)) = N
      BY <1>1, <1>2, <2>2 DEF Told, ToldKnown
    <3>2. DOMAIN tags[p] = {}
      BY <3>1
    <3>3. Entry(p, x) = [proc |-> s[x].src, tag |-> 0] /\ Entry(p, y) = [proc |-> s[y].src, tag |-> 0]
      BY <1>8, <3>2 DEF Entry
    <3>4. s[x].src # s[y].src
      <4>1. KnownSenders(p)[x] = KnownSenders(p)[y] => x = y
        BY <1>1, <3>1, KnownSendersType
      <4>2. KnownSenders(p)[x] = s[x].src /\ KnownSenders(p)[y] = s[y].src
        BY <1>8, <3>1
      <4> QED
        BY <1>11, <4>1, <4>2
    <3> QED
      BY <1>9, <2>1, <3>3, <3>4 DEF Before
  <2>3. CASE ~Known
    <3>1. ToldUnknown(p)
      BY <1>1, <2>3 DEF Told
    <3>2. DOMAIN tags[p] = 1..N
      BY <1>2, <3>1, LenProperties DEF ToldUnknown, ListsInv
    <3>3. /\ Entry(p, x) = [proc |-> s[x].src, tag |-> s[x].tag]
          /\ Entry(p, y) = [proc |-> s[y].src, tag |-> s[y].tag]
      BY <1>2, <1>8, <3>1, <3>2 DEF Entry, ToldUnknown
    <3>4. ~(s[x].src = s[y].src /\ s[x].tag = s[y].tag)
      BY <1>10, <1>11
    <3> QED
      BY <1>9, <2>1, <3>3, <3>4 DEF Before
  <2> QED
    BY <2>2, <2>3
<1>12. ASSUME NEW i \in 1..N, NEW k \in 1..N, i < k
       PROVE  <<KeyOf(buf[i]), KeyOf(buf[k])>> \in KeyOrder
  <2>1. PICK x \in 1..N, y \in 1..N : x = f[i] /\ y = f[k]
    BY <1>7
  <2>2. <<x, y>> \in Earlier(p, N) /\ x # y
    BY <1>3, <1>12, <2>1 DEF SortedBy, Shuffles
  <2>3. s[x].src < s[y].src \/ (s[x].src = s[y].src /\ s[x].tag < s[y].tag)
    BY <1>11, <2>2
  <2>4. buf[i] = s[x] /\ buf[k] = s[y]
    BY <1>4, <2>1
  <2>5. PICK a \in Nat, b \in Nat : a = s[x].src /\ b = s[x].tag
    BY <1>9
  <2>6. PICK c \in Nat, d \in Nat : c = s[y].src /\ d = s[y].tag
    BY <1>9
  <2>7. KeyOf(buf[i]) = <<a, b>> /\ KeyOf(buf[k]) = <<c, d>>
    BY <2>4, <2>5, <2>6 DEF KeyOf
  <2>8. a < c \/ (a = c /\ b < d)
    BY <2>3, <2>5, <2>6
  <2>9. <<<<a, b>>, <<c, d>>>> \in KeyOrder
    BY <2>8, KeyOrderOf
  <2> QED
    BY <2>7, <2>9
<1>13. InKeyOrder(p, f, buf)
  BY <1>2, <1>3, <1>4, <1>12 DEF InKeyOrder
<1>14. Collected(p, buf)
  BY <1>1, <1>13, CollectedFrom
<1>15. \A l \in 1..N : Sorted(f, prc_recv[p])[l] = buf[l].src
  BY <1>4, <1>6, <1>7, <1>8
<1> QED
  BY <1>2, <1>3, <1>4, <1>5, <1>14, <1>15

\* As they came.
LEMMA ScatterCollected ==
    ASSUME ListsInv, KeptInv, ToldInv, Fitting(call), NEW p \in Proc, Complete(p), call.form = "SScatter"
    PROVE  Collected(p, recv_buf[p])
<1>1. Told(p) /\ InOrder(p) /\ call \in Calls /\ Ready(p)
  BY ReadyAtEnd DEF Complete, ToldInv, ToldAt, ListsInv
<1>2. PICK N \in Nat, s \in Seq(Messages \cup {NoBuffer}) : s = recv_buf[p] /\ N = Len(s)
  BY RecvBufType
<1>3. PICK f : f = [l \in 1..N |-> l]
  OBVIOUS
<1>4. Shuffles(f, N) /\ \A l \in 1..N : s[l] = s[f[l]]
  BY <1>3 DEF Shuffles
<1>5. ASSUME NEW x \in 1..N
      PROVE  s[x].src = call.root /\ s[x].src \in Nat /\ s[x].tag \in Nat
  <2>1. s[x] \in Messages /\ Stripped(s[x]) \in Outgoing(s[x].src)
    BY <1>1, <1>2, RecvBufType DEF Ready, KeptInv
  <2> QED
    BY <1>1, <2>1, ScatterSender, PackingAssumption DEF Messages
<1>6. ASSUME NEW i \in 1..N, NEW k \in 1..N, i < k
      PROVE  <<KeyOf(s[i]), KeyOf(s[k])>> \in KeyOrder
  <2>1. s[i].tag < s[k].tag /\ s[i].src = s[k].src
    BY <1>1, <1>2, <1>5, <1>6 DEF InOrder
  <2>2. PICK a \in Nat, b \in Nat : a = s[i].src /\ b = s[i].tag
    BY <1>5
  <2>3. PICK c \in Nat, d \in Nat : c = s[k].src /\ d = s[k].tag
    BY <1>5
  <2>4. KeyOf(s[i]) = <<a, b>> /\ KeyOf(s[k]) = <<c, d>>
    BY <2>2, <2>3 DEF KeyOf
  <2>5. <<<<a, b>>, <<c, d>>>> \in KeyOrder
    BY <2>1, <2>2, <2>3, KeyOrderOf, SMTT(30)
  <2> QED
    BY <2>4, <2>5
<1>7. InKeyOrder(p, f, s)
  BY <1>2, <1>4, <1>6 DEF InKeyOrder
<1> QED
  BY <1>1, <1>2, <1>7, CollectedFrom

LEMMA EndsTold ==
    ASSUME ListsInv, KeptInv, TypesInv, ToldInv, LaterInv, NEW p \in Proc,
           EndSSendRecv(p) \/ EndSGather(p) \/ EndSScatter(p)
    PROVE  ToldInv' /\ LaterInv'
<1>1. /\ call' = call /\ flight' = flight /\ tags' = tags /\ pc' = [pc EXCEPT ![p] = "done"] /\ pc[p] = "wait"
      /\ Complete(p) /\ pc'[p] = "done" /\ \A q \in Proc : q # p => pc'[q] = pc[q]
  BY DEF ListsInv, EndSSendRecv, EndSGather, EndSScatter, Complete, Finish
<1>2. \A q \in Proc : q # p => recv'[q] = recv[q] /\ recv_buf'[q] = recv_buf[q] /\ prc_recv'[q] = prc_recv[q]
  <2>1. \E x : recv' = [recv EXCEPT ![p] = x] \/ recv' = recv
    BY DEF EndSSendRecv, EndSGather, EndSScatter
  <2>2. \E x : prc_recv' = [prc_recv EXCEPT ![p] = x] \/ prc_recv' = prc_recv
    BY DEF EndSSendRecv, EndSGather, EndSScatter
  <2>3. \E x : recv_buf' = [recv_buf EXCEPT ![p] = x]
    BY DEF EndSSendRecv, EndSGather, EndSScatter, Finish
  <2>4. /\ DOMAIN recv = Proc /\ DOMAIN prc_recv = Proc /\ DOMAIN recv_buf = Proc
    BY DEF ListsInv, TypesInv
  <2> QED
    BY <2>1, <2>2, <2>3, <2>4
<1>3. ASSUME NEW q \in Proc, q # p
      PROVE  ToldAt(q)'
  <2>1. ToldAt(q)
    BY DEF ToldInv
  <2> QED
    BY <1>1, <1>2, <1>3, <2>1, ToldStays
<1>4. Slotted(p)'
  <2>1. PICK N \in Nat, s \in Seq(Messages \cup {NoBuffer}) : s = recv_buf[p] /\ N = Len(s)
    BY RecvBufType
  <2>2. \A l \in 1..N : s[l].at = Landing
    BY <1>1, <2>1, ReadyAtEnd DEF Ready
  <2>3. Landing' = Landing
    BY <1>1, CallStays
  <2>4. CASE call.form = "SScatter"
    <3>1. recv_buf' = [recv_buf EXCEPT ![p] = s]
      BY <2>1, <2>4 DEF EndSSendRecv, EndSGather, EndSScatter, Finish
    <3>2. recv_buf'[p] = s
      BY <3>1 DEF ListsInv
    <3> QED
      BY <2>1, <2>2, <2>3, <3>2 DEF Slotted
  <2>5. CASE call.form # "SScatter"
    <3>1. PICK f : f = Sorting(p) /\ Shuffles(f, N)
      BY <1>1, <2>1, <2>5, SortingShuffles
    <3>2. PICK buf : buf = Sorted(f, s)
      OBVIOUS
    <3>3. recv_buf' = [recv_buf EXCEPT ![p] = buf]
      BY <2>1, <2>5, <3>1, <3>2 DEF EndSSendRecv, EndSGather, EndSScatter, Finish
    <3>4. recv_buf'[p] = buf
      BY <3>3 DEF ListsInv
    <3>5. Len(buf) = N /\ \A l \in 1..N : buf[l] = s[f[l]]
      <4>1. PICK S : S = Messages \cup {NoBuffer}
        OBVIOUS
      <4>2. s \in Seq(S) /\ N <= Len(s) /\ Shuffles(f, N)
        BY <2>1, <3>1, <4>1
      <4>3. Len(Sorted(f, s)) = N /\ \A l \in 1..N : Sorted(f, s)[l] = s[f[l]]
        BY <4>2, SortedList
      <4> QED
        BY <3>2, <4>3
    <3>6. \A l \in 1..N : f[l] \in 1..N
      BY <3>1 DEF Shuffles
    <3> QED
      BY <2>1, <2>2, <2>3, <3>4, <3>5, <3>6 DEF Slotted
  <2> QED
    BY <2>4, <2>5
<1>5. ToldAt(p)'
  BY <1>1, <1>4 DEF ToldAt
<1>6. LaterInv'
  <2>1. ASSUME call.form = "SScatter", NEW q \in Proc, pc'[q] = "wait", NEW m \in flight, m.dst = q,
               NEW l \in 1..Len(recv_buf'[q])
        PROVE  recv_buf'[q][l].tag < m.tag
    <3>1. q # p /\ pc[q] = "wait" /\ recv_buf'[q] = recv_buf[q]
      BY <1>1, <1>2, <2>1
    <3> QED
      BY <2>1, <3>1 DEF LaterInv, Later
  <2> QED
    BY <1>1, <2>1 DEF LaterInv, Later
<1> QED
  BY <1>3, <1>5, <1>6 DEF ToldInv

----------------------------------------------------------------------------
(* What a rank that is done has, and what its lists tell.                  *)

OwnPart(p) == IF call.form = "SGather" /\ p = call.root THEN Own(p) ELSE <<>>
WholeAt(p) == recv[p][Home] = Empty(1) \o ExpectedRows(p) \o OwnPart(p)

FirstBytes(p, m) == packingRequest(Objects(Arrivals(p)[m].src)[Arrivals(p)[m].obj])[1]
TellsAt(p) ==
    /\ \A m \in 1..Len(Arrivals(p)) :
          /\ prc_recv[p][Place(m, 1)] = Arrivals(p)[m].src
          /\ sz_recv[p][Place(m, 1)] = Arrivals(p)[m].n
          /\ call.form = "SSendRecv" => sz_byte[p][Place(m, 1)] = FirstBytes(p, m)
    /\ call.form = "SGather" /\ p = call.root => Last(prc_recv[p]) = p /\ Last(sz_recv[p]) = Objects(p)[1].n
OverAt(p) == pc[p] = "done" => WholeAt(p) /\ (call.form # "SScatter" /\ call.op = "add" => TellsAt(p))
OverInv == \A p \in Proc : OverAt(p)

\* The root of a scatter keeps its lists.
Chunks(p) == [i \in DOMAIN Objects(p) |-> Objects(p)[i].n]
RootInv ==
    call.form = "SScatter" /\ pc[call.root] # "app" =>
        prc_recv[call.root] = prc_send(call.root) /\ sz_recv[call.root] = Chunks(call.root)

LEMMA OverStays ==
    ASSUME NEW q, OverAt(q), call' = call, pc'[q] = "done" => pc[q] = "done",
           pc[q] = "done" => recv'[q] = recv[q] /\ prc_recv'[q] = prc_recv[q]
                             /\ sz_recv'[q] = sz_recv[q] /\ sz_byte'[q] = sz_byte[q]
    PROVE  OverAt(q)'
<1>1. /\ ExpectedRows(q)' = ExpectedRows(q) /\ Home' = Home /\ Own(q)' = Own(q) /\ Arrivals(q)' = Arrivals(q)
      /\ Objects(q)' = Objects(q)
  BY CallStays
<1>2. OwnPart(q)' = OwnPart(q)
  BY <1>1 DEF OwnPart
<1>3. \A m : FirstBytes(q, m)' = FirstBytes(q, m)
  BY <1>1 DEF FirstBytes, packingRequest, Objects
<1>4. \A m : Place(m, 1)' = Place(m, 1)
  BY DEF Place, Parts
<1>5. pc'[q] = "done" => WholeAt(q)'
  BY <1>1, <1>2 DEF OverAt, WholeAt
<1>6. pc'[q] = "done" /\ call'.form # "SScatter" /\ call'.op = "add" => TellsAt(q)'
  BY <1>1, <1>3, <1>4 DEF OverAt, TellsAt
<1> QED
  BY <1>5, <1>6 DEF OverAt

LEMMA PrepareOver ==
    ASSUME ListsInv, TypesInv, OverInv, NEW p \in Proc, Prepare(p)
    PROVE  OverInv'
<1>1. /\ call' = call /\ pc[p] = "app" /\ pc' = [pc EXCEPT ![p] = "wait"] /\ recv' = recv /\ sz_byte' = sz_byte
      /\ \E x : prc_recv' = [prc_recv EXCEPT ![p] = x]
      /\ \E x : sz_recv' = [sz_recv EXCEPT ![p] = x]
      /\ call \in Calls
  BY DEF Prepare, ListsInv
<1>2. \A q \in Proc : q # p => pc'[q] = pc[q] /\ prc_recv'[q] = prc_recv[q] /\ sz_recv'[q] = sz_recv[q]
  BY <1>1 DEF ListsInv, TypesInv
<1>3. pc'[p] = "wait"
  BY <1>1 DEF ListsInv
<1>4. ASSUME NEW q \in Proc
      PROVE  OverAt(q)'
  <2>1. OverAt(q)
    BY DEF OverInv
  <2> QED
    BY <1>1, <1>2, <1>3, <2>1, OverStays
<1> QED
  BY <1>4 DEF OverInv

LEMMA PrepareRoot ==
    ASSUME ListsInv, TypesInv, RootInv, NEW p \in Proc, Prepare(p)
    PROVE  RootInv'
<1>1. /\ call' = call /\ pc[p] = "app" /\ pc' = [pc EXCEPT ![p] = "wait"]
      /\ \E x : prc_recv' = [prc_recv EXCEPT ![p] = x]
      /\ \E x : sz_recv' = [sz_recv EXCEPT ![p] = x]
      /\ call \in Calls
  BY DEF Prepare, ListsInv
<1>2. \A q \in Proc : q # p => pc'[q] = pc[q] /\ prc_recv'[q] = prc_recv[q] /\ sz_recv'[q] = sz_recv[q]
  BY <1>1 DEF ListsInv, TypesInv
<1>3. call.root \in Proc /\ (call.form = "SScatter" => ~Known)
  BY <1>1, CallType DEF AsDeclared, Known
<1>4. prc_send(call.root)' = prc_send(call.root) /\ Chunks(call.root)' = Chunks(call.root)
  BY <1>1 DEF prc_send, Chunks, Objects
<1>5. CASE call.root = p
  <2>1. call.form = "SScatter" => prc_recv'[p] = prc_send(p) /\ sz_recv'[p] = Chunks(p)
    BY <1>3, <1>5 DEF Prepare, Chunks, ListsInv, TypesInv
  <2> QED
    BY <1>1, <1>4, <1>5, <2>1 DEF RootInv
<1>6. CASE call.root # p
  BY <1>1, <1>2, <1>3, <1>4, <1>6 DEF RootInv
<1> QED
  BY <1>5, <1>6

LEMMA ReceiveOver ==
    ASSUME ListsInv, TypesInv, OverInv, NEW p \in Proc, NEW m \in flight, msg_alloc(p, m) \/ FillIn(p, m)
    PROVE  OverInv'
<1>1. call' = call /\ pc' = pc /\ pc[p] = "wait" /\ recv' = recv /\ sz_byte' = sz_byte
  BY DEF msg_alloc, FillIn, Next_from
<1>2. \E x : prc_recv' = [prc_recv EXCEPT ![p] = x] \/ prc_recv' = prc_recv
  BY DEF msg_alloc, FillIn
<1>3. \E x : sz_recv' = [sz_recv EXCEPT ![p] = x] \/ sz_recv' = sz_recv
  BY DEF msg_alloc, FillIn
<1>4. \A q \in Proc : q # p => prc_recv'[q] = prc_recv[q] /\ sz_recv'[q] = sz_recv[q]
  BY <1>2, <1>3 DEF ListsInv, TypesInv
<1>5. ASSUME NEW q \in Proc
      PROVE  OverAt(q)'
  <2>1. OverAt(q)
    BY DEF OverInv
  <2> QED
    BY <1>1, <1>4, <2>1, OverStays
<1> QED
  BY <1>5 DEF OverInv

\* A scatter has no message for its root.
LEMMA AllocRoot ==
    ASSUME ListsInv, KeptInv, TypesInv, RootInv, RootOnlySends(Calls), NEW p \in Proc, NEW m \in flight, msg_alloc(p, m) \/ FillIn(p, m)
    PROVE  RootInv'
<1>1. call' = call /\ pc' = pc /\ m.dst = p /\ call \in Calls /\ m \in Messages
  BY DEF msg_alloc, FillIn, Next_from, ListsInv
<1>2. prc_send(call.root)' = prc_send(call.root) /\ Chunks(call.root)' = Chunks(call.root)
  BY <1>1 DEF prc_send, Chunks, Objects
<1>3. ASSUME call.form = "SScatter"
      PROVE  p # call.root
  <2>1. ~Known
    BY <1>1, <1>3, CallType DEF AsDeclared, Known
  <2>2. m.src \in Proc /\ m \in Outgoing(m.src)
    BY <1>1 DEF KeptInv, Messages
  <2>3. PICK q \in Proc : q = m.src
    BY <2>2
  <2>4. q = call.root
    BY <1>1, <1>3, <2>2, <2>3, ScatterSender
  <2>5. \E i \in 1..Len(Objects(q)), j \in 1..Parts : m = MessageOf(q, i, j)
    BY <1>1, <2>1, <2>2, <2>3, OutgoingOf
  <2>6. PICK i \in 1..Len(Objects(q)), j \in 1..Parts : m = MessageOf(q, i, j)
    BY <2>5
  <2>7. m.dst = Objects(q)[i].dst /\ i \in DOMAIN Objects(q)
    BY <1>1, <2>6, ObjectsType DEF MessageOf
  <2>8. Objects(q)[i].dst # call.root
    BY <1>1, <1>3, <2>4, <2>7 DEF RootOnlySends, Objects
  <2> QED
    BY <1>1, <2>7, <2>8
<1>4. call.root \in Proc
  BY <1>1, CallType
<1>5. p # call.root => prc_recv'[call.root] = prc_recv[call.root] /\ sz_recv'[call.root] = sz_recv[call.root]
  <2>1. \E x : prc_recv' = [prc_recv EXCEPT ![p] = x] \/ prc_recv' = prc_recv
    BY DEF msg_alloc, FillIn
  <2>2. \E x : sz_recv' = [sz_recv EXCEPT ![p] = x] \/ sz_recv' = sz_recv
    BY DEF msg_alloc, FillIn
  <2> QED
    BY <1>4, <2>1, <2>2 DEF ListsInv, TypesInv
<1> QED
  BY <1>1, <1>2, <1>3, <1>5 DEF RootInv

----------------------------------------------------------------------------
(* The step that ends a call.                                              *)

LEMMA LoopWhole ==
    ASSUME SomeProperty(Calls), ListsInv, TypesInv, ToldInv, Fitting(call), NEW p \in Proc, pc[p] = "wait",
           NEW buf, Collected(p, buf), NEW sz \in Seq(Nat)
    PROVE  /\ Laid(p, buf) /\ process(p, buf, sz) \in Carried(Len(buf))
           /\ process(p, buf, sz).recv[Home] = Empty(1) \o ExpectedRows(p)
           /\ call.op = "add" => \A l \in 1..Len(Arrivals(p)) : Noted(p, process(p, buf, sz), l)
<1>1. call \in Calls /\ Untouched(p) /\ sz_byte[p] \in Seq(Nat) /\ (Known => call.layout # "inte")
  BY DEF ListsInv, TypesInv, ToldInv, ToldAt, Fitting, Known
<1>2. Laid(p, buf)
  BY <1>1, CollectedLaid
<1> QED
  BY <1>1, <1>2, ProcessWhole

\* Frame of the steps: what the others have, and what of the call is the same.
LEMMA EndsOthers ==
    ASSUME ListsInv, TypesInv, OverInv, NEW p \in Proc, EndSSendRecv(p) \/ EndSGather(p) \/ EndSScatter(p)
    PROVE  \A q \in Proc : q # p => OverAt(q)'
<1>1. call' = call /\ pc' = [pc EXCEPT ![p] = "done"]
  BY DEF EndSSendRecv, EndSGather, EndSScatter, Finish
<1>2. \E x : recv' = [recv EXCEPT ![p] = x] \/ recv' = recv
  BY DEF EndSSendRecv, EndSGather, EndSScatter
<1>3. \E x : prc_recv' = [prc_recv EXCEPT ![p] = x] \/ prc_recv' = prc_recv
  BY DEF EndSSendRecv, EndSGather, EndSScatter
<1>4. \E x : sz_recv' = [sz_recv EXCEPT ![p] = x] \/ sz_recv' = sz_recv
  BY DEF EndSSendRecv, EndSGather, EndSScatter
<1>5. \E x : sz_byte' = [sz_byte EXCEPT ![p] = x] \/ sz_byte' = sz_byte
  BY DEF EndSSendRecv, EndSGather, EndSScatter
<1>6. \A q \in Proc : q # p => /\ pc'[q] = pc[q] /\ recv'[q] = recv[q] /\ prc_recv'[q] = prc_recv[q]
                               /\ sz_recv'[q] = sz_recv[q] /\ sz_byte'[q] = sz_byte[q]
  BY <1>1, <1>2, <1>3, <1>4, <1>5 DEF ListsInv, TypesInv
<1>7. ASSUME NEW q \in Proc, q # p
      PROVE  OverAt(q)'
  <2>1. OverAt(q)
    BY DEF OverInv
  <2> QED
    BY <1>1, <1>6, <1>7, <2>1, OverStays
<1> QED
  BY <1>7

\* A step that ends the call of rank p leaves it this recv and these lists.
Leaves(p, r, prc, sz, byte) ==
    /\ r[Home] = Empty(1) \o ExpectedRows(p) \o OwnPart(p)
    /\ call.form # "SScatter" /\ call.op = "add" =>
          /\ \A m \in 1..Len(Arrivals(p)) :
                /\ prc[Place(m, 1)] = Arrivals(p)[m].src /\ sz[Place(m, 1)] = Arrivals(p)[m].n
                /\ call.form = "SSendRecv" => byte[Place(m, 1)] = FirstBytes(p, m)
          /\ call.form = "SGather" /\ p = call.root => Last(prc) = p /\ Last(sz) = Objects(p)[1].n

LEMMA LeavesOver ==
    ASSUME NEW p \in Proc, call' = call, Leaves(p, recv'[p], prc_recv'[p], sz_recv'[p], sz_byte'[p])
    PROVE  OverAt(p)'
<1>1. /\ ExpectedRows(p)' = ExpectedRows(p) /\ Home' = Home /\ Own(p)' = Own(p) /\ Arrivals(p)' = Arrivals(p)
      /\ Objects(p)' = Objects(p)
  BY CallStays
<1>2. OwnPart(p)' = OwnPart(p)
  BY <1>1 DEF OwnPart
<1>3. \A m : FirstBytes(p, m)' = FirstBytes(p, m)
  BY <1>1 DEF FirstBytes, packingRequest, Objects
<1>4. \A m : Place(m, 1)' = Place(m, 1)
  BY DEF Place, Parts
<1>5. WholeAt(p)'
  BY <1>1, <1>2 DEF Leaves, WholeAt
<1>6. call'.form # "SScatter" /\ call'.op = "add" => TellsAt(p)'
  BY <1>1, <1>3, <1>4 DEF Leaves, TellsAt
<1> QED
  BY <1>5, <1>6 DEF OverAt

LEMMA SendRecvOver ==
    ASSUME SomeProperty(Calls), ListsInv, KeptInv, TypesInv, ToldInv, Fitting(call), NEW p \in Proc, EndSSendRecv(p)
    PROVE  OverAt(p)'
<1>1. call.form = "SSendRecv" /\ Complete(p) /\ pc[p] = "wait" /\ call \in Calls /\ call' = call
  BY DEF EndSSendRecv, Finish, Complete, ListsInv
<1>2. PICK f : f = Sorting(p)
  OBVIOUS
<1>3. PICK buf : buf = Sorted(f, recv_buf[p])
  OBVIOUS
<1>4. PICK prc : prc = Sorted(f, prc_recv[p])
  OBVIOUS
<1>5. /\ Collected(p, buf) /\ Len(buf) \in Nat
      /\ \A l \in 1..Len(buf) : prc[l] = buf[l].src
  <2>1. Collected(p, buf) /\ \A l \in 1..Len(buf) : Sorted(f, prc_recv[p])[l] = buf[l].src
    BY <1>1, <1>2, <1>3, SortedCollected
  <2> QED
    BY <1>4, <2>1, LenProperties DEF Collected
<1>6. PICK sz \in Seq(Nat) : sz = sz_recv[p]
  BY DEF TypesInv
<1>7. PICK s : s = process(p, buf, sz)
  OBVIOUS
<1>8. /\ Laid(p, buf) /\ s \in Carried(Len(buf)) /\ s.recv[Home] = Empty(1) \o ExpectedRows(p)
      /\ call.op = "add" => \A l \in 1..Len(Arrivals(p)) : Noted(p, s, l)
  BY <1>1, <1>5, <1>7, LoopWhole
<1>9. /\ recv' = [recv EXCEPT ![p] = s.recv] /\ prc_recv' = [prc_recv EXCEPT ![p] = prc]
      /\ call.op = "add" => sz_recv' = [sz_recv EXCEPT ![p] = s.sz] /\ sz_byte' = [sz_byte EXCEPT ![p] = s.byte]
  BY <1>2, <1>3, <1>4, <1>6, <1>7 DEF EndSSendRecv
<1>10. /\ recv'[p] = s.recv /\ prc_recv'[p] = prc
       /\ call.op = "add" => sz_recv'[p] = s.sz /\ sz_byte'[p] = s.byte
  BY <1>9 DEF ListsInv, TypesInv
<1>11. s.recv[Home] = Empty(1) \o ExpectedRows(p) \o OwnPart(p)
  <2>1. PICK v \in Rows : v = s.recv[Home]
    <3>1. s.recv \in [host : Rows, device : Rows]
      BY <1>8 DEF Carried, Recvs
    <3> QED
      BY <3>1 DEF Home
  <2>2. v \o <<>> = v
    BY <2>1 DEF Rows
  <2>3. OwnPart(p) = <<>>
    BY <1>1 DEF OwnPart
  <2> QED
    BY <1>8, <2>1, <2>2, <2>3
<1>12. ASSUME call.op = "add", NEW m \in 1..Len(Arrivals(p))
       PROVE  /\ prc[Place(m, 1)] = Arrivals(p)[m].src /\ s.sz[Place(m, 1)] = Arrivals(p)[m].n
              /\ s.byte[Place(m, 1)] = FirstBytes(p, m)
  <2>1. Noted(p, s, m)
    BY <1>8, <1>12
  <2>2. 1 \in 1..Parts
    BY PartsType
  <2>3. Place(m, 1) \in 1..Len(buf) /\ IsPart(buf[Place(m, 1)], Arrivals(p)[m], 1)
    BY <1>1, <1>8, <2>2, LaidPart
  <2>4. buf[Place(m, 1)].src = Arrivals(p)[m].src
    BY <2>3 DEF IsPart
  <2> QED
    BY <1>5, <2>1, <2>3, <2>4 DEF Noted, FirstBytes
<1>13. Leaves(p, recv'[p], prc_recv'[p], sz_recv'[p], sz_byte'[p])
  BY <1>1, <1>10, <1>11, <1>12 DEF Leaves
<1> QED
  BY <1>1, <1>13, LeavesOver

LEMMA ScatterOver ==
    ASSUME SomeProperty(Calls), ListsInv, KeptInv, TypesInv, ToldInv, Fitting(call), NEW p \in Proc, EndSScatter(p)
    PROVE  OverAt(p)'
<1>1. call.form = "SScatter" /\ Complete(p) /\ pc[p] = "wait" /\ call \in Calls /\ call' = call
  BY DEF EndSScatter, Finish, Complete, ListsInv
<1>2. PICK buf : buf = recv_buf[p]
  OBVIOUS
<1>3. Collected(p, buf)
  BY <1>1, <1>2, ScatterCollected
<1>4. PICK sz \in Seq(Nat) : sz = <<>>
  <2>1. <<>> \in Seq(Nat)
    OBVIOUS
  <2> QED
    BY <2>1
<1>5. PICK s : s = process(p, buf, sz)
  OBVIOUS
<1>6. s \in Carried(Len(buf)) /\ s.recv[Home] = Empty(1) \o ExpectedRows(p)
  BY <1>1, <1>3, <1>5, LoopWhole
<1>7. recv' = [recv EXCEPT ![p] = s.recv]
  BY <1>2, <1>4, <1>5 DEF EndSScatter
<1>8. recv'[p] = s.recv
  BY <1>7 DEF TypesInv
<1>9. s.recv[Home] = Empty(1) \o ExpectedRows(p) \o OwnPart(p)
  <2>1. PICK v \in Rows : v = s.recv[Home]
    <3>1. s.recv \in [host : Rows, device : Rows]
      BY <1>6 DEF Carried, Recvs
    <3> QED
      BY <3>1 DEF Home
  <2>2. v \o <<>> = v
    BY <2>1 DEF Rows
  <2>3. OwnPart(p) = <<>>
    BY <1>1 DEF OwnPart
  <2> QED
    BY <1>6, <2>1, <2>2, <2>3
<1>10. Leaves(p, recv'[p], prc_recv'[p], sz_recv'[p], sz_byte'[p])
  BY <1>1, <1>8, <1>9 DEF Leaves
<1> QED
  BY <1>1, <1>10, LeavesOver

\* Nothing arrives at a rank that is not the root of a gather.
LEMMA NoArrivals ==
    ASSUME call \in Calls, call.form = "SGather", NEW p \in Proc, p # call.root
    PROVE  Len(Arrivals(p)) = 0 /\ ExpectedRows(p) = <<>>
<1>1. PICK n \in Nat : n = Len(Arrivals(p))
  BY ArrivalsType
<1>2. n = 0
  <2>1. ASSUME NEW m \in 1..n
        PROVE  FALSE
    <3>1. Arrivals(p)[m].src \in Senders(p)
      BY <1>1, ArrivalOfRank
    <3> QED
      BY <3>1 DEF Senders
  <2> QED
    BY <2>1
<1>3. PICK E : E = ExpectedRows(p)
  OBVIOUS
<1>4. PICK o : Expects(p, E, o)
  BY <1>3, ExpectedExists
<1>5. E \in Rows /\ Len(E) = 0
  BY <1>1, <1>2, <1>4 DEF Expects
<1> QED
  BY <1>1, <1>2, <1>3, <1>5 DEF Rows

\* What the root of a gather adds.
LEMMA OwnAdded ==
    ASSUME call \in Calls, call.form = "SGather", NEW p \in Proc, NEW r \in Recvs
    PROVE  add_prp(r, Own(p))[Home] = r[Home] \o Own(p) /\ Len(Own(p)) = Objects(p)[1].n
<1>1. call.prps = [j \in Props |-> j] /\ Home = "host" /\ Len(Objects(p)) = 1
  BY CallType DEF AsDeclared, Home, Objects
<1>2. \A j \in Props : Merged(j)
  <2>1. ToSet(call.prps) = Props
    BY <1>1 DEF ToSet
  <2> QED
    BY <2>1 DEF Merged
<1>3. PICK n \in Nat : n = Objects(p)[1].n
  BY <1>1, ObjectsType
<1>4. Own(p) = [k \in 1..n |-> [j \in Props |-> {[src |-> p, obj |-> 1, k |-> k, prp |-> j]}]]
  BY <1>3 DEF Own
<1>5. Picked(Own(p)) = Own(p)
  BY <1>2, <1>4 DEF Picked
<1>6. Len(Own(p)) = n
  BY <1>4
<1> QED
  BY <1>1, <1>3, <1>5, <1>6 DEF add_prp

LEMMA GatherOver ==
    ASSUME SomeProperty(Calls), ListsInv, KeptInv, TypesInv, ToldInv, Fitting(call), NEW p \in Proc, EndSGather(p)
    PROVE  OverAt(p)'
<1>1. call.form = "SGather" /\ Complete(p) /\ pc[p] = "wait" /\ call \in Calls /\ call' = call
  BY DEF EndSGather, Finish, Complete, ListsInv
<1>2. call.op = "add" /\ Home = "host"
  BY <1>1, CallType DEF AsDeclared, Home
<1>3. CASE p # call.root
  <2>1. recv' = recv
    BY <1>3 DEF EndSGather
  <2>2. recv[p][Home] = Empty(1)
    <3>1. Untouched(p)
      BY <1>1 DEF ToldInv, ToldAt
    <3> QED
      BY <1>2, <3>1 DEF Untouched, Given
  <2>3. Len(Arrivals(p)) = 0 /\ ExpectedRows(p) = <<>> /\ OwnPart(p) = <<>>
    BY <1>1, <1>3, NoArrivals DEF OwnPart
  <2>4. Empty(1) \o <<>> \o <<>> = Empty(1)
    <3>1. PICK v \in Rows : v = Empty(1)
      BY EmptyRows
    <3>2. v \o <<>> = v
      BY <3>1 DEF Rows
    <3> QED
      BY <3>1, <3>2
  <2>5. recv'[p][Home] = Empty(1) \o ExpectedRows(p) \o OwnPart(p)
    BY <2>1, <2>2, <2>3, <2>4
  <2>6. Leaves(p, recv'[p], prc_recv'[p], sz_recv'[p], sz_byte'[p])
    BY <1>3, <2>3, <2>5 DEF Leaves
  <2> QED
    BY <1>1, <2>6, LeavesOver
<1>4. CASE p = call.root
  <2>1. PICK f : f = Sorting(p)
    OBVIOUS
  <2>2. PICK buf : buf = Sorted(f, recv_buf[p])
    OBVIOUS
  <2>3. PICK prc : prc = Sorted(f, prc_recv[p])
    OBVIOUS
  <2>4. PICK N \in Nat : N = Len(recv_buf[p])
    BY RecvBufType
  <2>5. /\ Collected(p, buf) /\ Shuffles(f, N) /\ Len(prc_recv[p]) = N /\ Len(buf) = N
        /\ \A l \in 1..N : prc[l] = buf[l].src
    <3>1. /\ Collected(p, buf) /\ Shuffles(f, Len(recv_buf[p])) /\ Len(prc_recv[p]) = Len(recv_buf[p])
          /\ Len(buf) = Len(recv_buf[p])
          /\ \A l \in 1..Len(buf) : Sorted(f, prc_recv[p])[l] = buf[l].src
      BY <1>1, <2>1, <2>2, SortedCollected
    <3> QED
      BY <2>3, <2>4, <3>1
  <2>6. prc \in Seq(Proc) /\ Len(prc) = N
    <3>1. prc_recv[p] \in Seq(Proc) /\ N <= Len(prc_recv[p])
      BY <2>4, <2>5 DEF ListsInv
    <3>2. Sorted(f, prc_recv[p]) \in Seq(Proc) /\ Len(Sorted(f, prc_recv[p])) = N
      BY <2>5, <3>1, SortedList
    <3> QED
      BY <2>3, <3>2
  <2>7. PICK sz \in Seq(Nat) : sz = Sorted(f, sz_recv[p])
    <3>1. sz_recv[p] \in Seq(Nat) /\ N <= Len(sz_recv[p])
      BY <1>1, <2>4 DEF TypesInv
    <3>2. Sorted(f, sz_recv[p]) \in Seq(Nat)
      BY <2>5, <3>1, SortedList
    <3> QED
      BY <3>2
  <2>8. PICK s : s = process(p, buf, sz)
    OBVIOUS
  <2>9. /\ Laid(p, buf) /\ s \in Carried(Len(buf)) /\ s.recv[Home] = Empty(1) \o ExpectedRows(p)
        /\ \A l \in 1..Len(Arrivals(p)) : Noted(p, s, l)
    BY <1>1, <1>2, <2>5, <2>8, LoopWhole
  <2>10. s.recv \in Recvs /\ s.sz \in Seq(Nat) /\ Len(s.sz) = N
    BY <2>5, <2>9 DEF Carried
  <2>11. PICK n : n = Len(Own(p))
    OBVIOUS
  <2>12. PICK r : r = add_prp(s.recv, Own(p))
    OBVIOUS
  <2>13. r[Home] = Empty(1) \o ExpectedRows(p) \o Own(p) /\ n = Objects(p)[1].n
    <3>1. add_prp(s.recv, Own(p))[Home] = s.recv[Home] \o Own(p) /\ Len(Own(p)) = Objects(p)[1].n
      BY <1>1, <2>10, OwnAdded
    <3> QED
      BY <2>9, <2>11, <2>12, <3>1
  <2>14. /\ recv' = [recv EXCEPT ![p] = r] /\ prc_recv' = [prc_recv EXCEPT ![p] = Append(prc, p)]
         /\ sz_recv' = [sz_recv EXCEPT ![p] = Append(s.sz, n)]
    BY <1>4, <2>1, <2>2, <2>3, <2>7, <2>8, <2>11, <2>12 DEF EndSGather
  <2>15. recv'[p] = r /\ prc_recv'[p] = Append(prc, p) /\ sz_recv'[p] = Append(s.sz, n)
    BY <2>14 DEF ListsInv, TypesInv
  <2>16. n \in Nat
    <3>1. 1 \in 1..Len(Objects(p))
      BY <1>1, CallType DEF AsDeclared, Objects
    <3> QED
      BY <1>1, <2>13, <3>1, ObjectsType
  <2>17. /\ \A l \in 1..N : Append(prc, p)[l] = prc[l] /\ Append(s.sz, n)[l] = s.sz[l]
         /\ Last(Append(prc, p)) = p /\ Last(Append(s.sz, n)) = n
    BY <2>6, <2>10, <2>16 DEF Last
  <2>18. ASSUME NEW m \in 1..Len(Arrivals(p))
         PROVE  /\ Append(prc, p)[Place(m, 1)] = Arrivals(p)[m].src
                /\ Append(s.sz, n)[Place(m, 1)] = Arrivals(p)[m].n
    <3>1. Noted(p, s, m)
      BY <2>9
    <3>2. 1 \in 1..Parts
      BY PartsType
    <3>3. Place(m, 1) \in 1..N /\ IsPart(buf[Place(m, 1)], Arrivals(p)[m], 1)
      BY <1>1, <2>5, <2>9, <3>2, LaidPart
    <3>4. buf[Place(m, 1)].src = Arrivals(p)[m].src
      BY <3>3 DEF IsPart
    <3>5. s.sz[Place(m, 1)] = Arrivals(p)[m].n
      BY <3>1 DEF Noted
    <3> QED
      BY <2>5, <2>17, <3>3, <3>4, <3>5
  <2>19. OwnPart(p) = Own(p)
    BY <1>1, <1>4 DEF OwnPart
  <2>20. Leaves(p, recv'[p], prc_recv'[p], sz_recv'[p], sz_byte'[p])
    BY <1>1, <2>13, <2>15, <2>17, <2>18, <2>19 DEF Leaves
  <2> QED
    BY <1>1, <2>20, LeavesOver
<1> QED
  BY <1>3, <1>4

\* The root of a scatter has its lists as it gave them.
LEMMA EndsRoot ==
    ASSUME ListsInv, RootInv, NEW p \in Proc, EndSSendRecv(p) \/ EndSGather(p) \/ EndSScatter(p)
    PROVE  RootInv'
<1>1. call' = call /\ pc' = [pc EXCEPT ![p] = "done"] /\ pc[p] = "wait" /\ call \in Calls
  BY DEF EndSSendRecv, EndSGather, EndSScatter, Finish, Complete, ListsInv
<1>2. call.form = "SScatter" => prc_recv' = prc_recv /\ sz_recv' = sz_recv
  BY DEF EndSSendRecv, EndSGather, EndSScatter
<1>3. prc_send(call.root)' = prc_send(call.root) /\ Chunks(call.root)' = Chunks(call.root)
  BY <1>1 DEF prc_send, Chunks, Objects
<1>4. pc'[call.root] # "app" => pc[call.root] # "app"
  BY <1>1 DEF ListsInv
<1> QED
  BY <1>1, <1>2, <1>3, <1>4 DEF RootInv

----------------------------------------------------------------------------
(* Every element arrives, and the lists tell of it.                        *)

\* What has arrived and what the lists say of it, at every moment of a call.
WholeInv == ToldInv /\ LaterInv /\ OverInv

LEMMA WholeStep ==
    ASSUME SomeProperty(Calls), AllFit(Calls), ListsInv, KeptInv, TypesInv, WholeInv, [Next]_vars
    PROVE  WholeInv'
<1>1. Fitting(call)
  BY DEF ListsInv, AllFit
<1>2. ToldInv /\ LaterInv /\ OverInv
  BY DEF WholeInv
<1>3. CASE \E p \in Proc : Prepare(p)
  <2>1. PICK p \in Proc : Prepare(p)
    BY <1>3
  <2>2. ToldInv' /\ LaterInv'
    BY <1>2, <2>1, PrepareTold
  <2>3. OverInv'
    BY <1>2, <2>1, PrepareOver
  <2> QED
    BY <2>2, <2>3 DEF WholeInv
<1>4. CASE \E p \in Proc : \E m \in flight : msg_alloc(p, m) \/ FillIn(p, m)
  <2>1. PICK p \in Proc : \E m \in flight : msg_alloc(p, m) \/ FillIn(p, m)
    BY <1>4
  <2>2. PICK m \in flight : msg_alloc(p, m) \/ FillIn(p, m)
    BY <2>1
  <2>3. ToldInv' /\ LaterInv'
    BY <1>1, <1>2, <2>2, AllocTold, FillInTold
  <2>4. OverInv'
    BY <1>2, <2>2, ReceiveOver
  <2> QED
    BY <2>3, <2>4 DEF WholeInv
<1>5. CASE \E p \in Proc : EndSSendRecv(p) \/ EndSGather(p) \/ EndSScatter(p)
  <2>1. PICK p \in Proc : EndSSendRecv(p) \/ EndSGather(p) \/ EndSScatter(p)
    BY <1>5
  <2>2. ToldInv' /\ LaterInv'
    BY <1>2, <2>1, EndsTold
  <2>3. \A q \in Proc : q # p => OverAt(q)'
    BY <1>2, <2>1, EndsOthers
  <2>4. OverAt(p)'
    BY <1>1, <1>2, <2>1, SendRecvOver, GatherOver, ScatterOver
  <2> QED
    BY <2>2, <2>3, <2>4 DEF WholeInv, OverInv
<1>6. CASE UNCHANGED vars
  <2>1. call' = call /\ flight' = flight /\ pc' = pc /\ recv' = recv /\ recv_buf' = recv_buf /\ tags' = tags
        /\ prc_recv' = prc_recv /\ sz_recv' = sz_recv /\ sz_byte' = sz_byte
    BY <1>6 DEF vars
  <2>2. ASSUME NEW q \in Proc
        PROVE  ToldAt(q)' /\ OverAt(q)'
    <3>1. ToldAt(q) /\ OverAt(q)
      BY <1>2 DEF ToldInv, OverInv
    <3>2. ToldAt(q)'
      BY <2>1, <3>1, ToldStays
    <3>3. OverAt(q)'
      BY <2>1, <3>1, OverStays
    <3> QED
      BY <3>2, <3>3
  <2>3. LaterInv'
    BY <1>2, <2>1 DEF LaterInv, Later
  <2> QED
    BY <2>2, <2>3 DEF WholeInv, ToldInv, OverInv
<1> QED
  BY <1>3, <1>4, <1>5, <1>6 DEF Next, Done

LEMMA RootStep ==
    ASSUME RootOnlySends(Calls), ListsInv, KeptInv, TypesInv, RootInv, [Next]_vars
    PROVE  RootInv'
<1>1. CASE \E p \in Proc : Prepare(p)
  BY <1>1, PrepareRoot
<1>2. CASE \E p \in Proc : \E m \in flight : msg_alloc(p, m) \/ FillIn(p, m)
  BY <1>2, AllocRoot
<1>3. CASE \E p \in Proc : EndSSendRecv(p) \/ EndSGather(p) \/ EndSScatter(p)
  BY <1>3, EndsRoot
<1>4. CASE UNCHANGED vars
  BY <1>4 DEF vars, RootInv, prc_send, Chunks, Objects
<1> QED
  BY <1>1, <1>2, <1>3, <1>4 DEF Next, Done

\* Every element of every object addressed to a rank is in its recv, once,
\* with the properties asked for, in order of its sender and in the memory
\* where the application keeps it, when the call is over: for every number of
\* ranks, properties and objects, whatever their sizes and the order of the
\* messages, if the template arguments of the calls fit each other.
THEOREM ObjectsArriveWhole ==
    ASSUME SomeProperty(Calls), AllFit(Calls)
    PROVE  Spec => []ObjectsWhole
<1>1. ListsInv /\ KeptInv /\ TypesInv /\ WholeInv /\ [Next]_vars => WholeInv'
  BY WholeStep
<1>2. Init => WholeInv
  BY InitTold DEF WholeInv, OverInv, OverAt, Init
<1>3. WholeInv => ObjectsWhole
  BY DEF WholeInv, OverInv, OverAt, WholeAt, OwnPart, ObjectsWhole
<1>4. Spec => []TypesInv
  BY TypesStay
<1> QED
  BY <1>1, <1>2, <1>3, <1>4, NothingLost, PTL DEF Spec

\* What the lists are read with: the first buffer of an object.
LEMMA FirstOf ==
    ASSUME call \in Calls, NEW p \in Proc, NEW m \in 1..Len(Arrivals(p))
    PROVE  /\ FirstBytes(p, m) = packingRequest(Arrivals(p)[m])[1]
           /\ Place(m, 1) = (m - 1) * (IF call.layout = "inte" THEN Cardinality(Props) ELSE 1) + 1
<1>1. Cardinality(Props) = Len(PropSize)
  BY PropsType, IntervalSize
<1>2. Objects(Arrivals(p)[m].src)[Arrivals(p)[m].obj].n = Arrivals(p)[m].n
  BY ArrivalOfRank
<1> QED
  BY <1>1, <1>2 DEF FirstBytes, packingRequest, Place, Parts

\* The caller's lists name, at the first buffer of each object, its sender,
\* the elements it added and its bytes, and at the end the root of a gather;
\* the root of a scatter has them as it gave them.  The lists tell so for
\* every number of ranks, properties and objects and whatever sz_recv held.
THEOREM ListsTell ==
    ASSUME SomeProperty(Calls), AllFit(Calls), RootOnlySends(Calls)
    PROVE  Spec => []SizesTell
<1>1. ListsInv /\ KeptInv /\ TypesInv /\ WholeInv /\ [Next]_vars => WholeInv'
  BY WholeStep
<1>2. ListsInv /\ KeptInv /\ TypesInv /\ RootInv /\ [Next]_vars => RootInv'
  BY RootStep
<1>3. Init => WholeInv /\ RootInv
  <2>1. Init => WholeInv
    BY InitTold DEF WholeInv, OverInv, OverAt, Init
  <2>2. Init => call.root \in Proc
    BY CallType DEF Init
  <2>3. Init => pc[call.root] = "app"
    BY <2>2 DEF Init
  <2> QED
    BY <2>1, <2>3 DEF RootInv
<1>4. ASSUME ListsInv, WholeInv, RootInv
      PROVE  SizesTell
  <2>1. ASSUME NEW p \in Proc, pc[p] = "done", call.form = "SScatter", p = call.root
        PROVE  prc_recv[p] = prc_send(p) /\ sz_recv[p] = [i \in DOMAIN Objects(p) |-> Objects(p)[i].n]
    BY <1>4, <2>1 DEF RootInv, Chunks
  <2>2. ASSUME NEW p \in Proc, pc[p] = "done", call.form # "SScatter", call.op = "add", NEW m \in DOMAIN Arrivals(p)
        PROVE  LET i == (m - 1) * (IF call.layout = "inte" THEN Cardinality(Props) ELSE 1) + 1 IN
               /\ prc_recv[p][i] = Arrivals(p)[m].src
               /\ sz_recv[p][i] = Arrivals(p)[m].n
               /\ call.form = "SSendRecv" => sz_byte[p][i] = packingRequest(Arrivals(p)[m])[1]
    <3>1. m \in 1..Len(Arrivals(p)) /\ TellsAt(p)
      BY <1>4, <2>2, ArrivalsType DEF WholeInv, OverInv, OverAt, ListsInv
    <3>2. /\ FirstBytes(p, m) = packingRequest(Arrivals(p)[m])[1]
          /\ Place(m, 1) = (m - 1) * (IF call.layout = "inte" THEN Cardinality(Props) ELSE 1) + 1
      BY <1>4, <3>1, FirstOf DEF ListsInv
    <3> QED
      BY <3>1, <3>2 DEF TellsAt
  <2>3. ASSUME NEW p \in Proc, pc[p] = "done", call.form = "SGather", call.op = "add", p = call.root
        PROVE  Last(prc_recv[p]) = p /\ Last(sz_recv[p]) = Objects(p)[1].n
    BY <1>4, <2>3 DEF WholeInv, OverInv, OverAt, TellsAt
  <2> QED
    BY <2>1, <2>2, <2>3 DEF SizesTell
<1>5. Spec => []TypesInv
  BY TypesStay
<1> QED
  BY <1>1, <1>2, <1>3, <1>4, <1>5, NothingLost, PTL DEF Spec

=============================================================================
