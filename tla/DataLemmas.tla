------------------------------- MODULE DataLemmas -------------------------------
(***************************************************************************)
(* Induction over the natural numbers as a fact about sets, which needs no *)
(* operator as a parameter: a set of numbers with 0 and the successors of  *)
(* its members has all of them.  And what it gives for the folds that the  *)
(* modules of this project are written with: a fold over a sequence goes   *)
(* through its prefixes, one element after the other.                      *)
(***************************************************************************)
EXTENDS Integers, SequencesExt, FiniteSetTheorems, TLAPS

\* If m were missing, adding one would map the members below m one to one into
\* those members without 0.
LEMMA SetInduction ==
    ASSUME NEW S, 0 \in S, \A n \in Nat : n \in S => n + 1 \in S
    PROVE  Nat \subseteq S
  <1> SUFFICES ASSUME NEW m \in Nat, m \notin S PROVE FALSE
    OBVIOUS
  <1> DEFINE A == {k \in 0..m : k \in S}
             B == A \ {0}
             f == [k \in A |-> k + 1]
  <1>1. IsFiniteSet(A)
    <2>1. IsFiniteSet(0..m) /\ A \in SUBSET (0..m)
      BY FS_Interval
    <2> QED
      BY <2>1, FS_Subset
  <1>2. IsFiniteSet(B) /\ Cardinality(B) = Cardinality(A) - 1 /\ Cardinality(A) \in Nat
    <2>1. 0 \in A
      OBVIOUS
    <2> HIDE DEF A
    <2> QED
      BY <1>1, <2>1, FS_RemoveElement, FS_CardinalityType
  <1>3. f \in [A -> B]
    <2> SUFFICES ASSUME NEW k \in A PROVE k + 1 \in B
      OBVIOUS
    <2>1. k \in Nat /\ k \in S /\ k <= m /\ k # m
      OBVIOUS
    <2> QED
      BY <2>1
  <1>4. \A x, y \in A : x # y => f[x] # f[y]
    OBVIOUS
  <1> HIDE DEF A, B, f
  <1>5. Cardinality(B) < Cardinality(A)
    BY <1>2
  <1> QED
    BY <1>1, <1>2, <1>3, <1>4, <1>5, FS_PigeonHole

\* The first n numbers are n.
LEMMA FirstNumbers ==
    ASSUME NEW n \in Nat
    PROVE  IsFiniteSet(1..n) /\ Cardinality(1..n) = n
  <1>1. 1 \in Int /\ n \in Int /\ (1 > n => n = 0) /\ n - 1 + 1 = n
    OBVIOUS
  <1>2. IsFiniteSet(1..n) /\ Cardinality(1..n) = IF 1 > n THEN 0 ELSE n - 1 + 1
    BY <1>1, FS_Interval
  <1> QED
    BY <1>1, <1>2

\* Two finite sets that share nothing.
LEMMA DisjointUnion ==
    ASSUME NEW A, NEW B, IsFiniteSet(A), IsFiniteSet(B), A \cap B = {}
    PROVE  /\ IsFiniteSet(A \cup B)
           /\ Cardinality(A \cup B) = Cardinality(A) + Cardinality(B)
  <1>1. Cardinality(A \cap B) = 0
    BY FS_EmptySet
  <1>2. /\ IsFiniteSet(A \cup B)
        /\ Cardinality(A \cup B) = Cardinality(A) + Cardinality(B) - Cardinality(A \cap B)
    BY FS_Union
  <1>3. Cardinality(A) \in Nat /\ Cardinality(B) \in Nat
    BY FS_CardinalityType
  <1> QED
    BY <1>1, <1>2, <1>3

\* A finite set of numbers has a largest one, if it has any.
LEMMA MaxOfSubset ==
    ASSUME NEW n \in Nat, NEW s \in SUBSET (1..n), s # {}
    PROVE  Max(s) \in s /\ \A x \in s : x <= Max(s)
  <1> DEFINE P == {k \in Nat : \A t \in SUBSET (1..k) : t # {} => \E x \in t : \A y \in t : x >= y}
  <1>1. 0 \in P
    <2>1. \A t \in SUBSET (1..0) : t = {}
      OBVIOUS
    <2> QED
      BY <2>1
  <1>2. ASSUME NEW k \in Nat, k \in P PROVE k + 1 \in P
    <2> SUFFICES ASSUME NEW t \in SUBSET (1..(k + 1)), t # {}
                 PROVE  \E x \in t : \A y \in t : x >= y
      OBVIOUS
    <2>1. CASE k + 1 \in t
      BY <2>1
    <2>2. CASE k + 1 \notin t
      <3>1. t \in SUBSET (1..k)
        BY <2>2
      <3> QED
        BY <1>2, <3>1
    <2> QED
      BY <2>1, <2>2
  <1> HIDE DEF P
  <1>3. n \in P
    BY <1>1, <1>2, SetInduction
  <1>4. \E x \in s : \A y \in s : x >= y
    BY <1>3 DEF P
  <1>5. Max(s) \in s /\ \A y \in s : Max(s) >= y
    BY <1>4 DEF Max
  <1> QED
    BY <1>5

\* h is the recursive function of a fold over the subsets of 1..n, which takes the
\* largest element away: it starts from b and goes on by F.
IsFold(h, n, b, F) ==
    \A s \in SUBSET (1..n) : h[s] = IF s = {} THEN b ELSE F[<<Max(s), h[s \ {Max(s)}]>>]

\* There is one.
LEMMA FoldExists ==
    ASSUME NEW n \in Nat, NEW T, NEW b \in T, NEW F \in [(1..n) \X T -> T]
    PROVE  \E h \in [SUBSET (1..n) -> T] : IsFold(h, n, b, F)
  <1> DEFINE Q(m) == m <= n => \E h \in [SUBSET (1..m) -> T] : IsFold(h, m, b, F)
             P == {m \in Nat : Q(m)}
  <1> HIDE DEF Q
  <1>1. 0 \in P
    <2> DEFINE h == [s \in SUBSET (1..0) |-> b]
    <2>1. \A s \in SUBSET (1..0) : s = {}
      OBVIOUS
    <2>2. h \in [SUBSET (1..0) -> T] /\ IsFold(h, 0, b, F)
      BY <2>1 DEF IsFold
    <2> HIDE DEF h
    <2> QED
      BY <2>2 DEF Q
  <1>2. ASSUME NEW m \in Nat, m \in P PROVE m + 1 \in P
    <2> SUFFICES ASSUME m + 1 <= n
                 PROVE  \E h \in [SUBSET (1..(m + 1)) -> T] : IsFold(h, m + 1, b, F)
      <3>1. Q(m + 1)
        BY DEF Q
      <3> QED
        BY <3>1
    <2>1. PICK g \in [SUBSET (1..m) -> T] : IsFold(g, m, b, F)
      <3>1. Q(m) /\ m <= n
        BY <1>2
      <3> QED
        BY <3>1 DEF Q
    <2> DEFINE h == [s \in SUBSET (1..(m + 1)) |->
                        IF m + 1 \in s THEN F[<<m + 1, g[s \ {m + 1}]>>] ELSE g[s]]
    <2>2. ASSUME NEW s \in SUBSET (1..(m + 1))
          PROVE  /\ s \ {m + 1} \in SUBSET (1..m)
                 /\ m + 1 \notin s => s \in SUBSET (1..m)
                 /\ m + 1 \in s => s # {} /\ Max(s) = m + 1
      <3>1. s \ {m + 1} \in SUBSET (1..m) /\ (m + 1 \notin s => s \in SUBSET (1..m))
        OBVIOUS
      <3>2. ASSUME m + 1 \in s PROVE Max(s) = m + 1
        <4>1. m + 1 \in Nat /\ s # {}
          BY <3>2
        <4>2. Max(s) \in s /\ m + 1 <= Max(s)
          BY <3>2, <4>1, MaxOfSubset
        <4>3. Max(s) \in 1..(m + 1)
          BY <4>2
        <4> QED
          BY <4>2, <4>3
      <3> QED
        BY <3>1, <3>2
    <2>3. h \in [SUBSET (1..(m + 1)) -> T]
      <3> SUFFICES ASSUME NEW s \in SUBSET (1..(m + 1))
                   PROVE  (IF m + 1 \in s THEN F[<<m + 1, g[s \ {m + 1}]>>] ELSE g[s]) \in T
        OBVIOUS
      <3>1. g[s \ {m + 1}] \in T /\ (m + 1 \notin s => g[s] \in T) /\ m + 1 \in 1..n
        BY <2>2
      <3>2. <<m + 1, g[s \ {m + 1}]>> \in (1..n) \X T
        BY <3>1
      <3> QED
        BY <3>1, <3>2
    <2>4. \A s \in SUBSET (1..(m + 1)) :
             h[s] = IF m + 1 \in s THEN F[<<m + 1, g[s \ {m + 1}]>>] ELSE g[s]
      OBVIOUS
    <2> HIDE DEF h
    <2>5. ASSUME NEW s \in SUBSET (1..(m + 1))
          PROVE  h[s] = IF s = {} THEN b ELSE F[<<Max(s), h[s \ {Max(s)}]>>]
      <3>1. ASSUME NEW t \in SUBSET (1..m)
            PROVE  t \in SUBSET (1..(m + 1)) /\ m + 1 \notin t /\ h[t] = g[t]
        <4>1. t \in SUBSET (1..(m + 1)) /\ m + 1 \notin t
          OBVIOUS
        <4> QED
          BY <2>4, <4>1
      <3>2. CASE m + 1 \in s
        <4>1. h[s \ {m + 1}] = g[s \ {m + 1}]
          BY <2>2, <3>1
        <4> QED
          BY <2>2, <2>4, <3>2, <4>1
      <3>3. CASE m + 1 \notin s
        <4>1. s \in SUBSET (1..m) /\ h[s] = g[s]
          BY <2>2, <3>1, <3>3
        <4>2. g[s] = IF s = {} THEN b ELSE F[<<Max(s), g[s \ {Max(s)}]>>]
          BY <2>1, <4>1 DEF IsFold
        <4>3. h[s \ {Max(s)}] = g[s \ {Max(s)}]
          BY <3>1, <4>1
        <4> QED
          BY <4>1, <4>2, <4>3
      <3> QED
        BY <3>2, <3>3
    <2> QED
      BY <2>3, <2>5 DEF IsFold
  <1>3. n \in P
    <2> HIDE DEF P
    <2> QED
      BY <1>1, <1>2, SetInduction
  <1>4. Q(n) /\ n <= n
    BY <1>3
  <1> QED
    BY <1>4, Zenon DEF Q

\* A fold over 1..k ends with k.
LEMMA MaxOfPrefix ==
    ASSUME NEW k \in Nat, k # 0
    PROVE  1..k # {} /\ Max(1..k) = k /\ (1..k) \ {k} = 1..(k - 1)
  <1>1. 1..k \in SUBSET (1..k) /\ k \in 1..k /\ 1..k # {}
    OBVIOUS
  <1>2. Max(1..k) \in 1..k /\ k <= Max(1..k)
    BY <1>1, MaxOfSubset
  <1>3. Max(1..k) = k
    BY <1>2
  <1>4. (1..k) \ {k} = 1..(k - 1)
    OBVIOUS
  <1> QED
    BY <1>1, <1>3, <1>4
===============================================================================
