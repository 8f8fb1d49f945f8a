--------------------------- MODULE PositionsProofs ---------------------------
(***************************************************************************)
(* Laws of picking: what Pick returns, when two picks are the same, and    *)
(* how it works on a concatenation and on another pick.                    *)
(***************************************************************************)
EXTENDS Positions, FiniteSetTheorems, SequenceTheorems, TLAPS

(* The rank of a position in a finite set of positions: the number of its  *)
(* elements up to that position.                                           *)
Rank(S, i) == Cardinality({j \in S : j <= i})

(* Positions of a sequence are finitely many.                              *)
LEMMA FinitePositions ==
  ASSUME NEW n \in Nat, NEW S \in SUBSET (1 .. n)
  PROVE  /\ S \in SUBSET Nat
         /\ IsFiniteSet(S)
         /\ Cardinality(S) \in 0 .. n
<1>1. IsFiniteSet(1 .. n) /\ Cardinality(1 .. n) = n
  BY FS_Interval
<1>2. IsFiniteSet(S) /\ Cardinality(S) <= n
  BY <1>1, FS_Subset
<1>3. Cardinality(S) \in Nat
  BY <1>2, FS_CardinalityType
<1> QED
  BY <1>2, <1>3

(* Ranks of a finite set of naturals run from 1 to its cardinality, and    *)
(* different elements have different ranks.                                *)
LEMMA RankInjective ==
  ASSUME NEW S \in SUBSET Nat, IsFiniteSet(S)
  PROVE  [i \in S |-> Rank(S, i)] \in Injection(S, 1 .. Cardinality(S))
<1> DEFINE Upto(i) == {j \in S : j <= i}
<1>1. ASSUME NEW i \in S
      PROVE  /\ IsFiniteSet(Upto(i))
             /\ Rank(S, i) \in 1 .. Cardinality(S)
  <2>1. Upto(i) \in SUBSET S /\ i \in Upto(i)
    OBVIOUS
  <2>2. IsFiniteSet(Upto(i)) /\ Cardinality(Upto(i)) <= Cardinality(S)
    BY <2>1, FS_Subset
  <2>3. Cardinality(Upto(i)) \in Nat /\ Cardinality(Upto(i)) # 0
    BY <2>1, <2>2, FS_CardinalityType, FS_EmptySet
  <2>4. Cardinality(S) \in Nat
    BY FS_CardinalityType
  <2> QED
    BY <2>2, <2>3, <2>4 DEF Rank
<1>2. ASSUME NEW i \in S, NEW j \in S, i < j
      PROVE  Rank(S, i) # Rank(S, j)
  <2>1. i \in Nat /\ j \in Nat
    OBVIOUS
  <2>2. \A m \in Upto(i) : m \in Upto(j)
    BY <1>2, <2>1
  <2>3. j \in Upto(j) /\ j \notin Upto(i)
    BY <1>2, <2>1
  <2>4. IsFiniteSet(Upto(j))
    BY <1>1
  <2>5. Cardinality(Upto(j)) # Cardinality(Upto(i))
    <3>1. Upto(i) \in SUBSET Upto(j) /\ Upto(i) # Upto(j)
      BY <2>2, <2>3
    <3> HIDE DEF Upto
    <3> QED
      BY <3>1, <2>4, FS_Subset
  <2> QED
    BY <2>5 DEF Rank
<1>3. ASSUME NEW i \in S, NEW j \in S, Rank(S, i) = Rank(S, j)
      PROVE  i = j
  <2>1. i \in Nat /\ j \in Nat
    OBVIOUS
  <2>2. ~(i < j) /\ ~(j < i)
    BY <1>2, <1>3
  <2> QED
    BY <2>1, <2>2
<1> QED
  BY <1>1, <1>3 DEF Injection, IsInjective

(* Every rank is taken, so that Nth picks an element of the set.           *)
LEMMA NthElement ==
  ASSUME NEW S \in SUBSET Nat, IsFiniteSet(S), NEW k \in 1 .. Cardinality(S)
  PROVE  Nth(S, k) \in S /\ Rank(S, Nth(S, k)) = k
<1> DEFINE n == Cardinality(S)
           rank == [i \in S |-> Rank(S, i)]
<1>1. n \in Nat
  BY FS_CardinalityType
<1>2. IsFiniteSet(1 .. n) /\ Cardinality(1 .. n) = n
  BY <1>1, FS_Interval
<1>3. rank \in Injection(S, 1 .. n)
  BY RankInjective
<1>4. rank \in Surjection(S, 1 .. n)
  BY <1>2, <1>3, FS_Injection
<1>5. \E i \in S : Rank(S, i) = k
  BY <1>4 DEF Surjection
<1> QED
  BY <1>5 DEF Nth, Rank

(* Nth undoes Rank, and both follow the order of the positions.            *)
LEMMA NthRank ==
  ASSUME NEW S \in SUBSET Nat, IsFiniteSet(S), NEW i \in S
  PROVE  Rank(S, i) \in 1 .. Cardinality(S) /\ Nth(S, Rank(S, i)) = i
<1> DEFINE k == Rank(S, i)
<1>1. [j \in S |-> Rank(S, j)] \in Injection(S, 1 .. Cardinality(S))
  BY RankInjective
<1>2. k \in 1 .. Cardinality(S)
  BY <1>1 DEF Injection
<1>3. Nth(S, k) \in S /\ Rank(S, Nth(S, k)) = k
  <2> HIDE DEF k
  <2> QED
    BY <1>2, NthElement
<1> QED
  BY <1>1, <1>2, <1>3 DEF Injection, IsInjective

LEMMA RankMonotonic ==
  ASSUME NEW S \in SUBSET Nat, IsFiniteSet(S), NEW i \in S, NEW j \in S, i <= j
  PROVE  Rank(S, i) <= Rank(S, j)
<1> DEFINE A == {l \in S : l <= i}
           B == {l \in S : l <= j}
<1>1. A \in SUBSET B
  <2>1. i \in Nat /\ j \in Nat
    OBVIOUS
  <2>2. ASSUME NEW l \in S, l <= i PROVE l <= j
    BY <2>1, <2>2
  <2> QED
    BY <2>2
<1>2. IsFiniteSet(B)
  <2>1. B \in SUBSET S
    OBVIOUS
  <2> HIDE DEF B
  <2> QED
    BY <2>1, FS_Subset
<1>3. Cardinality(A) <= Cardinality(B)
  <2> HIDE DEF A, B
  <2> QED
    BY <1>1, <1>2, FS_Subset
<1> QED
  BY <1>3 DEF Rank

LEMMA NthIncreasing ==
  ASSUME NEW S \in SUBSET Nat, IsFiniteSet(S),
         NEW k \in 1 .. Cardinality(S), NEW l \in 1 .. Cardinality(S), k < l
  PROVE  Nth(S, k) < Nth(S, l)
<1>1. /\ Nth(S, k) \in S /\ Rank(S, Nth(S, k)) = k
      /\ Nth(S, l) \in S /\ Rank(S, Nth(S, l)) = l
  BY NthElement
<1>2. Nth(S, k) \in Nat /\ Nth(S, l) \in Nat
  BY <1>1
<1>3. ~ (Nth(S, l) <= Nth(S, k))
  <2> SUFFICES ASSUME Nth(S, l) <= Nth(S, k) PROVE FALSE
    OBVIOUS
  <2>1. l <= k
    BY <1>1, RankMonotonic
  <2>2. k \in Int /\ l \in Int
    OBVIOUS
  <2> QED
    BY <2>1, <2>2
<1> QED
  BY <1>2, <1>3

(* An increasing enumeration of a set of positions is the one Nth gives.   *)
LEMMA NthUnique ==
  ASSUME NEW n \in Nat, NEW S \in SUBSET Nat, NEW f \in [1 .. n -> S],
         \A k, l \in 1 .. n : k < l => f[k] < f[l],
         \A i \in S : \E k \in 1 .. n : f[k] = i
  PROVE  /\ IsFiniteSet(S) /\ Cardinality(S) = n
         /\ \A k \in 1 .. n : Nth(S, k) = f[k]
<1>1. \A k, l \in 1 .. n : f[k] = f[l] => k = l
  <2> SUFFICES ASSUME NEW k \in 1 .. n, NEW l \in 1 .. n, f[k] = f[l], k # l
               PROVE  FALSE
    OBVIOUS
  <2>1. f[k] \in S /\ f[k] \in Nat
    OBVIOUS
  <2>2. k \in Nat /\ l \in Nat
    OBVIOUS
  <2>3. CASE k < l
    BY <2>1, <2>3
  <2>4. CASE l < k
    BY <2>1, <2>4
  <2> QED
    BY <2>2, <2>3, <2>4
<1>2. ASSUME NEW m \in 0 .. n
      PROVE  /\ IsFiniteSet({f[l] : l \in 1 .. m})
             /\ Cardinality({f[l] : l \in 1 .. m}) = m
  <2> DEFINE T == {f[l] : l \in 1 .. m}
             g == [l \in 1 .. m |-> f[l]]
  <2>1. g \in Bijection(1 .. m, T)
    <3>1. \A l \in 1 .. m : l \in 1 .. n
      OBVIOUS
    <3>2. g \in Injection(1 .. m, T)
      BY <1>1, <3>1 DEF Injection, IsInjective
    <3>3. g \in Surjection(1 .. m, T)
      BY DEF Surjection
    <3> QED
      BY <3>2, <3>3 DEF Bijection
  <2>2. IsFiniteSet(1 .. m) /\ Cardinality(1 .. m) = m
    BY FS_Interval
  <2> HIDE DEF T, g
  <2>3. IsFiniteSet(T) /\ Cardinality(T) = m
    BY <2>1, <2>2, FS_Bijection DEF ExistsBijection
  <2> QED
    BY <2>3 DEF T
<1>3. S = {f[l] : l \in 1 .. n}
  OBVIOUS
<1>4. IsFiniteSet(S) /\ Cardinality(S) = n
  <2>1. n \in 0 .. n
    OBVIOUS
  <2> QED
    BY <1>2, <1>3, <2>1
<1>5. ASSUME NEW k \in 1 .. n
      PROVE  Nth(S, k) = f[k]
  <2>1. \A l \in 1 .. n : f[l] <= f[k] <=> l \in 1 .. k
    <3> SUFFICES ASSUME NEW l \in 1 .. n
                 PROVE  f[l] <= f[k] <=> l \in 1 .. k
      OBVIOUS
    <3>1. f[l] \in Nat /\ f[k] \in Nat
      OBVIOUS
    <3>2. CASE l < k
      BY <3>1, <3>2
    <3>3. CASE l = k
      BY <3>1, <3>3
    <3>4. CASE k < l
      BY <3>1, <3>4
    <3> QED
      BY <3>2, <3>3, <3>4
  <2>2. {j \in S : j <= f[k]} = {f[l] : l \in 1 .. k}
    <3>1. \A l \in 1 .. k : l \in 1 .. n
      OBVIOUS
    <3>2. \A j \in S : j <= f[k] => \E l \in 1 .. k : j = f[l]
      BY <2>1
    <3>3. \A l \in 1 .. k : f[l] \in S /\ f[l] <= f[k]
      BY <2>1, <3>1
    <3> QED
      BY <3>2, <3>3
  <2>3. Rank(S, f[k]) = k
    <3>1. k \in 0 .. n
      OBVIOUS
    <3> QED
      BY <1>2, <2>2, <3>1 DEF Rank
  <2>4. f[k] \in S
    OBVIOUS
  <2>5. Nth(S, Rank(S, f[k])) = f[k]
    BY ONLY S \in SUBSET Nat, <1>4, <2>4, NthRank, Zenon
  <2> QED
    BY ONLY <2>3, <2>5, Zenon
<1> QED
  BY <1>4, <1>5

-------------------------------------------------------------------------------
(* What is picked: as many elements as there are positions, each from its  *)
(* position.                                                               *)
LEMMA PickProperties ==
  ASSUME NEW T, NEW s \in Seq(T), NEW S \in SUBSET (1 .. Len(s))
  PROVE  /\ Pick(s, S) \in Seq(T)
         /\ Len(Pick(s, S)) = Cardinality(S)
         /\ Cardinality(S) \in 0 .. Len(s)
         /\ \A k \in 1 .. Cardinality(S) : /\ Nth(S, k) \in S
                                           /\ Pick(s, S)[k] = s[Nth(S, k)]
<1> DEFINE n == Cardinality(S)
<1>1. S \in SUBSET Nat /\ IsFiniteSet(S) /\ n \in 0 .. Len(s)
  <2>1. Len(s) \in Nat
    OBVIOUS
  <2> QED
    BY <2>1, FinitePositions
<1>2. \A k \in 1 .. n : Nth(S, k) \in S
  BY <1>1, NthElement
<1>3. Pick(s, S) = [k \in 1 .. n |-> s[Nth(S, k)]]
  BY DEF Pick
<1>4. ASSUME NEW k \in 1 .. n PROVE s[Nth(S, k)] \in T
  <2>1. Nth(S, k) \in 1 .. Len(s)
    BY <1>2
  <2> QED
    BY <2>1, ElementOfSeq
<1> HIDE DEF n
<1>5. n \in Nat
  BY <1>1
<1> QED
  BY <1>1, <1>2, <1>3, <1>4, <1>5 DEF n

(* A sequence that enumerates the positions in order is what is picked.    *)
LEMMA PickUnique ==
  ASSUME NEW T, NEW s \in Seq(T), NEW S \in SUBSET (1 .. Len(s)),
         NEW u \in Seq(T), NEW f \in [1 .. Len(u) -> S],
         \A k, l \in 1 .. Len(u) : k < l => f[k] < f[l],
         \A i \in S : \E k \in 1 .. Len(u) : f[k] = i,
         \A k \in 1 .. Len(u) : u[k] = s[f[k]]
  PROVE  Pick(s, S) = u
<1>1. Len(u) \in Nat /\ S \in SUBSET Nat /\ u = [k \in 1 .. Len(u) |-> u[k]]
  OBVIOUS
<1> DEFINE n == Len(u)
<1>2. Cardinality(S) = n /\ \A k \in 1 .. n : Nth(S, k) = f[k]
  <2>1. /\ n \in Nat /\ S \in SUBSET Nat /\ f \in [1 .. n -> S]
        /\ \A k, l \in 1 .. n : k < l => f[k] < f[l]
        /\ \A i \in S : \E k \in 1 .. n : f[k] = i
    BY <1>1, Zenon
  <2> HIDE DEF n
  <2> QED
    BY ONLY <2>1, NthUnique
<1> QED
  BY <1>1, <1>2 DEF Pick

(* Everything, and nothing.                                                *)
LEMMA PickAll ==
  ASSUME NEW T, NEW s \in Seq(T)
  PROVE  Pick(s, 1 .. Len(s)) = s /\ Pick(s, {}) = <<>>
<1>1. Pick(s, 1 .. Len(s)) = s
  <2> DEFINE S == 1 .. Len(s)
             f == [k \in 1 .. Len(s) |-> k]
  <2>1. S \in SUBSET (1 .. Len(s)) /\ f \in [1 .. Len(s) -> S]
    OBVIOUS
  <2>2. /\ \A k, l \in 1 .. Len(s) : k < l => f[k] < f[l]
        /\ \A i \in S : \E k \in 1 .. Len(s) : f[k] = i
        /\ \A k \in 1 .. Len(s) : s[k] = s[f[k]]
    OBVIOUS
  <2> HIDE DEF f, S
  <2>3. Pick(s, S) = s
    BY <2>1, <2>2, PickUnique
  <2> QED
    BY <2>3 DEF S
<1>2. Pick(s, {}) = <<>>
  <2>1. Cardinality({}) = 0
    BY FS_EmptySet
  <2> QED
    BY <2>1 DEF Pick
<1> QED
  BY <1>1, <1>2

(* Picking out of what was picked: Q are the positions, in the whole, of   *)
(* the elements picked.                                                    *)
Among(S, R, Q) == Q = {Nth(S, k) : k \in R}

LEMMA PickOfPick ==
  ASSUME NEW T, NEW s \in Seq(T), NEW S \in SUBSET (1 .. Len(s)),
         NEW R \in SUBSET (1 .. Cardinality(S)), NEW Q, Among(S, R, Q)
  PROVE  Pick(Pick(s, S), R) = Pick(s, Q)
<1> DEFINE u == Pick(s, S)
           v == Pick(u, R)
           f == [l \in 1 .. Len(v) |-> Nth(S, Nth(R, l))]
<1>1. /\ u \in Seq(T) /\ Len(u) = Cardinality(S)
      /\ \A k \in 1 .. Cardinality(S) : Nth(S, k) \in S /\ u[k] = s[Nth(S, k)]
  BY PickProperties
<1>2. R \in SUBSET (1 .. Len(u))
  BY <1>1
<1>3. /\ v \in Seq(T) /\ Len(v) = Cardinality(R)
      /\ \A l \in 1 .. Len(v) : Nth(R, l) \in R /\ v[l] = u[Nth(R, l)]
  <2> HIDE DEF u
  <2>1. /\ Pick(u, R) \in Seq(T) /\ Len(Pick(u, R)) = Cardinality(R)
        /\ \A l \in 1 .. Cardinality(R) : Nth(R, l) \in R /\ Pick(u, R)[l] = u[Nth(R, l)]
    BY <1>1, <1>2, PickProperties
  <2> QED
    BY <2>1
<1>4. /\ S \in SUBSET Nat /\ IsFiniteSet(S) /\ R \in SUBSET Nat /\ IsFiniteSet(R)
      /\ Cardinality(S) \in Nat /\ Cardinality(R) \in Nat
  <2>1. Len(s) \in Nat
    OBVIOUS
  <2>2. S \in SUBSET Nat /\ IsFiniteSet(S) /\ Cardinality(S) \in Nat
    BY <2>1, FinitePositions
  <2> QED
    BY <2>2, FinitePositions
<1> HIDE DEF u, v
<1>5. Q \in SUBSET (1 .. Len(s)) /\ f \in [1 .. Len(v) -> Q]
  BY <1>1, <1>3 DEF Among
<1>6. ASSUME NEW k \in 1 .. Len(v), NEW l \in 1 .. Len(v), k < l
      PROVE  f[k] < f[l]
  <2>1. Nth(R, k) < Nth(R, l)
    BY <1>3, <1>4, <1>6, NthIncreasing
  <2>2. Nth(R, k) \in 1 .. Cardinality(S) /\ Nth(R, l) \in 1 .. Cardinality(S)
    BY <1>3
  <2>3. Nth(S, Nth(R, k)) < Nth(S, Nth(R, l))
    BY <1>4, <2>1, <2>2, NthIncreasing
  <2> QED
    BY <2>3
<1>7. ASSUME NEW i \in Q PROVE \E l \in 1 .. Len(v) : f[l] = i
  <2>1. PICK k \in R : i = Nth(S, k)
    BY DEF Among
  <2>2. Rank(R, k) \in 1 .. Len(v) /\ Nth(R, Rank(R, k)) = k
    BY <1>3, <1>4, NthRank
  <2> QED
    BY <2>1, <2>2
<1>8. ASSUME NEW l \in 1 .. Len(v) PROVE v[l] = s[f[l]]
  <2>1. Nth(R, l) \in 1 .. Cardinality(S) /\ v[l] = u[Nth(R, l)]
    BY <1>3
  <2> QED
    BY <1>1, <2>1
<1> HIDE DEF f
<1>9. Pick(s, Q) = v
  BY <1>3, <1>5, <1>6, <1>7, <1>8, PickUnique
<1> QED
  BY <1>9 DEF u, v

(* Picking out of a concatenation: A and B are the positions in the parts. *)
Parts(s, u, S, A, B) ==
  /\ A = {i \in 1 .. Len(s) : i \in S}
  /\ B = {i \in 1 .. Len(u) : Len(s) + i \in S}

LEMMA PickOfConcat ==
  ASSUME NEW T, NEW s \in Seq(T), NEW u \in Seq(T),
         NEW S \in SUBSET (1 .. (Len(s) + Len(u))), NEW A, NEW B,
         Parts(s, u, S, A, B)
  PROVE  Pick(s \o u, S) = Pick(s, A) \o Pick(u, B)
<1> DEFINE m == Len(s)
           a == Cardinality(A)
           b == Cardinality(B)
           v == Pick(s, A) \o Pick(u, B)
           f == [k \in 1 .. Len(v) |->
                   IF k <= a THEN Nth(A, k) ELSE m + Nth(B, k - a)]
<1>1. m \in Nat /\ Len(u) \in Nat
  OBVIOUS
<1>2. A \in SUBSET (1 .. m) /\ B \in SUBSET (1 .. Len(u))
  BY DEF Parts
<1>3. /\ A \in SUBSET Nat /\ IsFiniteSet(A) /\ B \in SUBSET Nat /\ IsFiniteSet(B)
      /\ a \in Nat /\ b \in Nat
  <2> HIDE DEF m
  <2>1. A \in SUBSET Nat /\ IsFiniteSet(A) /\ a \in Nat
    <3>1. A \in SUBSET Nat /\ IsFiniteSet(A)
      BY <1>1, <1>2, FinitePositions
    <3> QED
      BY <3>1, FS_CardinalityType
  <2>2. B \in SUBSET Nat /\ IsFiniteSet(B) /\ b \in Nat
    BY <1>1, <1>2, FinitePositions
  <2> QED
    BY <2>1, <2>2
<1>4. /\ Pick(s, A) \in Seq(T) /\ Len(Pick(s, A)) = a
      /\ \A k \in 1 .. a : Nth(A, k) \in A /\ Pick(s, A)[k] = s[Nth(A, k)]
  BY <1>2, PickProperties
<1>5. /\ Pick(u, B) \in Seq(T) /\ Len(Pick(u, B)) = b
      /\ \A k \in 1 .. b : Nth(B, k) \in B /\ Pick(u, B)[k] = u[Nth(B, k)]
  BY <1>2, PickProperties
<1>6. /\ v \in Seq(T) /\ Len(v) = a + b
      /\ \A k \in 1 .. (a + b) :
           v[k] = IF k <= a THEN Pick(s, A)[k] ELSE Pick(u, B)[k - a]
  <2> HIDE DEF a, b
  <2>1. /\ v \in Seq(T) /\ Len(v) = Len(Pick(s, A)) + Len(Pick(u, B))
        /\ \A k \in 1 .. (Len(Pick(s, A)) + Len(Pick(u, B))) :
             v[k] = IF k <= Len(Pick(s, A)) THEN Pick(s, A)[k]
                    ELSE Pick(u, B)[k - Len(Pick(s, A))]
    BY ONLY <1>4, <1>5, ConcatProperties DEF v
  <2> QED
    BY ONLY <1>4, <1>5, <2>1
<1>7. /\ s \o u \in Seq(T) /\ Len(s \o u) = m + Len(u)
      /\ \A i \in 1 .. (m + Len(u)) :
           (s \o u)[i] = IF i <= m THEN s[i] ELSE u[i - m]
  BY ConcatProperties
<1>8. \A k \in (a + 1) .. (a + b) : k - a \in 1 .. b
  <2> HIDE DEF a, b
  <2> QED
    BY <1>3
<1>9. /\ \A i \in A : i \in S /\ i \in 1 .. m
      /\ \A i \in B : i \in 1 .. Len(u) /\ m + i \in S
      /\ \A i \in S : i \in A \/ (i - m \in B /\ i = m + (i - m))
  <2>1. \A i \in S : i \in 1 .. (m + Len(u))
    OBVIOUS
  <2> QED
    BY <1>1, <2>1 DEF Parts
<1>10. \A k \in 1 .. (a + b) :
         f[k] = IF k <= a THEN Nth(A, k) ELSE m + Nth(B, k - a)
  BY <1>6
<1> HIDE DEF a, b, v, m
<1>11. f \in [1 .. Len(v) -> S]
  <2>1. ASSUME NEW k \in 1 .. (a + b) PROVE f[k] \in S
    <3>1. CASE k <= a
      <4>1. k \in 1 .. a
        BY <1>3, <3>1
      <4> QED
        BY <1>4, <1>9, <1>10, <3>1, <4>1
    <3>2. CASE ~(k <= a)
      <4>1. k - a \in 1 .. b
        BY <1>3, <1>8, <3>2
      <4> QED
        BY <1>5, <1>9, <1>10, <3>2, <4>1
    <3> QED
      BY <3>1, <3>2
  <2> QED
    BY <1>6, <2>1
<1> HIDE DEF f
<1>12. ASSUME NEW k \in 1 .. Len(v), NEW l \in 1 .. Len(v), k < l
       PROVE  f[k] < f[l]
  <2>1. k \in 1 .. (a + b) /\ l \in 1 .. (a + b)
    BY <1>6
  <2>2. CASE l <= a
    <3>1. k \in 1 .. a /\ l \in 1 .. a /\ k <= a
      BY <1>3, <2>1, <1>12, <2>2
    <3>2. Nth(A, k) < Nth(A, l)
      BY <1>3, <1>12, <3>1, NthIncreasing DEF a
    <3> QED
      BY <1>10, <2>1, <2>2, <3>1, <3>2
  <2>3. CASE k <= a /\ ~(l <= a)
    <3>1. k \in 1 .. a /\ l - a \in 1 .. b
      BY <1>3, <1>8, <2>1, <2>3
    <3>2. Nth(A, k) \in 1 .. m /\ Nth(B, l - a) \in Nat /\ Nth(B, l - a) >= 1
      <4>1. Nth(B, l - a) \in 1 .. Len(u)
        BY <1>5, <1>9, <3>1
      <4> QED
        BY <1>1, <1>4, <1>9, <3>1, <4>1
    <3> QED
      BY <1>1, <1>10, <2>1, <2>3, <3>2
  <2>4. CASE ~(k <= a)
    <3>1. k - a \in 1 .. b /\ l - a \in 1 .. b /\ k - a < l - a /\ ~(l <= a)
      BY <1>3, <1>8, <2>1, <1>12, <2>4
    <3>2. Nth(B, k - a) < Nth(B, l - a)
      BY <1>3, <3>1, NthIncreasing DEF b
    <3>3. Nth(B, k - a) \in Nat /\ Nth(B, l - a) \in Nat
      BY <1>3, <1>5, <3>1
    <3> QED
      BY <1>1, <1>10, <2>1, <2>4, <3>1, <3>2, <3>3
  <2> QED
    BY <2>2, <2>3, <2>4
<1>13. ASSUME NEW i \in S PROVE \E k \in 1 .. Len(v) : f[k] = i
  <2>1. CASE i \in A
    <3>1. Rank(A, i) \in 1 .. a /\ Nth(A, Rank(A, i)) = i
      BY <1>3, <2>1, NthRank DEF a
    <3>2. Rank(A, i) \in 1 .. (a + b) /\ Rank(A, i) <= a
      BY <1>3, <3>1
    <3> QED
      BY <1>6, <1>10, <3>1, <3>2
  <2>2. CASE i \notin A
    <3> DEFINE k == Rank(B, i - m)
    <3>1. i - m \in B /\ i = m + (i - m)
      BY <1>9, <2>2
    <3>2. k \in 1 .. b /\ Nth(B, k) = i - m
      BY <1>3, <3>1, NthRank DEF b
    <3> HIDE DEF k
    <3>3. a + k \in 1 .. (a + b) /\ ~(a + k <= a) /\ (a + k) - a = k
      BY <1>3, <3>2
    <3>4. f[a + k] = i
      BY <1>10, <3>1, <3>2, <3>3
    <3> QED
      BY <1>6, <3>3, <3>4
  <2> QED
    BY <2>1, <2>2
<1>14. ASSUME NEW k \in 1 .. Len(v) PROVE v[k] = (s \o u)[f[k]]
  <2>1. k \in 1 .. (a + b)
    BY <1>6
  <2>2. CASE k <= a
    <3>1. k \in 1 .. a
      BY <1>3, <2>1, <2>2
    <3>2. Nth(A, k) \in 1 .. m /\ Nth(A, k) <= m /\ Nth(A, k) \in 1 .. (m + Len(u))
      <4>1. Nth(A, k) \in 1 .. m
        BY <1>4, <1>9, <3>1
      <4> QED
        BY <1>1, <4>1
    <3> QED
      BY <1>4, <1>6, <1>7, <1>10, <2>1, <2>2, <3>1, <3>2
  <2>3. CASE ~(k <= a)
    <3> DEFINE j == Nth(B, k - a)
    <3>1. k - a \in 1 .. b
      BY <1>3, <1>8, <2>1, <2>3
    <3>2. j \in 1 .. Len(u) /\ Pick(u, B)[k - a] = u[j]
      BY <1>5, <1>9, <3>1
    <3>3. f[k] = m + j /\ v[k] = Pick(u, B)[k - a]
      BY <1>6, <1>10, <2>1, <2>3
    <3> HIDE DEF j
    <3>4. m + j \in 1 .. (m + Len(u)) /\ ~(m + j <= m) /\ (m + j) - m = j
      BY <1>1, <3>2
    <3> QED
      BY <1>7, <3>2, <3>3, <3>4
  <2> QED
    BY <2>2, <2>3
<1>15. Pick(s \o u, S) = v
  <2>1. Len(v) \in Nat /\ v = [k \in 1 .. Len(v) |-> v[k]]
    BY <1>6
  <2>2. S \in SUBSET Nat
    BY <1>1 DEF m
  <2>3. /\ \A k, l \in 1 .. Len(v) : k < l => f[k] < f[l]
        /\ \A i \in S : \E k \in 1 .. Len(v) : f[k] = i
    BY <1>12, <1>13
  <2>4. Cardinality(S) = Len(v) /\ \A k \in 1 .. Len(v) : Nth(S, k) = f[k]
    BY <1>11, <2>1, <2>2, <2>3, NthUnique
  <2> QED
    BY <1>14, <2>1, <2>4 DEF Pick
<1> QED
  BY <1>15 DEF v

(* Counting in what was picked, up to an element, is counting among the    *)
(* positions up to its own.                                                *)
Count(s, S, b, x) == Cardinality({i \in S : i <= b /\ s[i] = x})

LEMMA CountPicked ==
  ASSUME NEW T, NEW s \in Seq(T), NEW S \in SUBSET (1 .. Len(s)),
         NEW k \in 1 .. Cardinality(S), NEW x
  PROVE  Count(Pick(s, S), 1 .. k, k, x) = Count(s, S, Nth(S, k), x)
<1> DEFINE P == {j \in 1 .. k : j <= k /\ Pick(s, S)[j] = x}
           Q == {i \in S : i <= Nth(S, k) /\ s[i] = x}
           f == [j \in P |-> Nth(S, j)]
           n == Cardinality(S)
<1>1. /\ n \in Nat
      /\ \A j \in 1 .. n : Nth(S, j) \in S /\ Pick(s, S)[j] = s[Nth(S, j)]
  BY PickProperties
<1>2. S \in SUBSET Nat /\ IsFiniteSet(S)
  <2>1. Len(s) \in Nat
    OBVIOUS
  <2> QED
    BY <2>1, FinitePositions
<1>3. ASSUME NEW j \in 1 .. n
      PROVE  Nth(S, j) \in Nat /\ (Nth(S, j) <= Nth(S, k) <=> j \in 1 .. k)
  <2>1. Nth(S, j) \in Nat /\ Nth(S, k) \in Nat
    BY <1>1, <1>2
  <2>2. CASE j < k
    <3>1. Nth(S, j) < Nth(S, k)
      BY <1>2, <2>2, NthIncreasing
    <3> QED
      BY <2>1, <2>2, <3>1
  <2>3. CASE j = k
    BY <2>1, <2>3
  <2>4. CASE k < j
    <3>1. Nth(S, k) < Nth(S, j)
      BY <1>2, <2>4, NthIncreasing
    <3> QED
      BY <2>1, <2>4, <3>1
  <2> QED
    BY <2>2, <2>3, <2>4
<1>4. \A j \in P : j \in 1 .. n /\ j \in 1 .. k /\ Pick(s, S)[j] = x
  BY <1>1
<1>5. f \in [P -> Q]
  <2>1. ASSUME NEW j \in P PROVE Nth(S, j) \in Q
    BY <1>1, <1>3, <1>4
  <2> QED
    BY <2>1
<1>6. \A i, j \in P : f[i] = f[j] => i = j
  <2> SUFFICES ASSUME NEW i \in P, NEW j \in P, f[i] = f[j] PROVE i = j
    OBVIOUS
  <2>1. i \in 1 .. n /\ j \in 1 .. n /\ Nth(S, i) = Nth(S, j)
    BY <1>4
  <2>2. ~(i < j)
    <3> SUFFICES ASSUME i < j PROVE FALSE
      OBVIOUS
    <3>1. Nth(S, i) < Nth(S, j)
      BY <1>2, <2>1, NthIncreasing
    <3> QED
      BY <1>3, <2>1, <3>1
  <2>3. ~(j < i)
    <3> SUFFICES ASSUME j < i PROVE FALSE
      OBVIOUS
    <3>1. Nth(S, j) < Nth(S, i)
      BY <1>2, <2>1, NthIncreasing
    <3> QED
      BY <1>3, <2>1, <3>1
  <2> QED
    BY <1>1, <2>1, <2>2, <2>3
<1>7. ASSUME NEW i \in Q PROVE \E j \in P : f[j] = i
  <2> DEFINE j == Rank(S, i)
  <2>1. i \in S /\ i <= Nth(S, k) /\ s[i] = x
    OBVIOUS
  <2>2. j \in 1 .. n /\ Nth(S, j) = i
    BY <1>2, <2>1, NthRank
  <2> HIDE DEF j
  <2>3. j \in 1 .. k /\ Pick(s, S)[j] = x
    BY <1>1, <1>3, <2>1, <2>2
  <2> QED
    BY <2>2, <2>3
<1>8. f \in Bijection(P, Q)
  <2> HIDE DEF f, P, Q
  <2>1. f \in Injection(P, Q)
    BY <1>5, <1>6 DEF Injection, IsInjective
  <2>2. f \in Surjection(P, Q)
    BY <1>5, <1>7 DEF Surjection
  <2> QED
    BY <2>1, <2>2 DEF Bijection
<1>9. IsFiniteSet(P)
  <2>1. IsFiniteSet(1 .. k)
    BY FS_Interval
  <2>2. P \in SUBSET (1 .. k)
    OBVIOUS
  <2> HIDE DEF P
  <2> QED
    BY <2>1, <2>2, FS_Subset
<1>10. Cardinality(Q) = Cardinality(P)
  <2> HIDE DEF f, P, Q
  <2> QED
    BY <1>8, <1>9, FS_Bijection DEF ExistsBijection
<1> QED
  BY <1>10 DEF Count

(* Sequence u is as s where S picks, and its position b is behind all that.*)
Behind(s, S, u, b) == \A i \in S : i < b /\ u[i] = s[i]

(* A longer sequence of which one more element is picked, behind the ones  *)
(* picked before.                                                          *)
LEMMA PickGrow ==
  ASSUME NEW T, NEW s \in Seq(T), NEW S \in SUBSET (1 .. Len(s)),
         NEW u \in Seq(T), NEW b \in 1 .. Len(u), Behind(s, S, u, b)
  PROVE  Pick(u, S \cup {b}) = Append(Pick(s, S), u[b])
<1> DEFINE n == Cardinality(S)
           v == Append(Pick(s, S), u[b])
           R == S \cup {b}
           f == [k \in 1 .. Len(v) |-> IF k <= n THEN Nth(S, k) ELSE b]
<1>1. /\ n \in Nat /\ Len(s) \in Nat /\ Len(u) \in Nat
      /\ S \in SUBSET Nat /\ IsFiniteSet(S)
      /\ u[b] \in T
      /\ \A i \in S : i < b /\ u[i] = s[i]
  BY FinitePositions, ElementOfSeq DEF Behind
<1>2. /\ Pick(s, S) \in Seq(T) /\ Len(Pick(s, S)) = n
      /\ \A k \in 1 .. n : Nth(S, k) \in S /\ Pick(s, S)[k] = s[Nth(S, k)]
  BY PickProperties
<1>3. /\ v \in Seq(T) /\ Len(v) = n + 1
      /\ \A k \in 1 .. n : v[k] = Pick(s, S)[k]
      /\ v[n + 1] = u[b]
  BY <1>1, <1>2, AppendProperties
<1>4. R \in SUBSET (1 .. Len(u))
  <2>1. \A i \in S : i \in 1 .. Len(u)
    BY <1>1
  <2> QED
    BY <2>1
<1> HIDE DEF n, v
<1>5. DOMAIN f = 1 .. Len(v) /\ f[n + 1] = b /\ \A k \in 1 .. n : f[k] = Nth(S, k)
  BY <1>1, <1>3
<1> HIDE DEF f
<1>6. f \in [1 .. Len(v) -> R]
  <2>1. \A k \in 1 .. Len(v) : f[k] \in R
    BY <1>1, <1>2, <1>3, <1>5
  <2>2. f = [k \in 1 .. Len(v) |-> f[k]]
    BY DEF f
  <2> QED
    BY <2>1, <2>2
<1>7. \A k, l \in 1 .. Len(v) : k < l => f[k] < f[l]
  <2> SUFFICES ASSUME NEW k \in 1 .. Len(v), NEW l \in 1 .. Len(v), k < l
               PROVE  f[k] < f[l]
    OBVIOUS
  <2>1. k \in 1 .. n /\ (l \in 1 .. n \/ l = n + 1)
    BY <1>1, <1>3
  <2>2. CASE l \in 1 .. n
    <3>1. Nth(S, k) < Nth(S, l)
      BY <1>1, <2>1, <2>2, NthIncreasing DEF n
    <3> QED
      BY <1>5, <2>1, <2>2, <3>1
  <2>3. CASE l = n + 1
    BY <1>1, <1>2, <1>5, <2>1, <2>3
  <2> QED
    BY <2>1, <2>2, <2>3
<1>8. \A i \in R : \E k \in 1 .. Len(v) : f[k] = i
  <2> SUFFICES ASSUME NEW i \in R PROVE \E k \in 1 .. Len(v) : f[k] = i
    OBVIOUS
  <2>1. CASE i \in S
    <3>1. Rank(S, i) \in 1 .. n /\ Nth(S, Rank(S, i)) = i
      BY <1>1, <2>1, NthRank DEF n
    <3>2. Rank(S, i) \in 1 .. Len(v)
      BY <1>1, <1>3, <3>1
    <3> QED
      BY <1>5, <3>1, <3>2
  <2>2. CASE i = b
    <3>1. n + 1 \in 1 .. Len(v)
      BY <1>1, <1>3
    <3> QED
      BY <1>5, <2>2, <3>1
  <2> QED
    BY <2>1, <2>2
<1>9. \A k \in 1 .. Len(v) : v[k] = u[f[k]]
  <2> SUFFICES ASSUME NEW k \in 1 .. Len(v) PROVE v[k] = u[f[k]]
    OBVIOUS
  <2>1. CASE k \in 1 .. n
    <3>1. v[k] = s[Nth(S, k)] /\ f[k] = Nth(S, k) /\ Nth(S, k) \in S
      BY <1>2, <1>3, <1>5, <2>1, Zenon
    <3>2. u[Nth(S, k)] = s[Nth(S, k)]
      BY <1>1, <3>1, Zenon
    <3> QED
      BY <3>1, <3>2, Zenon
  <2>2. CASE k = n + 1
    BY <1>1, <1>3, <1>5, <2>2
  <2>3. k \in 1 .. n \/ k = n + 1
    BY <1>1, <1>3
  <2> QED
    BY <2>1, <2>2, <2>3
<1> HIDE DEF R
<1>10. Pick(u, R) = v
  <2>1. Len(v) \in Nat /\ R \in SUBSET Nat
    BY <1>1, <1>3, <1>4
  <2>2. Cardinality(R) = Len(v) /\ \A k \in 1 .. Len(v) : Nth(R, k) = f[k]
    BY <1>6, <1>7, <1>8, <2>1, NthUnique
  <2>3. Pick(u, R) = [k \in 1 .. Len(v) |-> v[k]]
    BY <1>9, <2>2 DEF Pick
  <2> QED
    BY <1>3, <2>3
<1> QED
  BY <1>10 DEF R, v

(* Picking a beginning.                                                    *)
LEMMA NthOfInterval ==
  ASSUME NEW m \in Nat, NEW k \in 1 .. m
  PROVE  Nth(1 .. m, k) = k
<1> DEFINE S == 1 .. m
<1>1. S \in SUBSET Nat /\ IsFiniteSet(S) /\ Cardinality(S) = m
  BY FS_Interval
<1>2. Rank(S, k) = k
  <2>1. {j \in S : j <= k} = 1 .. k
    OBVIOUS
  <2>2. Cardinality(1 .. k) = k
    BY FS_Interval
  <2> QED
    BY <2>1, <2>2 DEF Rank
<1>3. k \in S
  OBVIOUS
<1> HIDE DEF S
<1>4. Nth(S, Rank(S, k)) = k
  BY <1>1, <1>3, NthRank
<1> QED
  BY <1>2, <1>4 DEF S

LEMMA PickBeginning ==
  ASSUME NEW T, NEW s \in Seq(T), NEW m \in 0 .. Len(s)
  PROVE  /\ Pick(s, 1 .. m) \in Seq(T)
         /\ Len(Pick(s, 1 .. m)) = m
         /\ \A k \in 1 .. m : Pick(s, 1 .. m)[k] = s[k]
<1> DEFINE S == 1 .. m
<1>1. Len(s) \in Nat /\ m \in Nat /\ S \in SUBSET (1 .. Len(s))
  OBVIOUS
<1>2. Cardinality(S) = m /\ \A k \in 1 .. m : Nth(S, k) = k
  <2>1. Cardinality(S) = m
    BY <1>1, FS_Interval
  <2>2. \A k \in 1 .. m : Nth(1 .. m, k) = k
    BY <1>1, NthOfInterval
  <2> QED
    BY <2>1, <2>2
<1> HIDE DEF S
<1>3. /\ Pick(s, S) \in Seq(T) /\ Len(Pick(s, S)) = Cardinality(S)
      /\ \A k \in 1 .. Cardinality(S) : Pick(s, S)[k] = s[Nth(S, k)]
  BY <1>1, PickProperties
<1> QED
  BY <1>2, <1>3 DEF S

(* A set of positions that has each position before one of its own is a    *)
(* beginning.                                                              *)
LEMMA BeginningSet ==
  ASSUME NEW n \in Nat, NEW S \in SUBSET (1 .. n),
         \A i \in S : \A j \in 1 .. i : j \in S
  PROVE  Cardinality(S) \in 0 .. n /\ S = 1 .. Cardinality(S)
<1> DEFINE m == Cardinality(S)
<1>1. S \in SUBSET Nat /\ IsFiniteSet(S) /\ m \in 0 .. n /\ m \in Nat
  BY FinitePositions
<1>2. ASSUME NEW i \in S PROVE Rank(S, i) = i
  <2>1. i \in Nat /\ \A j \in S : j \in Nat /\ j >= 1
    BY <1>1
  <2>2. \A j \in 1 .. i : j \in S /\ j <= i
    BY <2>1
  <2>3. {j \in S : j <= i} = 1 .. i
    <3>1. ASSUME NEW j \in S, j <= i PROVE j \in 1 .. i
      BY <2>1, <3>1
    <3>2. \A j \in 1 .. i : j \in {l \in S : l <= i}
      BY <2>2
    <3> QED
      BY ONLY <3>1, <3>2, Zenon
  <2>4. Cardinality(1 .. i) = i
    BY <2>1, FS_Interval
  <2> QED
    BY <2>3, <2>4 DEF Rank
<1>3. \A i \in S : i \in 1 .. m
  BY <1>1, <1>2, NthRank
<1>4. ASSUME NEW k \in 1 .. m PROVE k \in S
  <2>1. Nth(S, k) \in S /\ Rank(S, Nth(S, k)) = k
    BY <1>1, NthElement
  <2> QED
    BY <1>2, <2>1
<1> QED
  BY <1>1, <1>3, <1>4
===============================================================================
