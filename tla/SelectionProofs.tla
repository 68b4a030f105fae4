--------------------------- MODULE SelectionProofs ---------------------------
(***************************************************************************)
(* Facts about Selections: the positions chosen are numbered in their      *)
(* order, each once and without gaps, and the numbers are determined by    *)
(* that.                                                                   *)
(***************************************************************************)
EXTENDS Selections, SequenceTheorems, FiniteSetTheorems, FunctionTheorems, TLAPS

\* The place of i among the elements of S
Rank(S, i) == Cardinality({k \in S : k <= i})

\* Ranks are numbers from 1 to the size of the set.
LEMMA RankType ==
    ASSUME NEW S \in SUBSET Int, IsFiniteSet(S), NEW i \in S
    PROVE  Rank(S, i) \in 1 .. Cardinality(S) /\ Cardinality(S) \in Nat
<1> DEFINE upTo == {k \in S : k <= i}
<1>1. IsFiniteSet(upTo) /\ upTo \in SUBSET S
  BY FS_Subset
<1>2. Cardinality(upTo) <= Cardinality(S) /\ Cardinality(upTo) \in Nat /\ Cardinality(S) \in Nat
  BY <1>1, FS_Subset, FS_CardinalityType
<1>3. i \in upTo
  OBVIOUS
<1>4. Cardinality(upTo) # 0
  BY <1>1, <1>3, FS_EmptySet
<1>. QED
  BY <1>2, <1>4 DEF Rank

\* A smaller element has a smaller rank.
LEMMA RankMonotonic ==
    ASSUME NEW S \in SUBSET Int, IsFiniteSet(S), NEW i \in S, NEW j \in S, i < j
    PROVE  Rank(S, i) < Rank(S, j)
<1> DEFINE upTo(x) == {k \in S : k <= x}
<1>0. i \in Int /\ j \in Int /\ \A k \in S : k \in Int
  OBVIOUS
<1>1. upTo(i) \in SUBSET upTo(j) /\ j \in upTo(j) /\ j \notin upTo(i)
  <2>1. \A k \in S : k <= i => k <= j
    BY <1>0
  <2>2. \A k \in upTo(i) : k \in upTo(j)
    BY <2>1
  <2>3. j \in upTo(j) /\ j \notin upTo(i)
    BY <1>0
  <2>. QED
    BY <2>2, <2>3
<1>2. IsFiniteSet(upTo(j)) /\ IsFiniteSet(upTo(i))
  BY FS_Subset
<1>3. Cardinality(upTo(i)) <= Cardinality(upTo(j)) /\ Cardinality(upTo(i)) # Cardinality(upTo(j))
  BY <1>1, <1>2, FS_Subset
<1>4. Cardinality(upTo(i)) \in Nat /\ Cardinality(upTo(j)) \in Nat
  BY <1>2, FS_CardinalityType
<1>. QED
  BY <1>3, <1>4 DEF Rank

\* Ranks are given out once, and none is left out.
LEMMA RankBijection ==
    ASSUME NEW S \in SUBSET Int, IsFiniteSet(S)
    PROVE  /\ \A i, j \in S : Rank(S, i) = Rank(S, j) => i = j
           /\ \A n \in 1 .. Cardinality(S) : \E i \in S : Rank(S, i) = n
<1> DEFINE f == [i \in S |-> Rank(S, i)]
<1>1. ASSUME NEW i \in S, NEW j \in S, Rank(S, i) = Rank(S, j)
      PROVE  i = j
  <2>1. Rank(S, i) \in Int /\ Rank(S, j) \in Int
    BY RankType
  <2>2. ~ (i < j) /\ ~ (j < i)
    BY <1>1, <2>1, RankMonotonic
  <2>. QED
    BY <2>2
<1>2. f \in [S -> 1 .. Cardinality(S)]
  BY RankType
<1>3. f \in Injection(S, 1 .. Cardinality(S))
  BY <1>1, <1>2 DEF Injection, IsInjective
<1>4. Cardinality(S) \in Nat /\ Cardinality(S) \in Int
  BY FS_CardinalityType
<1>5. IsFiniteSet(1 .. Cardinality(S)) /\ Cardinality(1 .. Cardinality(S)) = Cardinality(S)
  BY <1>4, FS_Interval
<1>6. f \in Surjection(S, 1 .. Cardinality(S))
  BY <1>3, <1>5, FS_Injection
<1>7. \A n \in 1 .. Cardinality(S) : \E i \in S : f[i] = n
  BY <1>6 DEF Surjection
<1>. QED
  BY <1>1, <1>7

\* The sequence of the elements: one number for each of them.
LEMMA AscendingType ==
    ASSUME NEW S \in SUBSET Int, IsFiniteSet(S)
    PROVE  /\ Cardinality(S) \in Nat
           /\ DOMAIN Ascending(S) = 1 .. Cardinality(S)
           /\ \A n \in 1 .. Cardinality(S) :
                 Ascending(S)[n] \in S /\ Rank(S, Ascending(S)[n]) = n
<1>1. ASSUME NEW n \in 1 .. Cardinality(S)
      PROVE  Ascending(S)[n] \in S /\ Rank(S, Ascending(S)[n]) = n
  <2>1. \E i \in S : Cardinality({k \in S : k <= i}) = n
    BY RankBijection DEF Rank
  <2>2. Ascending(S)[n] = CHOOSE i \in S : Cardinality({k \in S : k <= i}) = n
    BY DEF Ascending
  <2>. QED
    BY <2>1, <2>2 DEF Rank
<1>. QED
  BY <1>1, FS_CardinalityType DEF Ascending

\* The element of a given rank is the one at that place.
LEMMA AscendingAtRank ==
    ASSUME NEW S \in SUBSET Int, IsFiniteSet(S), NEW i \in S
    PROVE  Rank(S, i) \in 1 .. Cardinality(S) /\ Ascending(S)[Rank(S, i)] = i
<1> DEFINE a == Ascending(S)[Rank(S, i)]
<1>1. Rank(S, i) \in 1 .. Cardinality(S)
  BY RankType
<1>2. a \in S /\ Rank(S, a) = Rank(S, i)
  BY <1>1, AscendingType
<1> HIDE DEF a
<1>3. a = i
  BY <1>2, RankBijection
<1>. QED
  BY <1>1, <1>3 DEF a

\* The sequence has every element once, in ascending order.
LEMMA AscendingOrder ==
    ASSUME NEW S \in SUBSET Int, IsFiniteSet(S),
           NEW m \in 1 .. Cardinality(S), NEW n \in 1 .. Cardinality(S)
    PROVE  /\ m < n => Ascending(S)[m] < Ascending(S)[n]
           /\ m # n => Ascending(S)[m] # Ascending(S)[n]
<1> DEFINE a == Ascending(S)[m]
           b == Ascending(S)[n]
<1>1. a \in S /\ b \in S /\ Rank(S, a) = m /\ Rank(S, b) = n
  BY AscendingType
<1> HIDE DEF a, b
<1>2. a \in Int /\ b \in Int
  BY <1>1
<1>3. b < a => n < m
  BY <1>1, RankMonotonic
<1>. QED
  BY <1>1, <1>2, <1>3 DEF a, b

\* The first numbers in ascending order
LEMMA AscendingInterval ==
    ASSUME NEW n \in Nat, NEW i \in 1 .. n
    PROVE  Ascending(1 .. n)[i] = i
<1> DEFINE D == 1 .. n
           U == {k \in D : k <= i}
<1>1. n \in Int /\ i \in Int /\ 1 \in Int /\ i \in Nat /\ i \in D /\ i # 0
  OBVIOUS
<1>2. IsFiniteSet(D) /\ D \in SUBSET Int
  BY <1>1, FS_Interval
<1>3. U = 1 .. i
  BY <1>1
<1>4. Cardinality(1 .. i) = i
  BY <1>1, FS_Interval
<1>5. Rank(D, i) = i
  BY <1>3, <1>4 DEF Rank
<1> HIDE DEF D
<1>6. Ascending(D)[Rank(D, i)] = i
  BY <1>1, <1>2, AscendingAtRank
<1>. QED
  BY <1>5, <1>6 DEF D

\* Where one set is mapped onto another and the order kept, so are the ranks, and
\* the elements of the two in ascending order go together.
LEMMA AscendingAlong ==
    ASSUME NEW S \in SUBSET Int, IsFiniteSet(S), NEW T \in SUBSET Int,
           NEW h \in [S -> T],
           \A i, j \in S : i < j => h[i] < h[j],
           \A t \in T : \E i \in S : h[i] = t
    PROVE  /\ IsFiniteSet(T) /\ Cardinality(T) = Cardinality(S)
           /\ \A n \in 1 .. Cardinality(S) : Ascending(T)[n] = h[Ascending(S)[n]]
<1>1. ASSUME NEW i \in S, NEW j \in S, h[i] <= h[j]
      PROVE  i <= j
  <2>1. i \in Int /\ j \in Int /\ h[i] \in Int /\ h[j] \in Int
    OBVIOUS
  <2>2. j < i => h[j] < h[i]
    OBVIOUS
  <2>. QED
    BY <1>1, <2>1, <2>2
<1>2. ASSUME NEW i \in S, NEW j \in S, i <= j
      PROVE  h[i] <= h[j]
  <2>1. i \in Int /\ j \in Int /\ h[i] \in Int /\ h[j] \in Int
    OBVIOUS
  <2>2. i < j => h[i] < h[j]
    OBVIOUS
  <2>. QED
    BY <1>2, <2>1, <2>2
<1>3. ASSUME NEW i \in S, NEW j \in S, h[i] = h[j]
      PROVE  i = j
  <2>1. i \in Int /\ j \in Int /\ h[i] \in Int /\ h[j] \in Int
    OBVIOUS
  <2>2. i <= j /\ j <= i
    BY <1>1, <1>3, <2>1
  <2>. QED
    BY <2>1, <2>2
<1>4. ASSUME NEW A \in SUBSET S, NEW B \in SUBSET T,
             \A i \in A : h[i] \in B,
             \A t \in B : \E i \in A : h[i] = t
      PROVE  IsFiniteSet(B) /\ Cardinality(B) = Cardinality(A)
  <2> DEFINE g == [i \in A |-> h[i]]
  <2>1. g \in [A -> B]
    BY <1>4
  <2>2. \A i, j \in A : g[i] = g[j] => i = j
    BY <1>3
  <2>3. \A t \in B : \E i \in A : g[i] = t
    BY <1>4
  <2>4. g \in Surjection(A, B) /\ g \in Injection(A, B)
    BY <2>1, <2>2, <2>3 DEF Injection, Surjection, IsInjective
  <2>5. IsFiniteSet(A)
    BY FS_Subset
  <2>. QED
    BY <2>4, <2>5, FS_Surjection
<1>5. IsFiniteSet(T) /\ Cardinality(T) = Cardinality(S)
  BY <1>4
<1>6. ASSUME NEW i \in S
      PROVE  Rank(T, h[i]) = Rank(S, i)
  <2> DEFINE A == {k \in S : k <= i}
             B == {t \in T : t <= h[i]}
  <2>1. \A k \in A : h[k] \in B
    BY <1>2
  <2>2. ASSUME NEW t \in B
        PROVE  \E k \in A : h[k] = t
    <3>1. PICK k \in S : h[k] = t
      OBVIOUS
    <3>2. k <= i
      BY <1>1, <3>1
    <3>. QED
      BY <3>1, <3>2
  <2>3. A \in SUBSET S /\ B \in SUBSET T
    OBVIOUS
  <2>4. Rank(S, i) = Cardinality(A) /\ Rank(T, h[i]) = Cardinality(B)
    BY DEF Rank
  <2> HIDE DEF A, B
  <2>. QED
    BY <1>4, <2>1, <2>2, <2>3, <2>4
<1>7. ASSUME NEW n \in 1 .. Cardinality(S)
      PROVE  Ascending(T)[n] = h[Ascending(S)[n]]
  <2> DEFINE i == Ascending(S)[n]
  <2>1. i \in S /\ Rank(S, i) = n
    BY AscendingType
  <2> HIDE DEF i
  <2>2. h[i] \in T /\ Rank(T, h[i]) = n
    BY <1>6, <2>1
  <2>3. Ascending(T)[Rank(T, h[i])] = h[i]
    BY <1>5, <2>2, AscendingAtRank
  <2>. QED
    BY <2>2, <2>3 DEF i
<1>. QED
  BY <1>5, <1>7

\* A selection from a sequence is a sequence of some of its elements.
LEMMA SelectedType ==
    ASSUME NEW T, NEW s \in Seq(T), NEW P \in SUBSET DOMAIN s
    PROVE  /\ IsFiniteSet(P) /\ Cardinality(P) \in Nat
           /\ Selected(s, P) \in Seq(T)
           /\ Len(Selected(s, P)) = Cardinality(P)
           /\ \A n \in 1 .. Cardinality(P) :
                 Ascending(P)[n] \in P /\ Selected(s, P)[n] = s[Ascending(P)[n]]
<1>1. Len(s) \in Nat /\ Len(s) \in Int /\ 1 \in Int /\ DOMAIN s = 1 .. Len(s)
  OBVIOUS
<1>2. P \in SUBSET Int /\ IsFiniteSet(P)
  <2>1. IsFiniteSet(1 .. Len(s))
    BY <1>1, FS_Interval
  <2>. QED
    BY <1>1, <2>1, FS_Subset
<1>3. /\ Cardinality(P) \in Nat
      /\ \A n \in 1 .. Cardinality(P) : Ascending(P)[n] \in P
  BY <1>2, AscendingType
<1>4. \A n \in 1 .. Cardinality(P) : s[Ascending(P)[n]] \in T
  BY <1>1, <1>3
<1>5. Selected(s, P) = [n \in 1 .. Cardinality(P) |-> s[Ascending(P)[n]]]
  BY DEF Selected
<1>. QED
  BY <1>2, <1>3, <1>4, <1>5

\* Every element at a chosen position is in the selection.
LEMMA SelectedCovers ==
    ASSUME NEW T, NEW s \in Seq(T), NEW P \in SUBSET DOMAIN s, NEW i \in P
    PROVE  \E n \in 1 .. Cardinality(P) : Ascending(P)[n] = i /\ Selected(s, P)[n] = s[i]
<1>1. P \in SUBSET Int /\ IsFiniteSet(P)
  <2>1. DOMAIN s = 1 .. Len(s) /\ Len(s) \in Nat
    OBVIOUS
  <2>2. P \in SUBSET Int
    BY <2>1
  <2>3. IsFiniteSet(P)
    BY SelectedType
  <2>. QED
    BY <2>2, <2>3
<1>2. Rank(P, i) \in 1 .. Cardinality(P) /\ Ascending(P)[Rank(P, i)] = i
  BY <1>1, AscendingAtRank
<1>3. Selected(s, P)[Rank(P, i)] = s[i]
  BY <1>2, SelectedType
<1>. QED
  BY <1>2, <1>3

\* Selecting every element changes nothing.
LEMMA SelectedAll ==
    ASSUME NEW T, NEW s \in Seq(T)
    PROVE  Selected(s, DOMAIN s) = s
<1> DEFINE D == 1 .. Len(s)
<1>1. D = DOMAIN s /\ Len(s) \in Nat /\ Len(s) \in Int /\ 1 \in Int
  OBVIOUS
<1>2. Cardinality(D) = Len(s)
  BY <1>1, FS_Interval
<1>3. \A i \in D : Ascending(D)[i] = i
  BY <1>1, AscendingInterval
<1>4. Selected(s, D) = [j \in 1 .. Len(s) |-> s[Ascending(D)[j]]]
  BY <1>2 DEF Selected
<1>5. Selected(s, D) = [j \in 1 .. Len(s) |-> s[j]]
  BY <1>3, <1>4
<1>. QED
  BY <1>1, <1>5
===============================================================================
