------------------------------- MODULE RankProofs -------------------------------
(* Sorting a finite set by counting: what is in a set has as many elements     *)
(* before it as its place says, and every place is taken.  The models sort     *)
(* files and rows like this (sources/futures_product.py:861,                   *)
(* sql/period_cycles.py:331, sql/futures_products.py:493).                     *)
EXTENDS Integers, FiniteSetTheorems, TLAPS

\* before[x] are the elements of set that a total order puts before x.
IsRanking(set, before) ==
    /\ before \in [set -> SUBSET set]
    /\ \A x \in set : x \notin before[x]
    /\ \A x, y \in set : y \in before[x] => before[y] \subseteq before[x]
    /\ \A x, y \in set : x # y => x \in before[y] \/ y \in before[x]

\* An element has fewer elements before it than the set has.
LEMMA RankIsSmall ==
  ASSUME NEW set, IsFiniteSet(set), NEW before, IsRanking(set, before), NEW x \in set
  PROVE  Cardinality(before[x]) \in 0..Cardinality(set) - 1
<1>1. IsFiniteSet(before[x]) /\ Cardinality(before[x]) <= Cardinality(set)
        /\ (Cardinality(set) = Cardinality(before[x]) => set = before[x])
  <2>1. before[x] \in SUBSET set
    BY DEF IsRanking
  <2> QED BY <2>1, FS_Subset
<1>2. Cardinality(set) \in Nat /\ Cardinality(before[x]) \in Nat
  BY <1>1, FS_CardinalityType
<1>3. set # before[x]
  BY DEF IsRanking
<1> QED BY <1>1, <1>2, <1>3

\* An element has more before it than those before it have.
LEMMA RankGrows ==
  ASSUME NEW set, IsFiniteSet(set), NEW before, IsRanking(set, before),
         NEW x \in set, NEW y \in set, x \in before[y]
  PROVE  Cardinality(before[x]) < Cardinality(before[y])
<1>1. before[x] \in SUBSET before[y] /\ before[x] # before[y] /\ before[y] \in SUBSET set
  BY DEF IsRanking
<1>2. IsFiniteSet(before[y])
  BY <1>1, FS_Subset
<1>3. IsFiniteSet(before[x]) /\ Cardinality(before[x]) <= Cardinality(before[y])
        /\ (Cardinality(before[y]) = Cardinality(before[x]) => before[y] = before[x])
  BY <1>1, <1>2, FS_Subset
<1>4. Cardinality(before[x]) \in Nat /\ Cardinality(before[y]) \in Nat
  BY <1>2, <1>3, FS_CardinalityType
<1> QED BY <1>1, <1>3, <1>4

\* No two elements have as many before them.
LEMMA RankIsUnique ==
  ASSUME NEW set, IsFiniteSet(set), NEW before, IsRanking(set, before),
         NEW x \in set, NEW y \in set, Cardinality(before[x]) = Cardinality(before[y])
  PROVE  x = y
<1>1. ASSUME NEW u \in set, NEW v \in set, u \in before[v]
      PROVE  Cardinality(before[u]) # Cardinality(before[v])
  <2>1. Cardinality(before[u]) \in Int /\ Cardinality(before[v]) \in Int
    BY RankIsSmall
  <2> QED BY <1>1, <2>1, RankGrows
<1> QED BY <1>1 DEF IsRanking

\* Each place, counted from 1, is taken.
THEOREM EveryPlaceIsTaken ==
  ASSUME NEW set, IsFiniteSet(set), NEW before, IsRanking(set, before),
         NEW i \in 1..Cardinality(set)
  PROVE  \E x \in set : Cardinality(before[x]) = i - 1
<1> DEFINE n == Cardinality(set)
           places == 0..n - 1
           rank == [x \in set |-> Cardinality(before[x])]
<1>1. n \in Nat
  BY FS_CardinalityType
<1>2. rank \in Injection(set, places)
  <2>1. rank \in [set -> places]
    BY RankIsSmall
  <2>2. \A x, y \in set : rank[x] = rank[y] => x = y
    BY RankIsUnique
  <2> QED BY <2>1, <2>2 DEF Injection, IsInjective
<1>3. IsFiniteSet(places) /\ Cardinality(places) = n
  <2>1. 0 \in Int /\ n - 1 \in Int
    BY <1>1
  <2>2. IsFiniteSet(0..n - 1) /\ Cardinality(0..n - 1) = IF 0 > n - 1 THEN 0 ELSE n - 1 - 0 + 1
    BY <2>1, FS_Interval
  <2> QED BY <1>1, <2>2
<1>4. rank \in Surjection(set, places)
  <2> HIDE DEF n, places, rank
  <2>1. Cardinality(set) = Cardinality(places)
    BY <1>3 DEF n
  <2> QED BY <1>2, <1>3, <2>1, FS_Injection
<1>5. i - 1 \in places
  BY <1>1
<1> QED BY <1>4, <1>5 DEF Surjection

================================================================================
