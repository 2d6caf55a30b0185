--------------------------- MODULE PageTheorems ---------------------------
(***************************************************************************)
(* Facts about the least and the greatest element of a set of naturals,    *)
(* and about the pages in which a listing is read.                         *)
(***************************************************************************)
EXTENDS FiniteSetsExt, FiniteSetTheorems, WellFoundedInduction, TLAPS

\* A finite set of naturals that is not empty has a least element, which Min
\* returns, and a greatest, which Max returns.
LEMMA LeastAndGreatest ==
    ASSUME NEW S, S \subseteq Nat, IsFiniteSet(S), S # {}
    PROVE  /\ Min(S) \in S /\ \A y \in S : Min(S) <= y
           /\ Max(S) \in S /\ \A y \in S : Max(S) >= y
<1> DEFINE Low(T) == \E x \in T : \A y \in T : x <= y
           Top(T) == \E x \in T : \A y \in T : x >= y
           Bad == {T \in SUBSET S : T # {} /\ ~(Low(T) /\ Top(T))}
           R == StrictSubsetOrdering(S)
<1>1. Bad = {}
  <2> SUFFICES ASSUME Bad # {} PROVE FALSE
    OBVIOUS
  <2>1. IsWellFoundedOn(R, SUBSET S)
    BY FS_StrictSubsetOrderingWellFounded, FS_FiniteSubsetsOfFinite
  <2>2. Bad \subseteq SUBSET S
    OBVIOUS
  <2> HIDE DEF Bad, R
  <2>3. PICK T \in Bad : \A U \in Bad : ~(<<U, T>> \in R)
    BY <2>1, <2>2, WFMin
  <2>4. T \subseteq S /\ T # {} /\ ~(Low(T) /\ Top(T))
    BY <2>3 DEF Bad
  <2>5. PICK x \in T : TRUE
    BY <2>4
  <2> DEFINE U == T \ {x}
  <2>6. <<U, T>> \in R
    BY <2>4, <2>5 DEF R, StrictSubsetOrdering
  <2>7. U = {} \/ (Low(U) /\ Top(U))
    BY <2>3, <2>4, <2>6 DEF Bad
  <2>8. CASE U = {}
    <3>1. \A y \in T : y = x
      BY <2>8
    <3> QED
      BY <2>4, <2>5, <3>1
  <2>9. CASE Low(U) /\ Top(U)
    <3>1. \A y \in T : y \in Nat /\ (y = x \/ y \in U)
      BY <2>4
    <3>2. Low(T)
      <4>1. PICK m \in U : \A y \in U : m <= y
        BY <2>9
      <4>2. m \in T /\ m \in Nat /\ x \in Nat
        BY <2>5, <3>1
      <4>3. CASE m <= x
        BY <3>1, <4>1, <4>2, <4>3
      <4>4. CASE x <= m
        BY <2>5, <3>1, <4>1, <4>2, <4>4
      <4> QED
        BY <4>2, <4>3, <4>4
    <3>3. Top(T)
      <4>1. PICK m \in U : \A y \in U : m >= y
        BY <2>9
      <4>2. m \in T /\ m \in Nat /\ x \in Nat
        BY <2>5, <3>1
      <4>3. CASE m >= x
        BY <3>1, <4>1, <4>2, <4>3
      <4>4. CASE x >= m
        BY <2>5, <3>1, <4>1, <4>2, <4>4
      <4> QED
        BY <4>2, <4>3, <4>4
    <3> QED
      BY <2>4, <3>2, <3>3
  <2> QED
    BY <2>7, <2>8, <2>9
<1>2. Low(S) /\ Top(S)
  BY <1>1
<1> QED
  BY <1>2 DEF Min, Max

\* The page of a listing that starts with the least entries.
PageOf(from, size) == {k \in from : Cardinality({j \in from : j < k}) < size}

\* A page is a lower part of what was left to read, and is empty only at the end.
LEMMA PageIsPrefix ==
    ASSUME NEW from, from \subseteq Nat, IsFiniteSet(from), NEW size \in Nat \ {0}
    PROVE  /\ PageOf(from, size) \subseteq from
           /\ IsFiniteSet(PageOf(from, size))
           /\ \A j \in from, k \in PageOf(from, size) : j < k => j \in PageOf(from, size)
           /\ PageOf(from, size) = {} => from = {}
<1> DEFINE below(k) == {j \in from : j < k}
<1>1. PageOf(from, size) \subseteq from /\ IsFiniteSet(PageOf(from, size))
  <2>1. PageOf(from, size) \in SUBSET from
    BY DEF PageOf
  <2> QED
    BY <2>1, FS_Subset
<1>2. ASSUME NEW j \in from, NEW k \in PageOf(from, size), j < k PROVE j \in PageOf(from, size)
  <2>1. k \in from /\ Cardinality(below(k)) < size
    BY DEF PageOf
  <2>2. below(j) \in SUBSET below(k)
    <3>1. ASSUME NEW i \in from, i < j PROVE i < k
      <4>1. i \in Nat /\ j \in Nat /\ k \in Nat
        BY <2>1
      <4> QED
        BY <1>2, <3>1, <4>1
    <3> QED
      BY <3>1
  <2>3. below(k) \in SUBSET from
    OBVIOUS
  <2>4. IsFiniteSet(below(k))
    BY <2>3, FS_Subset
  <2>5. Cardinality(below(j)) <= Cardinality(below(k)) /\ IsFiniteSet(below(j))
    BY <2>2, <2>4, FS_Subset
  <2>6. Cardinality(below(j)) \in Nat /\ Cardinality(below(k)) \in Nat
    BY <2>4, <2>5, FS_CardinalityType
  <2>7. Cardinality(below(j)) < size
    BY <2>1, <2>5, <2>6
  <2> QED
    BY <2>7 DEF PageOf
<1>3. ASSUME from # {} PROVE PageOf(from, size) # {}
  <2>1. Min(from) \in from /\ \A y \in from : Min(from) <= y
    BY <1>3, LeastAndGreatest
  <2>2. below(Min(from)) = {}
    <3>1. ASSUME NEW y \in from, y < Min(from) PROVE FALSE
      <4>1. y \in Nat /\ Min(from) \in Nat /\ Min(from) <= y
        BY <2>1
      <4> QED
        BY <3>1, <4>1
    <3> QED
      BY <3>1
  <2>3. Cardinality(below(Min(from))) = 0
    BY <2>2, FS_EmptySet
  <2> QED
    BY <2>1, <2>3 DEF PageOf
<1> QED
  BY <1>1, <1>2, <1>3

\* A finite set of naturals has an element for every rank below its size: the
\* one with so many others below it.
LEMMA EveryRank ==
    ASSUME NEW S, S \subseteq Nat, IsFiniteSet(S)
    PROVE  \A i \in 1..Cardinality(S) : \E d \in S : Cardinality({e \in S : e < d}) = i - 1
<1> DEFINE Ranked(T) == \A i \in 1..Cardinality(T) : \E d \in T : Cardinality({e \in T : e < d}) = i - 1
           Bad == {T \in SUBSET S : ~Ranked(T)}
           R == StrictSubsetOrdering(S)
<1>1. Bad = {}
  <2> SUFFICES ASSUME Bad # {} PROVE FALSE
    OBVIOUS
  <2>1. IsWellFoundedOn(R, SUBSET S)
    BY FS_StrictSubsetOrderingWellFounded, FS_FiniteSubsetsOfFinite
  <2>2. Bad \subseteq SUBSET S
    OBVIOUS
  <2> HIDE DEF Bad, R
  <2>3. PICK T \in Bad : \A U \in Bad : ~(<<U, T>> \in R)
    BY <2>1, <2>2, WFMin
  <2> HIDE DEF Ranked
  <2>4. T \in SUBSET S /\ ~Ranked(T)
    BY <2>3 DEF Bad
  <2>5. T \subseteq Nat /\ IsFiniteSet(T)
    BY <2>4, FS_Subset
  <2>6. T # {}
    <3>1. Cardinality({}) = 0 /\ 1..0 = {}
      BY FS_EmptySet
    <3>2. Ranked({})
      BY <3>1 DEF Ranked
    <3> QED
      BY <2>4, <3>2
  <2> DEFINE m == Max(T)
             U == T \ {m}
  <2>7. m \in T /\ \A y \in T : m >= y
    BY <2>5, <2>6, LeastAndGreatest
  <2> HIDE DEF m
  <2>8. <<U, T>> \in R /\ U \in SUBSET S
    BY <2>4, <2>7 DEF R, StrictSubsetOrdering
  <2>9. Ranked(U)
    BY <2>3, <2>8 DEF Bad
  <2>10. /\ IsFiniteSet(U) /\ Cardinality(U) \in Nat /\ Cardinality(T) \in Nat
         /\ Cardinality(U) = Cardinality(T) - 1
    BY <2>5, <2>7, FS_RemoveElement, FS_CardinalityType
  <2>11. ASSUME NEW i \in 1..Cardinality(T) PROVE \E d \in T : Cardinality({e \in T : e < d}) = i - 1
    <3>1. CASE i = Cardinality(T)
      <4>1. {e \in T : e < m} = U
        <5>1. \A e \in T : e < m <=> e # m
          <6> SUFFICES ASSUME NEW e \in T PROVE e < m <=> e # m
            OBVIOUS
          <6>1. e \in Nat /\ m \in Nat /\ m >= e
            BY <2>5, <2>7
          <6> QED
            BY <6>1
        <5> QED
          BY <5>1
      <4>2. Cardinality({e \in T : e < m}) = i - 1
        BY <2>10, <3>1, <4>1
      <4> QED
        BY <2>7, <4>2
    <3>2. CASE i # Cardinality(T)
      <4>1. i \in 1..Cardinality(U)
        BY <2>10, <2>11, <3>2
      <4>2. PICK d \in U : Cardinality({e \in U : e < d}) = i - 1
        BY <2>9, <4>1 DEF Ranked
      <4>3. {e \in U : e < d} = {e \in T : e < d}
        <5>1. ~(m < d)
          <6>1. m \in Nat /\ d \in Nat /\ m >= d
            BY <2>5, <2>7
          <6> QED
            BY <6>1
        <5> QED
          BY <5>1
      <4> QED
        BY <4>2, <4>3
    <3> QED
      BY <3>1, <3>2
  <2> QED
    BY <2>4, <2>11 DEF Ranked
<1> QED
  BY <1>1

=============================================================================
