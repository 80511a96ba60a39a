---------------------------- MODULE SortingProofs ---------------------------
(***************************************************************************)
(* InOrder lists each element of a finite set once and in order, whatever  *)
(* the set and the strict total order.                                     *)
(***************************************************************************)
EXTENDS Sorting, FiniteSetTheorems, TLAPS

-----------------------------------------------------------------------------
\* A non-empty set of naturals has a smallest element.
LEMMA HasSmallest ==
    ASSUME NEW S \in SUBSET Nat, S # {}
    PROVE  \E x \in S : \A y \in S : x <= y
  <1>1. \E x \in S : \A y \in S : ~(<<y, x>> \in OpToRel(<, Nat))
    BY NatLessThanWellFounded, WFMin, Zenon
  <1>2. ASSUME NEW x \in S, NEW y \in S, ~(<<y, x>> \in OpToRel(<, Nat))
        PROVE  x <= y
    BY <1>2 DEF OpToRel
  <1> QED
    BY <1>1, <1>2

\* The number of elements ahead tells elements apart: it grows along the order.
LEMMA AheadGrows ==
    ASSUME NEW S, IsFiniteSet(S), NEW before, IsStrictTotalOrder(before, S),
           NEW x \in S, NEW y \in S, <<x, y>> \in before
    PROVE  /\ Cardinality(Ahead(S, before, x)) \in Nat
           /\ Cardinality(Ahead(S, before, y)) \in Nat
           /\ Cardinality(Ahead(S, before, x)) < Cardinality(Ahead(S, before, y))
  <1> DEFINE X == Ahead(S, before, x)
             Y == Ahead(S, before, y)
  <1>1. IsFiniteSet(X) /\ IsFiniteSet(Y)
    BY FS_Subset DEF Ahead
  <1>2. X \in SUBSET Y
    BY DEF Ahead, IsStrictTotalOrder
  <1>3. x \in Y /\ x \notin X
    BY DEF Ahead, IsStrictTotalOrder
  <1> HIDE DEF X, Y
  <1>4. Cardinality(X) \in Nat /\ Cardinality(Y) \in Nat
    BY <1>1, FS_CardinalityType
  <1>5. Cardinality(X) <= Cardinality(Y) /\ Cardinality(X) # Cardinality(Y)
    BY <1>1, <1>2, <1>3, FS_Subset
  <1> QED
    BY <1>4, <1>5 DEF X, Y

\* Every place is taken.
LEMMA PlaceIsTaken ==
    ASSUME NEW S, IsFiniteSet(S), NEW before, IsStrictTotalOrder(before, S)
    PROVE  /\ Cardinality(S) \in Nat
           /\ \A x \in S : Cardinality(Ahead(S, before, x)) + 1 \in 1 .. Cardinality(S)
           /\ \A i \in 1 .. Cardinality(S) :
                \E x \in S : Cardinality(Ahead(S, before, x)) = i - 1
  <1> DEFINE n == Cardinality(S)
             place == [x \in S |-> Cardinality(Ahead(S, before, x)) + 1]
  <1>1. n \in Nat
    BY FS_CardinalityType
  <1>2. ASSUME NEW x \in S
        PROVE  /\ Cardinality(Ahead(S, before, x)) \in Nat
               /\ Cardinality(Ahead(S, before, x)) + 1 \in 1 .. n
    <2>1. Ahead(S, before, x) \in SUBSET S /\ Ahead(S, before, x) # S
      BY DEF Ahead, IsStrictTotalOrder
    <2>2. IsFiniteSet(Ahead(S, before, x))
      BY <2>1, FS_Subset
    <2>3. Cardinality(Ahead(S, before, x)) \in Nat
      BY <2>2, FS_CardinalityType
    <2>4. /\ Cardinality(Ahead(S, before, x)) <= n
          /\ Cardinality(Ahead(S, before, x)) # n
      BY <2>1, FS_Subset
    <2> QED
      BY <1>1, <2>3, <2>4
  <1>3. place \in [S -> 1 .. n]
    BY <1>2
  <1>4. ASSUME NEW x \in S, NEW y \in S, x # y PROVE place[x] # place[y]
    <2>1. <<x, y>> \in before \/ <<y, x>> \in before
      BY <1>4 DEF IsStrictTotalOrder
    <2>2. \/ Cardinality(Ahead(S, before, x)) < Cardinality(Ahead(S, before, y))
          \/ Cardinality(Ahead(S, before, y)) < Cardinality(Ahead(S, before, x))
      BY <2>1, AheadGrows
    <2> QED
      BY <1>2, <2>2
  <1>5. place \in Injection(S, 1 .. n)
    BY <1>3, <1>4 DEF Injection, IsInjective
  <1>6. IsFiniteSet(1 .. n) /\ Cardinality(1 .. n) = n
    BY <1>1, FS_Interval
  <1>7. place \in Surjection(S, 1 .. n)
    <2> HIDE DEF place
    <2> QED
      BY <1>5, <1>6, FS_Injection
  <1>8. ASSUME NEW i \in 1 .. n
        PROVE  \E x \in S : Cardinality(Ahead(S, before, x)) = i - 1
    <2>1. PICK x \in S : place[x] = i
      <3> HIDE DEF place
      <3> QED
        BY <1>7 DEF Surjection
    <2>2. Cardinality(Ahead(S, before, x)) + 1 = i
      BY <2>1
    <2> QED
      BY <1>1, <1>2, <2>2
  <1> QED
    BY <1>1, <1>2, <1>8

\* The sorted sequence has the elements of the set, each at the place after
\* those ahead of it, and in order.
THEOREM InOrderSorts ==
    ASSUME NEW S, IsFiniteSet(S), NEW before, IsStrictTotalOrder(before, S)
    PROVE  LET sorted == InOrder(S, before)
           IN  /\ Cardinality(S) \in Nat
               /\ sorted \in [1 .. Cardinality(S) -> S]
               /\ \A i \in 1 .. Cardinality(S) :
                    Cardinality(Ahead(S, before, sorted[i])) = i - 1
               /\ \A x \in S : \E i \in 1 .. Cardinality(S) : sorted[i] = x
               /\ \A i, j \in 1 .. Cardinality(S) :
                    i < j => <<sorted[i], sorted[j]>> \in before
  <1> DEFINE sorted == InOrder(S, before)
             n == Cardinality(S)
  <1>1. n \in Nat
    BY PlaceIsTaken
  <1>2. ASSUME NEW i \in 1 .. n
        PROVE  sorted[i] \in S /\ Cardinality(Ahead(S, before, sorted[i])) = i - 1
    <2>1. \E x \in S : Cardinality(Ahead(S, before, x)) = i - 1
      BY PlaceIsTaken
    <2>2. sorted[i] = CHOOSE x \in S : Cardinality(Ahead(S, before, x)) = i - 1
      BY DEF InOrder
    <2> QED
      BY <2>1, <2>2
  <1>3. sorted \in [1 .. n -> S]
    BY <1>2 DEF InOrder
  <1> HIDE DEF sorted
  <1>4. ASSUME NEW i \in 1 .. n, NEW j \in 1 .. n, i < j
        PROVE  <<sorted[i], sorted[j]>> \in before
    <2>1. CASE sorted[i] = sorted[j]
      BY <1>1, <1>2, <1>4, <2>1
    <2>2. CASE <<sorted[j], sorted[i]>> \in before
      <3>1. Cardinality(Ahead(S, before, sorted[j])) < Cardinality(Ahead(S, before, sorted[i]))
        BY <1>2, <2>2, AheadGrows
      <3> QED
        BY <1>1, <1>2, <1>4, <3>1
    <2> QED
      BY <1>2, <2>1, <2>2 DEF IsStrictTotalOrder
  <1>5. ASSUME NEW x \in S PROVE \E i \in 1 .. n : sorted[i] = x
    <2> DEFINE i == Cardinality(Ahead(S, before, x)) + 1
    <2>1. i \in 1 .. n
      BY PlaceIsTaken
    <2>2. Cardinality(Ahead(S, before, sorted[i])) = i - 1 /\ sorted[i] \in S
      BY <1>2, <2>1
    <2>3. Cardinality(Ahead(S, before, x)) = i - 1
      <3>1. IsFiniteSet(Ahead(S, before, x))
        BY FS_Subset DEF Ahead
      <3>2. Cardinality(Ahead(S, before, x)) \in Nat
        BY <3>1, FS_CardinalityType
      <3> QED
        BY <3>2
    <2> HIDE DEF i
    <2>4. CASE <<x, sorted[i]>> \in before \/ <<sorted[i], x>> \in before
      <3>1. /\ Cardinality(Ahead(S, before, x)) \in Nat
            /\ \/ Cardinality(Ahead(S, before, x)) < Cardinality(Ahead(S, before, sorted[i]))
               \/ Cardinality(Ahead(S, before, sorted[i])) < Cardinality(Ahead(S, before, x))
        BY <2>2, <2>4, AheadGrows
      <3> QED
        BY <2>2, <2>3, <3>1
    <2> QED
      BY <2>1, <2>2, <2>4 DEF IsStrictTotalOrder
  <1> QED
    BY <1>1, <1>2, <1>3, <1>4, <1>5 DEF sorted
=============================================================================
