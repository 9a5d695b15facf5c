----------------------------- MODULE SortingProofs -----------------------------
(***************************************************************************)
(* Proofs about Sorting, for lists of every length: a stable sort always    *)
(* has a result, and one only.  Hence neither the sort of scatter nor that  *)
(* of the registry is a choice, and neither can get stuck.  First, that any *)
(* set of numbers has a least one, which other proofs use as well.          *)
(***************************************************************************)
EXTENDS Sorting, FiniteSetTheorems, FunctionTheorems, NaturalsInduction, TLAPS

\* Of a set of numbers there is a least one.
LEMMA Least ==
    ASSUME NEW S \in SUBSET Nat, S # {}
    PROVE  \E i \in S : \A j \in S : i <= j
<1>1. PICK R : IsWellFoundedOn(R, Nat) /\ \A x, y \in Nat : x < y => <<x, y>> \in R
  <2>1. IsWellFoundedOn(OpToRel(<, Nat), Nat)
    BY NatLessThanWellFounded
  <2>2. \A x, y \in Nat : x < y => <<x, y>> \in OpToRel(<, Nat)
    BY DEF OpToRel
  <2> QED
    BY <2>1, <2>2
<1>2. IsWellFoundedOn(R, Nat)
  BY <1>1
<1>3. \E i \in S : \A j \in S : ~ (<<j, i>> \in R)
  <2>1. S \subseteq Nat
    OBVIOUS
  <2> QED
    BY <1>2, <2>1, WFMin, Zenon
<1>4. PICK i \in S : \A j \in S : ~ (<<j, i>> \in R)
  BY <1>3
<1>5. \A j \in S : j < i => <<j, i>> \in R
  BY <1>1
<1>6. \A j \in S : ~ (j < i)
  BY <1>4, <1>5
<1>7. \A j \in S : j \in Nat /\ i \in Nat
  OBVIOUS
<1> QED
  BY <1>6, <1>7

\* The elements that come before i in the sorted list, and i itself.
Before(keys, i) ==
    {j \in 1 .. Len(keys) : keys[j] < keys[i] \/ (keys[j] = keys[i] /\ j <= i)}

\* The place i comes to in the sorted list.
Place(keys, i) == Cardinality(Before(keys, i))

\* The size of an interval.
LEMMA UpTo ==
    ASSUME NEW n \in Nat
    PROVE  IsFiniteSet(1 .. n) /\ Cardinality(1 .. n) = n
<1>1. 1 \in Int /\ n \in Int
  OBVIOUS
<1>2. IsFiniteSet(1 .. n) /\ Cardinality(1 .. n) = IF 1 > n THEN 0 ELSE n - 1 + 1
  BY <1>1, FS_Interval
<1> QED
  BY <1>2

\* A place is a position of the list.
LEMMA PlaceShape ==
    ASSUME NEW keys \in Seq(Nat), NEW i \in 1 .. Len(keys)
    PROVE  /\ IsFiniteSet(Before(keys, i))
           /\ Place(keys, i) \in 1 .. Len(keys)
<1>1. Len(keys) \in Nat /\ keys[i] \in Nat
  OBVIOUS
<1>2. IsFiniteSet(1 .. Len(keys)) /\ Cardinality(1 .. Len(keys)) = Len(keys)
  BY <1>1, UpTo
<1>3. Before(keys, i) \in SUBSET (1 .. Len(keys)) /\ i \in Before(keys, i)
  BY <1>1 DEF Before
<1>4. IsFiniteSet(Before(keys, i)) /\ Place(keys, i) <= Len(keys)
  BY <1>2, <1>3, FS_Subset DEF Place
<1>5. Place(keys, i) \in Nat /\ Place(keys, i) # 0
  BY <1>3, <1>4, FS_CardinalityType, FS_EmptySet DEF Place
<1> QED
  BY <1>1, <1>4, <1>5

\* What is smaller, or as small and earlier, comes to an earlier place.
LEMMA PlaceOrder ==
    ASSUME NEW keys \in Seq(Nat), NEW i \in 1 .. Len(keys), NEW j \in 1 .. Len(keys),
           keys[i] < keys[j] \/ (keys[i] = keys[j] /\ i < j)
    PROVE  Place(keys, i) < Place(keys, j)
<1>1. \A k \in 1 .. Len(keys) : keys[k] \in Nat /\ k \in Nat
  OBVIOUS
<1>2. Before(keys, i) \in SUBSET Before(keys, j)
  BY <1>1 DEF Before
<1>3. j \in Before(keys, j) /\ j \notin Before(keys, i)
  BY <1>1 DEF Before
<1>4. /\ IsFiniteSet(Before(keys, j))
      /\ Place(keys, i) \in 1 .. Len(keys) /\ Place(keys, j) \in 1 .. Len(keys)
  BY PlaceShape
<1>5. Place(keys, i) <= Place(keys, j) /\ Place(keys, i) # Place(keys, j)
  BY <1>2, <1>3, <1>4, FS_Subset DEF Place
<1> QED
  BY <1>4, <1>5

\* No two elements come to the same place.
LEMMA PlacesDiffer ==
    ASSUME NEW keys \in Seq(Nat), NEW i \in 1 .. Len(keys), NEW j \in 1 .. Len(keys),
           Place(keys, i) = Place(keys, j)
    PROVE  i = j
<1>1. keys[i] \in Nat /\ keys[j] \in Nat /\ i \in Nat /\ j \in Nat
  OBVIOUS
<1>2. Place(keys, i) \in Nat /\ Place(keys, j) \in Nat
  BY PlaceShape
<1>3. ~(keys[i] < keys[j] \/ (keys[i] = keys[j] /\ i < j))
  BY <1>2, PlaceOrder
<1>4. ~(keys[j] < keys[i] \/ (keys[j] = keys[i] /\ j < i))
  BY <1>2, PlaceOrder
<1> QED
  BY <1>1, <1>3, <1>4

\* Every place is taken, as there are as many as elements.
LEMMA EveryPlaceTaken ==
    ASSUME NEW keys \in Seq(Nat), NEW k \in 1 .. Len(keys)
    PROVE  \E i \in 1 .. Len(keys) : Place(keys, i) = k
<1> DEFINE S == 1 .. Len(keys)
           f == [i \in S |-> Place(keys, i)]
<1>1. IsFiniteSet(S)
  BY UpTo
<1>2. f \in Injection(S, S)
  <2>1. f \in [S -> S]
    BY PlaceShape
  <2>2. \A i, j \in S : f[i] = f[j] => i = j
    BY PlacesDiffer
  <2> HIDE DEF f
  <2> QED
    BY <2>1, <2>2, Fun_IsInj
<1>3. f \in Surjection(S, S)
  BY <1>1, <1>2, FS_Injection
<1> QED
  BY <1>3 DEF Surjection

\* To put every element at its place is a stable sort.
LEMMA SomeOrder ==
    ASSUME NEW keys \in Seq(Nat)
    PROVE  \E p \in StableOrders(keys) : TRUE
<1> DEFINE m == Len(keys)
           p == [k \in 1 .. m |-> CHOOSE i \in 1 .. m : Place(keys, i) = k]
<1>1. m \in Nat /\ \A k \in 1 .. m : keys[k] \in Nat
  OBVIOUS
<1>2. \A k \in 1 .. m : p[k] \in 1 .. m /\ Place(keys, p[k]) = k
  BY EveryPlaceTaken
<1> HIDE DEF p
<1>3. p \in [1 .. m -> 1 .. m]
  BY <1>2 DEF p
<1>4. \A i \in 1 .. m : p[Place(keys, i)] = i
  BY <1>2, PlaceShape, PlacesDiffer
<1>5. Permutes(p, m)
  BY <1>2, <1>3, <1>4, PlaceShape DEF Permutes
<1>6. ASSUME NEW j \in 1 .. m, NEW k \in 1 .. m, j < k
      PROVE  keys[p[j]] < keys[p[k]] \/ (keys[p[j]] = keys[p[k]] /\ p[j] < p[k])
  <2>1. /\ keys[p[j]] \in Nat /\ keys[p[k]] \in Nat
        /\ p[j] \in Nat /\ p[k] \in Nat
        /\ p[j] # p[k]
    BY <1>1, <1>2, <1>6
  <2>2. ~(keys[p[k]] < keys[p[j]] \/ (keys[p[k]] = keys[p[j]] /\ p[k] < p[j]))
    BY <1>2, <1>6, PlaceOrder
  <2> QED
    BY <2>1, <2>2
<1>7. Orders(p, keys)
  BY <1>6 DEF Orders
<1> QED
  BY <1>3, <1>5, <1>7 DEF StableOrders

\* Any stable sort puts every element at its place.
LEMMA AtItsPlace ==
    ASSUME NEW keys \in Seq(Nat), NEW p \in StableOrders(keys), NEW k \in 1 .. Len(keys)
    PROVE  p[k] \in 1 .. Len(keys) /\ Place(keys, p[k]) = k
<1> DEFINE m == Len(keys)
           first == {p[j] : j \in 1 .. k}
           f == [j \in 1 .. k |-> p[j]]
<1>1. m \in Nat /\ \A j \in 1 .. m : keys[j] \in Nat
  OBVIOUS
<1>2. /\ p \in [1 .. m -> 1 .. m]
      /\ \A i \in 1 .. m : \E j \in 1 .. m : p[j] = i
      /\ \A i, j \in 1 .. m : i < j =>
            keys[p[i]] < keys[p[j]] \/ (keys[p[i]] = keys[p[j]] /\ p[i] < p[j])
  BY DEF StableOrders, Permutes, Orders
<1> HIDE DEF m
<1>3. ASSUME NEW j \in 1 .. m PROVE p[j] \in 1 .. m /\ p[j] \in Nat /\ keys[p[j]] \in Nat
  <2>1. p[j] \in 1 .. m
    BY <1>2
  <2> QED
    BY <1>1, <2>1
<1>4. ASSUME NEW i \in 1 .. m, NEW j \in 1 .. m, p[i] = p[j] PROVE i = j
  <2>1. /\ i < j => keys[p[i]] < keys[p[j]] \/ (keys[p[i]] = keys[p[j]] /\ p[i] < p[j])
        /\ j < i => keys[p[j]] < keys[p[i]] \/ (keys[p[j]] = keys[p[i]] /\ p[j] < p[i])
    BY <1>2
  <2>2. p[i] \in Nat /\ keys[p[i]] \in Nat
    BY <1>3
  <2>3. ~(i < j) /\ ~(j < i)
    BY <1>4, <2>1, <2>2
  <2> QED
    BY <1>1, <2>3
<1>9. k \in 1 .. m /\ m = Len(keys)
  BY DEF m
<1>5. first = Before(keys, p[k])
  <2>1. ASSUME NEW j \in 1 .. m
        PROVE  j <= k <=> p[j] \in Before(keys, p[k])
    <3>1. j < k \/ j = k \/ k < j
      BY <1>1, <1>9
    <3>2. p[j] \in Before(keys, p[k]) <=>
             keys[p[j]] < keys[p[k]] \/ (keys[p[j]] = keys[p[k]] /\ p[j] <= p[k])
      BY <1>3, <1>9 DEF Before
    <3>3. CASE j < k
      BY <1>1, <1>2, <1>3, <1>9, <3>2, <3>3
    <3>4. CASE j = k
      BY <1>1, <1>3, <1>9, <3>2, <3>4
    <3>5. CASE k < j
      <4>1. keys[p[k]] < keys[p[j]] \/ (keys[p[k]] = keys[p[j]] /\ p[k] < p[j])
        BY <1>2, <1>9, <3>5
      <4> QED
        BY <1>1, <1>3, <1>9, <3>2, <3>5, <4>1
    <3> QED
      BY <3>1, <3>3, <3>4, <3>5
  <2>2. first \subseteq Before(keys, p[k])
    BY <1>1, <1>9, <2>1
  <2>3. Before(keys, p[k]) \subseteq first
    <3> SUFFICES ASSUME NEW i \in Before(keys, p[k]) PROVE i \in first
      OBVIOUS
    <3>1. i \in 1 .. m
      BY <1>9 DEF Before
    <3>2. PICK j \in 1 .. m : p[j] = i
      BY <1>2, <3>1
    <3> QED
      BY <1>1, <2>1, <3>2
  <2> QED
    BY <2>2, <2>3
<1>6. f \in Bijection(1 .. k, first)
  <2>1. f \in [1 .. k -> first] /\ \A i \in first : \E j \in 1 .. k : f[j] = i
    OBVIOUS
  <2>2. \A i, j \in 1 .. k : f[i] = f[j] => i = j
    BY <1>1, <1>4, <1>9
  <2> HIDE DEF f
  <2> QED
    BY <2>1, <2>2, Fun_IsBij
<1>7. IsFiniteSet(1 .. k) /\ Cardinality(1 .. k) = k
  BY UpTo
<1>8. Cardinality(first) = k
  BY <1>6, <1>7, FS_Bijection DEF ExistsBijection
<1> QED
  BY <1>3, <1>5, <1>8, <1>9 DEF Place

\* list.sort(key=...) has one result for every list, so the sort that ends a scatter and
\* the one that ends a sweep always go through and leave nothing to choose.
THEOREM SortsOneWay ==
    ASSUME NEW keys \in Seq(Nat)
    PROVE  \E p : StableOrders(keys) = {p}
<1>1. PICK p \in StableOrders(keys) : TRUE
  BY SomeOrder
<1>2. ASSUME NEW q \in StableOrders(keys) PROVE q = p
  <2>1. \A k \in 1 .. Len(keys) : q[k] = p[k]
    BY AtItsPlace, PlacesDiffer
  <2>2. /\ p \in [1 .. Len(keys) -> 1 .. Len(keys)]
        /\ q \in [1 .. Len(keys) -> 1 .. Len(keys)]
    BY DEF StableOrders
  <2> QED
    BY <2>1, <2>2
<1> QED
  BY <1>1, <1>2
===============================================================================
