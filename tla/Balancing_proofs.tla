------------------------- MODULE Balancing_proofs -------------------------
(***************************************************************************)
(* Proofs about SeqlenBalancing for any lengths and any number of parts.   *)
(*                                                                         *)
(* The differencing method.  A heap is a set of states that hold every     *)
(* item once between them (IsHeap); merging two states keeps that, keeps   *)
(* the sums of the sets, and the spread of the result is at most the       *)
(* larger of the two spreads (MergeIsState): the largest set of one meets  *)
(* the smallest of the other.  By induction over the merges the last state *)
(* divides the items and its spread is at most that of the widest state    *)
(* the heap started with.                                                  *)
(*                                                                         *)
(* Micro-batches.  The order they are run in is a permutation of the parts *)
(* (LightPermutes), the indices of all of them are one of the rows, and    *)
(* gathering by its inverse restores what scattering by it has mapped.     *)
(***************************************************************************)
EXTENDS SeqlenBalancing, TLAPS, WellFoundedInduction, FiniteSetTheorems

-----------------------------------------------------------------------------
\* Numbers.

LEMMA LeastOne ==
    ASSUME NEW S \in SUBSET Nat, S # {}
    PROVE  \E s \in S : \A t \in S : s <= t
  <1> DEFINE R == {p \in Nat \X Nat : p[1] < p[2]}
  <1>1. OpToRel(<, Nat) = R
    BY DEF OpToRel
  <1>2. IsWellFoundedOn(R, Nat)
    BY <1>1, NatLessThanWellFounded
  <1>3. PICK s \in S : \A t \in S : ~(<<t, s>> \in R)
    <2> HIDE DEF R
    <2> QED BY <1>2, WFMin
  <1>4. ASSUME NEW t \in S PROVE s <= t
    <2>1. s \in Nat /\ t \in Nat
      OBVIOUS
    <2>2. t < s => <<t, s>> \in R
      BY <2>1
    <2>3. ~ t < s
      BY <1>3, <2>2
    <2> QED BY ONLY <2>1, <2>3
  <1> QED BY <1>4

-----------------------------------------------------------------------------
\* Sorting: the places of a finite set in a strict order are a bijection.

IsStrictOrder(S, R) ==
    /\ \A x \in S : ~(<<x, x>> \in R)
    /\ \A x, y, z \in S : <<x, y>> \in R /\ <<y, z>> \in R => <<x, z>> \in R
    /\ \A x, y \in S : x # y => <<x, y>> \in R \/ <<y, x>> \in R

\* A sequence that lists the elements of a set once each, along an order.
Lists(s, S, R) ==
    /\ s \in [1..Cardinality(S) -> S]
    /\ \A x \in S : \E p \in DOMAIN s : s[p] = x
    /\ \A p, q \in DOMAIN s : p < q => <<s[p], s[q]>> \in R
    /\ \A p, q \in DOMAIN s : s[p] = s[q] => p = q

PlaceOfIn(x, S, R) == Cardinality({y \in S : <<y, x>> \in R}) + 1

\* What comes earlier has a smaller place.
LEMMA PlacesIncrease ==
    ASSUME NEW S, NEW R, IsFiniteSet(S), IsStrictOrder(S, R),
           NEW x \in S, NEW y \in S, <<x, y>> \in R
    PROVE  PlaceOfIn(x, S, R) < PlaceOfIn(y, S, R)
  <1> DEFINE A == {z \in S : <<z, x>> \in R}
             B == {z \in S : <<z, y>> \in R}
  <1>1. A \subseteq B /\ x \in B /\ x \notin A
    BY DEF IsStrictOrder
  <1>2. IsFiniteSet(B)
    BY FS_Subset
  <1> HIDE DEF A, B
  <1>3. A \in SUBSET B
    BY <1>1
  <1>4. IsFiniteSet(A) /\ Cardinality(A) <= Cardinality(B) /\ (Cardinality(B) = Cardinality(A) => A = B)
    BY <1>2, <1>3, FS_Subset
  <1>5. Cardinality(A) \in Nat /\ Cardinality(B) \in Nat
    BY <1>2, <1>4, FS_CardinalityType
  <1>6. Cardinality(A) < Cardinality(B)
    BY <1>1, <1>4, <1>5
  <1> QED BY <1>5, <1>6 DEF PlaceOfIn, A, B

LEMMA PlacesInRange ==
    ASSUME NEW S, NEW R, IsFiniteSet(S), IsStrictOrder(S, R), NEW x \in S
    PROVE  PlaceOfIn(x, S, R) \in 1..Cardinality(S)
  <1> DEFINE A == {z \in S : <<z, x>> \in R}
  <1>1. A \in SUBSET S /\ x \notin A
    BY DEF IsStrictOrder
  <1> HIDE DEF A
  <1>2. IsFiniteSet(A) /\ Cardinality(A) <= Cardinality(S) /\ (Cardinality(S) = Cardinality(A) => S = A)
    BY <1>1, FS_Subset
  <1>3. Cardinality(A) \in Nat /\ Cardinality(S) \in Nat
    BY <1>2, FS_CardinalityType
  <1>4. Cardinality(A) < Cardinality(S)
    BY <1>1, <1>2, <1>3
  <1>5. Cardinality(A) + 1 \in 1..Cardinality(S)
    BY <1>3, <1>4
  <1> QED BY <1>5 DEF PlaceOfIn, A

\* InOrder lists the set.
LEMMA InOrderLists ==
    ASSUME NEW S, NEW R, IsFiniteSet(S), IsStrictOrder(S, R)
    PROVE  Lists(InOrder(S, R), S, R)
  <1> DEFINE n == Cardinality(S)
             place == [x \in S |-> PlaceOfIn(x, S, R)]
             s == InOrder(S, R)
  <1>1. n \in Nat
    BY FS_CardinalityType
  <1>2. place \in [S -> 1..n]
    BY PlacesInRange
  <1>3. \A x, y \in S : <<x, y>> \in R => place[x] < place[y]
    BY PlacesIncrease
  <1>4. \A x, y \in S : place[x] = place[y] => x = y
    <2> TAKE x, y \in S
    <2> HAVE place[x] = place[y]
    <2> SUFFICES ASSUME x # y PROVE FALSE
      OBVIOUS
    <2>1. place[x] \in 1..n /\ place[y] \in 1..n
      BY <1>2
    <2>2. <<x, y>> \in R \/ <<y, x>> \in R
      BY DEF IsStrictOrder
    <2>3. place[x] < place[y] \/ place[y] < place[x]
      BY <1>3, <2>2
    <2> HIDE DEF place, n
    <2> QED BY <1>1, <2>1, <2>3
  <1>5. place \in Surjection(S, 1..n)
    <2>1. place \in Injection(S, 1..n)
      BY <1>2, <1>4 DEF Injection, IsInjective
    <2>2. 1 \in Int /\ n \in Int
      BY <1>1
    <2>3. IsFiniteSet(1..n) /\ Cardinality(1..n) = IF 1 > n THEN 0 ELSE n - 1 + 1
      BY <2>2, FS_Interval
    <2> HIDE DEF place, n
    <2>4. Cardinality(1..n) = n
      BY <1>1, <2>3
    <2> QED BY <2>1, <2>3, <2>4, FS_Injection DEF n
  <1>6. \A p \in 1..n : \E x \in S : place[x] = p
    BY <1>5 DEF Surjection
  <1>7. /\ s = [p \in 1..n |-> s[p]]
        /\ \A p \in 1..n : s[p] = CHOOSE x \in S : place[x] = p
    <2> DEFINE places == {<<x, Cardinality({y \in S : <<y, x>> \in R}) + 1>> : x \in S}
    <2>1. \A p \in 1..n : \A x \in S : <<x, p>> \in places <=> place[x] = p
      BY DEF PlaceOfIn
    <2> DEFINE first(p) == CHOOSE x \in S : <<x, p>> \in places
    <2>2. s = [p \in 1..n |-> first(p)]
      BY DEF InOrder
    <2> HIDE DEF places, s, place, n
    <2>3. \A p \in 1..n : first(p) = (CHOOSE x \in S : place[x] = p)
      <3> TAKE p \in 1..n
      <3>1. \A x : (x \in S /\ <<x, p>> \in places) <=> (x \in S /\ place[x] = p)
        BY <2>1
      <3> QED BY <3>1
    <2> HIDE DEF first
    <2>4. s = [p \in 1..n |-> s[p]] /\ \A p \in 1..n : s[p] = first(p)
      BY <2>2
    <2> QED BY <2>3, <2>4
  <1> HIDE DEF s, place, n
  <1>8. \A p \in 1..n : s[p] \in S /\ place[s[p]] = p
    BY <1>6, <1>7
  <1>9. \A x \in S : place[x] \in 1..n /\ s[place[x]] = x
    BY <1>2, <1>4, <1>8
  <1>10. s \in [1..n -> S] /\ DOMAIN s = 1..n
    BY <1>7, <1>8
  <1>11. \A p, q \in 1..n : p < q => <<s[p], s[q]>> \in R
    <2> TAKE p, q \in 1..n
    <2> HAVE p < q
    <2>1. s[p] \in S /\ s[q] \in S /\ place[s[p]] = p /\ place[s[q]] = q
      BY <1>8
    <2>2. s[p] # s[q]
      BY <1>1, <2>1
    <2>3. <<s[p], s[q]>> \in R \/ <<s[q], s[p]>> \in R
      BY <2>1, <2>2 DEF IsStrictOrder
    <2>4. ~(<<s[q], s[p]>> \in R)
      BY <1>1, <1>3, <2>1
    <2> QED BY <2>3, <2>4
  <1>12. \A p, q \in 1..n : s[p] = s[q] => p = q
    BY <1>8
  <1> QED BY <1>9, <1>10, <1>11, <1>12 DEF Lists, s, n

\* A strict order of a finite set has a first element.
LEMMA FirstOne ==
    ASSUME NEW S, NEW R, IsFiniteSet(S), S # {}, IsStrictOrder(S, R)
    PROVE  \E x \in S : \A y \in S \ {x} : <<x, y>> \in R
  <1> DEFINE s == InOrder(S, R)
             n == Cardinality(S)
  <1>1. Lists(s, S, R)
    BY InOrderLists
  <1>2. n \in Nat /\ n # 0
    BY FS_CardinalityType, FS_EmptySet
  <1>3. 1 \in 1..n
    BY <1>2
  <1> HIDE DEF s, n
  <1>4. DOMAIN s = 1..n /\ s[1] \in S
    BY <1>1, <1>3 DEF Lists, n
  <1>5. \A y \in S \ {s[1]} : <<s[1], y>> \in R
    <2> TAKE y \in S \ {s[1]}
    <2>1. PICK p \in 1..n : s[p] = y
      BY <1>1, <1>4 DEF Lists
    <2>2. 1 < p
      BY <1>2, <2>1
    <2> QED BY <1>1, <1>3, <1>4, <2>1, <2>2 DEF Lists
  <1> QED BY <1>4, <1>5

-----------------------------------------------------------------------------
\* The orders of the differencing method are strict orders.

Item == Nat \X Nat

SetType == [sum : Nat, items : Seq(Item)]

LEMMA PairsAreOrdered ==
    /\ \A p \in Item : ~PairLess(p, p)
    /\ \A p, q, r \in Item : PairLess(p, q) /\ PairLess(q, r) => PairLess(p, r)
    /\ \A p, q \in Item : p # q => PairLess(p, q) \/ PairLess(q, p)
  <1>1. \A p \in Item : p[1] \in Nat /\ p[2] \in Nat /\ p = <<p[1], p[2]>>
    BY DEF Item
  <1>2. ASSUME NEW p \in Item, NEW q \in Item, p # q
        PROVE  p[1] # q[1] \/ p[2] # q[2]
    BY <1>1, <1>2
  <1> QED BY <1>1, <1>2 DEF PairLess

LEMMA FirstDifferenceIs ==
    ASSUME NEW s \in Seq(Item), NEW t \in Seq(Item), Len(s) = Len(t),
           NEW i \in DOMAIN s, s[i] # t[i], \A j \in 1..(i-1) : s[j] = t[j]
    PROVE  FirstDifference(s, t) = i
  <1>1. DOMAIN s = 1..Len(s) /\ Len(s) \in Nat
    OBVIOUS
  <1>2. \A k \in DOMAIN s : (s[k] # t[k] /\ \A j \in 1..(k-1) : s[j] = t[j]) => k = i
    <2> TAKE k \in DOMAIN s
    <2> HAVE s[k] # t[k] /\ \A j \in 1..(k-1) : s[j] = t[j]
    <2>1. k \in Nat /\ i \in Nat /\ 1 <= k /\ 1 <= i
      BY <1>1
    <2>2. ~(k < i)
      BY <2>1
    <2>3. ~(i < k)
      BY <2>1
    <2> QED BY <2>1, <2>2, <2>3
  <1> QED BY <1>2 DEF FirstDifference

LEMMA SequencesDiffer ==
    ASSUME NEW s \in Seq(Item), NEW t \in Seq(Item), Len(s) = Len(t), s # t
    PROVE  \E i \in DOMAIN s : s[i] # t[i] /\ \A j \in 1..(i-1) : s[j] = t[j]
  <1> DEFINE D == {i \in 1..Len(s) : s[i] # t[i]}
  <1>1. Len(s) \in Nat /\ DOMAIN s = 1..Len(s) /\ DOMAIN t = 1..Len(s)
    OBVIOUS
  <1>2. D # {}
    BY <1>1
  <1>3. D \in SUBSET Nat
    BY <1>1
  <1>4. PICK i \in D : \A j \in D : i <= j
    BY <1>2, <1>3, LeastOne
  <1>5. i \in 1..Len(s) /\ s[i] # t[i] /\ \A j \in 1..(i-1) : s[j] = t[j]
    BY <1>1, <1>4
  <1> QED BY <1>1, <1>5

\* Items compare at the first place they differ in.
LEMMA ItemsLessIs ==
    ASSUME NEW s \in Seq(Item), NEW t \in Seq(Item), Len(s) = Len(t)
    PROVE  ItemsLess(s, t) <=>
             \E i \in DOMAIN s : PairLess(s[i], t[i]) /\ \A j \in 1..(i-1) : s[j] = t[j]
  <1>1. Len(s) \in Nat /\ DOMAIN s = 1..Len(s) /\ DOMAIN t = 1..Len(s)
    OBVIOUS
  <1>2. \A i \in 1..Len(s) : s[i] \in Item /\ t[i] \in Item
    BY <1>1
  <1>3. ASSUME ItemsLess(s, t)
        PROVE  \E i \in DOMAIN s : PairLess(s[i], t[i]) /\ \A j \in 1..(i-1) : s[j] = t[j]
    <2>1. s # t
      BY <1>3 DEF ItemsLess
    <2>2. PICK i \in DOMAIN s : s[i] # t[i] /\ \A j \in 1..(i-1) : s[j] = t[j]
      BY <2>1, SequencesDiffer
    <2>3. FirstDifference(s, t) = i
      BY <2>2, FirstDifferenceIs
    <2> QED BY <1>3, <2>2, <2>3 DEF ItemsLess
  <1>4. ASSUME NEW i \in DOMAIN s, PairLess(s[i], t[i]), \A j \in 1..(i-1) : s[j] = t[j]
        PROVE  ItemsLess(s, t)
    <2>1. s[i] # t[i]
      BY <1>1, <1>2, <1>4, PairsAreOrdered
    <2>2. FirstDifference(s, t) = i
      BY <1>4, <2>1, FirstDifferenceIs
    <2> QED BY <1>4, <2>1, <2>2 DEF ItemsLess
  <1> QED BY <1>3, <1>4

LEMMA ItemsAreOrdered ==
    ASSUME NEW n \in Nat
    PROVE  LET S == [1..n -> Item] IN
           /\ \A s \in S : ~ItemsLess(s, s)
           /\ \A s, t, u \in S : ItemsLess(s, t) /\ ItemsLess(t, u) => ItemsLess(s, u)
           /\ \A s, t \in S : s # t => ItemsLess(s, t) \/ ItemsLess(t, s)
  <1> DEFINE S == [1..n -> Item]
  <1>1. \A s \in S : s \in Seq(Item) /\ Len(s) = n /\ DOMAIN s = 1..n
    OBVIOUS
  <1>2. \A s \in S : ~ItemsLess(s, s)
    BY DEF ItemsLess
  <1>3. ASSUME NEW s \in S, NEW t \in S
        PROVE  ItemsLess(s, t) <=>
                 \E i \in 1..n : PairLess(s[i], t[i]) /\ \A j \in 1..(i-1) : s[j] = t[j]
    <2>1. s \in Seq(Item) /\ t \in Seq(Item) /\ Len(s) = Len(t) /\ DOMAIN s = 1..n
      BY <1>1
    <2> QED BY <2>1, ItemsLessIs
  <1>4. ASSUME NEW s \in S, NEW t \in S, NEW u \in S, ItemsLess(s, t), ItemsLess(t, u)
        PROVE  ItemsLess(s, u)
    <2>1. PICK i \in 1..n : PairLess(s[i], t[i]) /\ \A j \in 1..(i-1) : s[j] = t[j]
      BY <1>3, <1>4
    <2>2. PICK k \in 1..n : PairLess(t[k], u[k]) /\ \A j \in 1..(k-1) : t[j] = u[j]
      BY <1>3, <1>4
    <2>3. i \in Nat /\ k \in Nat /\ \A m \in 1..n : s[m] \in Item /\ t[m] \in Item /\ u[m] \in Item
      OBVIOUS
    <2>4. CASE i < k
      <3>1. t[i] = u[i] /\ \A j \in 1..(i-1) : t[j] = u[j]
        BY <2>2, <2>3, <2>4
      <3> QED BY <1>3, <2>1, <3>1, ZenonT(30)
    <2>5. CASE k < i
      <3>1. s[k] = t[k] /\ \A j \in 1..(k-1) : s[j] = t[j]
        BY <2>1, <2>3, <2>5
      <3> QED BY <1>3, <2>2, <3>1, SMTT(30)
    <2>6. CASE i = k
      <3>1. PairLess(s[i], u[i])
        BY <2>1, <2>2, <2>3, <2>6, PairsAreOrdered
      <3> QED BY <1>3, <2>1, <2>2, <2>6, <3>1, SMTT(30)
    <2> QED BY <2>3, <2>4, <2>5, <2>6
  <1>5. ASSUME NEW s \in S, NEW t \in S, s # t
        PROVE  ItemsLess(s, t) \/ ItemsLess(t, s)
    <2>1. s \in Seq(Item) /\ t \in Seq(Item) /\ Len(s) = Len(t) /\ DOMAIN s = 1..n
      BY <1>1
    <2>2. PICK i \in 1..n : s[i] # t[i] /\ \A j \in 1..(i-1) : s[j] = t[j]
      BY <1>5, <2>1, SequencesDiffer, ZenonT(30)
    <2>3. PairLess(s[i], t[i]) \/ PairLess(t[i], s[i])
      BY <2>2, PairsAreOrdered
    <2> QED BY <1>3, <2>2, <2>3
  <1> QED BY <1>2, <1>4, <1>5

LEMMA SetsAreOrdered ==
    /\ \A a \in SetType : ~SetLess(a, a)
    /\ \A a, b, c \in SetType : SetLess(a, b) /\ SetLess(b, c) => SetLess(a, c)
    /\ \A a, b \in SetType : a # b => SetLess(a, b) \/ SetLess(b, a)
  <1>1. \A a \in SetType : a.sum \in Nat /\ a.items \in Seq(Item) /\ Len(a.items) \in Nat
                           /\ a.items \in [1..Len(a.items) -> Item]
    BY DEF SetType
  <1>2. \A a \in SetType : ~SetLess(a, a)
    BY <1>1 DEF SetLess, ItemsLess
  <1>3. ASSUME NEW a \in SetType, NEW b \in SetType, NEW c \in SetType, SetLess(a, b), SetLess(b, c)
        PROVE  SetLess(a, c)
    <2>1. a.sum <= b.sum /\ b.sum <= c.sum
      BY <1>1, <1>3 DEF SetLess
    <2>2. CASE a.sum < c.sum
      BY <2>2 DEF SetLess
    <2>3. CASE ~(a.sum < c.sum)
      <3>1. a.sum = b.sum /\ b.sum = c.sum
        BY <1>1, <2>1, <2>3
      <3>2. Len(a.items) <= Len(b.items) /\ Len(b.items) <= Len(c.items)
        BY <1>1, <1>3, <3>1 DEF SetLess
      <3>3. CASE Len(a.items) < Len(c.items)
        BY <3>1, <3>3 DEF SetLess
      <3>4. CASE ~(Len(a.items) < Len(c.items))
        <4>1. Len(a.items) = Len(b.items) /\ Len(b.items) = Len(c.items)
          BY <1>1, <3>2, <3>4
        <4>2. ItemsLess(a.items, b.items) /\ ItemsLess(b.items, c.items)
          BY <1>1, <1>3, <3>1, <4>1 DEF SetLess
        <4>3. ItemsLess(a.items, c.items)
          BY <1>1, <4>1, <4>2, ItemsAreOrdered
        <4> QED BY <3>1, <4>1, <4>3 DEF SetLess
      <3> QED BY <3>3, <3>4
    <2> QED BY <2>2, <2>3
  <1>4. ASSUME NEW a \in SetType, NEW b \in SetType, a # b
        PROVE  SetLess(a, b) \/ SetLess(b, a)
    <2>1. a.sum # b.sum \/ a.items # b.items
      BY <1>4 DEF SetType
    <2>2. CASE a.sum # b.sum \/ Len(a.items) # Len(b.items)
      BY <1>1, <2>2 DEF SetLess
    <2>3. CASE a.sum = b.sum /\ Len(a.items) = Len(b.items)
      <3>1. ItemsLess(a.items, b.items) \/ ItemsLess(b.items, a.items)
        BY <1>1, <2>1, <2>3, ItemsAreOrdered
      <3> QED BY <2>3, <3>1 DEF SetLess
    <2> QED BY <2>2, <2>3
  <1> QED BY <1>2, <1>3, <1>4

\* The places of a sequence of sets are in a strict order.
LEMMA LargerIsStrict ==
    ASSUME NEW k \in Nat, NEW sets \in [1..k -> SetType]
    PROVE  IsStrictOrder(DOMAIN sets, Larger(sets))
  <1>1. DOMAIN sets = 1..k /\ \A i \in 1..k : sets[i] \in SetType /\ i \in Nat
    OBVIOUS
  <1>2. \A i, j \in 1..k : <<i, j>> \in Larger(sets) <=>
            SetLess(sets[j], sets[i]) \/ (sets[i] = sets[j] /\ i < j)
    BY <1>1 DEF Larger, Pairs
  <1>3. \A i \in 1..k : ~(<<i, i>> \in Larger(sets))
    BY <1>1, <1>2, SetsAreOrdered
  <1>4. \A i, j, m \in 1..k : <<i, j>> \in Larger(sets) /\ <<j, m>> \in Larger(sets) => <<i, m>> \in Larger(sets)
    <2> TAKE i, j, m \in 1..k
    <2> HAVE <<i, j>> \in Larger(sets) /\ <<j, m>> \in Larger(sets)
    <2>1. SetLess(sets[j], sets[i]) \/ (sets[i] = sets[j] /\ i < j)
      BY <1>2
    <2>2. SetLess(sets[m], sets[j]) \/ (sets[j] = sets[m] /\ j < m)
      BY <1>2
    <2>3. SetLess(sets[m], sets[i]) \/ (sets[i] = sets[m] /\ i < m)
      BY <1>1, <2>1, <2>2, SetsAreOrdered
    <2> QED BY <1>2, <2>3
  <1>5. \A i, j \in 1..k : i # j => <<i, j>> \in Larger(sets) \/ <<j, i>> \in Larger(sets)
    <2> TAKE i, j \in 1..k
    <2> HAVE i # j
    <2>1. CASE sets[i] = sets[j]
      BY <1>1, <1>2, <2>1
    <2>2. CASE sets[i] # sets[j]
      BY <1>1, <1>2, <2>2, SetsAreOrdered
    <2> QED BY <2>1, <2>2
  <1> QED BY <1>1, <1>3, <1>4, <1>5 DEF IsStrictOrder

LEMMA SmallerIsStrict ==
    ASSUME NEW n \in Nat, NEW vals \in [1..n -> Nat]
    PROVE  IsStrictOrder(DOMAIN vals, Smaller(vals))
  <1>1. DOMAIN vals = 1..n /\ \A i \in 1..n : vals[i] \in Nat /\ i \in Nat
    OBVIOUS
  <1>2. \A i, j \in 1..n : <<i, j>> \in Smaller(vals) <=>
            vals[i] < vals[j] \/ (vals[i] = vals[j] /\ i < j)
    BY <1>1 DEF Smaller, Pairs
  <1> QED BY <1>1, <1>2 DEF IsStrictOrder

-----------------------------------------------------------------------------
\* Induction over numbers and finite sets, for the sets of which a claim holds.

LEMMA NumbersInduct ==
    ASSUME NEW Good \in SUBSET Nat, 0 \in Good, \A n \in Nat : n \in Good => n + 1 \in Good
    PROVE  \A n \in Nat : n \in Good
  <1> DEFINE Bad == Nat \ Good
  <1> SUFFICES ASSUME Bad # {} PROVE FALSE
    OBVIOUS
  <1>1. PICK b \in Bad : \A c \in Bad : b <= c
    BY LeastOne
  <1>2. b - 1 \in Nat /\ b = (b - 1) + 1
    <2>1. b \in Nat /\ b # 0
      OBVIOUS
    <2> QED BY <2>1
  <1>3. b - 1 \in Good
    BY <1>1, <1>2
  <1> QED BY <1>2, <1>3

LEMMA SetsInduct ==
    ASSUME NEW S, IsFiniteSet(S), NEW Good \in SUBSET SUBSET S,
           \A s \in SUBSET S : (\A x \in s : s \ {x} \in Good) => s \in Good
    PROVE  \A s \in SUBSET S : s \in Good
  <1> DEFINE size == [s \in SUBSET S |-> Cardinality(s)]
             Bad == {n \in Nat : \E s \in SUBSET S : s \notin Good /\ size[s] = n}
  <1>1. \A s \in SUBSET S : IsFiniteSet(s) /\ size[s] \in Nat
    BY FS_Subset, FS_CardinalityType
  <1> SUFFICES ASSUME NEW u \in SUBSET S, u \notin Good PROVE FALSE
    OBVIOUS
  <1>2. Bad # {} /\ Bad \in SUBSET Nat
    <2>1. size[u] \in Nat
      BY <1>1
    <2> HIDE DEF size
    <2> QED BY <2>1
  <1>3. PICK b \in Bad : \A c \in Bad : b <= c
    BY <1>2, LeastOne
  <1>4. PICK s \in SUBSET S : s \notin Good /\ size[s] = b
    BY <1>3
  <1>5. ASSUME NEW x \in s PROVE s \ {x} \in Good
    <2>1. Cardinality(s \ {x}) = Cardinality(s) - 1
      BY <1>1, FS_RemoveElement
    <2>2. s \ {x} \in SUBSET S
      OBVIOUS
    <2>3. size[s \ {x}] = size[s] - 1
      BY <2>1, <2>2
    <2>4. b \in Nat /\ size[s \ {x}] \in Nat
      BY <1>1, <2>2
    <2> HIDE DEF size
    <2> SUFFICES ASSUME s \ {x} \notin Good PROVE FALSE
      OBVIOUS
    <2>5. b - 1 \in Bad
      BY <1>4, <2>2, <2>3, <2>4
    <2> QED BY <1>3, <2>4, <2>5
  <1> QED BY <1>4, <1>5

-----------------------------------------------------------------------------
\* Sums.

First(s) == CHOOSE x \in s : TRUE

\* The fold that MapThenSumSet and FoldSeq define, over the subsets of a set.
IsSum(g, f, S) ==
    g = [s \in SUBSET S |-> IF s = {} THEN 0 ELSE f[First(s)] + g[s \ {First(s)}]]

SumOver(f, S) == (CHOOSE g : IsSum(g, f, S))[S]

LEMMA FirstIsIn == ASSUME NEW s, s # {} PROVE First(s) \in s
    BY DEF First

LEMMA SumUnfolds ==
    ASSUME NEW g, NEW f, NEW S, IsSum(g, f, S), NEW s \in SUBSET S, s # {}
    PROVE  First(s) \in s /\ g[s] = f[First(s)] + g[s \ {First(s)}]
  <1>1. First(s) \in s
    BY FirstIsIn
  <1> QED BY <1>1 DEF IsSum

\* Sums are numbers.
LEMMA SumsAreNumbers ==
    ASSUME NEW S, IsFiniteSet(S), NEW f, \A x \in S : f[x] \in Nat, NEW g, IsSum(g, f, S)
    PROVE  \A s \in SUBSET S : g[s] \in Nat
  <1> DEFINE Good == {s \in SUBSET S : g[s] \in Nat}
  <1>1. ASSUME NEW s \in SUBSET S, \A x \in s : s \ {x} \in Good
        PROVE  s \in Good
    <2>1. CASE s = {}
      BY <2>1 DEF IsSum
    <2>2. CASE s # {}
      <3>1. First(s) \in s /\ g[s] = f[First(s)] + g[s \ {First(s)}]
        BY <2>2, SumUnfolds
      <3>2. g[s \ {First(s)}] \in Nat /\ f[First(s)] \in Nat
        BY <1>1, <3>1
      <3> QED BY <3>1, <3>2
    <2> QED BY <2>1, <2>2
  <1>2. Good \in SUBSET SUBSET S
    OBVIOUS
  <1> HIDE DEF Good
  <1>3. \A s \in SUBSET S : s \in Good
    BY <1>1, <1>2, SetsInduct
  <1> QED BY <1>3 DEF Good

\* Any element may be taken first.
LEMMA AnyOneFirst ==
    ASSUME NEW S, IsFiniteSet(S), NEW f, \A x \in S : f[x] \in Nat, NEW g, IsSum(g, f, S)
    PROVE  \A s \in SUBSET S : \A x \in s : g[s] = f[x] + g[s \ {x}]
  <1> DEFINE Good == {s \in SUBSET S : \A x \in s : g[s] = f[x] + g[s \ {x}]}
  <1>1. \A s \in SUBSET S : g[s] \in Nat
    BY SumsAreNumbers
  <1>2. ASSUME NEW s \in SUBSET S, \A x \in s : s \ {x} \in Good
        PROVE  s \in Good
    <2>1. ASSUME NEW x \in s PROVE g[s] = f[x] + g[s \ {x}]
      <3> DEFINE c == First(s)
      <3>1. c \in s /\ g[s] = f[c] + g[s \ {c}]
        BY SumUnfolds
      <3> HIDE DEF c
      <3>2. CASE c = x
        BY <3>1, <3>2
      <3>3. CASE c # x
        <4>1. x \in s \ {c} /\ c \in s \ {x}
          BY <3>1, <3>3
        <4>2. s \ {c} \in Good /\ s \ {x} \in Good
          BY <1>2, <3>1
        <4>3. g[s \ {c}] = f[x] + g[(s \ {c}) \ {x}]
          BY <4>1, <4>2
        <4>4. g[s \ {x}] = f[c] + g[(s \ {x}) \ {c}]
          BY <4>1, <4>2
        <4>5. (s \ {c}) \ {x} = (s \ {x}) \ {c} /\ (s \ {c}) \ {x} \in SUBSET S
          OBVIOUS
        <4> DEFINE rest == g[(s \ {c}) \ {x}]
        <4>6. rest \in Nat /\ f[c] \in Nat /\ f[x] \in Nat
          BY <1>1, <3>1, <4>5
        <4>7. g[s \ {c}] = f[x] + rest /\ g[s \ {x}] = f[c] + rest
          BY <4>3, <4>4, <4>5
        <4> HIDE DEF rest
        <4> QED BY <3>1, <4>6, <4>7
      <3> QED BY <3>2, <3>3
    <2> QED BY <2>1
  <1>3. Good \in SUBSET SUBSET S
    OBVIOUS
  <1> HIDE DEF Good
  <1>4. \A s \in SUBSET S : s \in Good
    BY <1>2, <1>3, SetsInduct
  <1> QED BY <1>4 DEF Good

\* Sums of the same numbers are the same.
LEMMA SameSums ==
    ASSUME NEW S, IsFiniteSet(S), NEW T, NEW f, NEW h, NEW g, NEW e,
           S \subseteq T, \A x \in S : f[x] = h[x], IsSum(g, f, S), IsSum(e, h, T)
    PROVE  g[S] = e[S]
  <1> DEFINE Good == {s \in SUBSET S : g[s] = e[s]}
  <1>1. ASSUME NEW s \in SUBSET S, \A x \in s : s \ {x} \in Good
        PROVE  s \in Good
    <2>1. s \in SUBSET T
      OBVIOUS
    <2>2. CASE s = {}
      BY <2>1, <2>2 DEF IsSum
    <2>3. CASE s # {}
      <3>1. First(s) \in s /\ g[s] = f[First(s)] + g[s \ {First(s)}]
        BY <2>3, SumUnfolds
      <3>2. e[s] = h[First(s)] + e[s \ {First(s)}]
        BY <2>1, <2>3, SumUnfolds
      <3>3. f[First(s)] = h[First(s)] /\ g[s \ {First(s)}] = e[s \ {First(s)}]
        BY <1>1, <3>1
      <3> QED BY <3>1, <3>2, <3>3
    <2> QED BY <2>2, <2>3
  <1>2. Good \in SUBSET SUBSET S
    OBVIOUS
  <1> HIDE DEF Good
  <1>3. \A s \in SUBSET S : s \in Good
    BY <1>1, <1>2, SetsInduct
  <1> QED BY <1>3 DEF Good

HasSum(f, S) == \E g : IsSum(g, f, S)

LEMMA TheSum ==
    ASSUME NEW f, NEW S, HasSum(f, S)
    PROVE  IsSum(CHOOSE g : IsSum(g, f, S), f, S)
    BY DEF HasSum

\* The fold is defined on finite sets.
LEMMA SumsExist ==
    ASSUME NEW S, IsFiniteSet(S), NEW f, \A x \in S : f[x] \in Nat
    PROVE  \A s \in SUBSET S : HasSum(f, s)
  <1> DEFINE Good == {s \in SUBSET S : \A u \in SUBSET s : HasSum(f, u)}
  <1>1. ASSUME NEW s \in SUBSET S, \A x \in s : s \ {x} \in Good
        PROVE  s \in Good
    <2>1. ASSUME NEW u \in SUBSET s, u # s PROVE HasSum(f, u)
      <3>1. PICK x \in s : x \notin u
        BY <2>1
      <3>2. u \in SUBSET (s \ {x}) /\ s \ {x} \in Good
        BY <1>1, <3>1
      <3> QED BY <3>2
    <2>2. HasSum(f, s)
      <3> DEFINE V(t) == IF t = {} THEN 0 ELSE f[First(t)] + SumOver(f, t \ {First(t)})
                 g == [t \in SUBSET s |-> V(t)]
      <3>1. ASSUME NEW u \in SUBSET s, u # s PROVE SumOver(f, u) = V(u)
        <4> DEFINE G == CHOOSE e : IsSum(e, f, u)
        <4>1. IsSum(G, f, u)
          BY <2>1, <3>1, TheSum
        <4>2. SumOver(f, u) = G[u]
          BY DEF SumOver
        <4> HIDE DEF G
        <4>3. CASE u = {}
          BY <4>1, <4>2, <4>3 DEF IsSum
        <4>4. CASE u # {}
          <5> DEFINE c == First(u)
                     w == u \ {c}
                     W == CHOOSE e : IsSum(e, f, w)
          <5>1. c \in u /\ G[u] = f[c] + G[w]
            BY <4>1, <4>4, SumUnfolds
          <5>2. w \in SUBSET s /\ w # s /\ w \subseteq u
            BY <3>1
          <5>3. IsSum(W, f, w)
            BY <2>1, <5>2, TheSum
          <5>4. SumOver(f, w) = W[w]
            BY DEF SumOver
          <5>5. IsFiniteSet(w)
            BY <5>2, FS_Subset
          <5> HIDE DEF W
          <5>6. W[w] = G[w]
            <6>1. \A x \in w : f[x] = f[x]
              OBVIOUS
            <6> HIDE DEF w
            <6> QED BY <4>1, <5>2, <5>3, <5>5, <6>1, SameSums
          <5> QED BY <4>2, <4>4, <5>1, <5>4, <5>6
        <4> QED BY <4>3, <4>4
      <3>2. \A t \in SUBSET s : t # {} => /\ First(t) \in t
                                          /\ t \ {First(t)} \in SUBSET s
                                          /\ g[t \ {First(t)}] = SumOver(f, t \ {First(t)})
        <4> TAKE t \in SUBSET s
        <4> HAVE t # {}
        <4>1. First(t) \in t
          BY FirstIsIn
        <4> DEFINE u == t \ {First(t)}
        <4>2. u \in SUBSET s /\ u # s
          BY <4>1
        <4> HIDE DEF u
        <4>3. g[u] = SumOver(f, u)
          BY <3>1, <4>2
        <4> QED BY <4>1, <4>2, <4>3 DEF u
      <3>3. g = [t \in SUBSET s |-> IF t = {} THEN 0 ELSE f[First(t)] + g[t \ {First(t)}]]
        <4> DEFINE R(t) == IF t = {} THEN 0 ELSE f[First(t)] + g[t \ {First(t)}]
        <4>1. \A t \in SUBSET s : V(t) = R(t)
          BY <3>2
        <4>2. g = [t \in SUBSET s |-> V(t)]
          OBVIOUS
        <4> SUFFICES g = [t \in SUBSET s |-> R(t)]
          OBVIOUS
        <4> HIDE DEF V, R, g
        <4> QED BY <4>1, <4>2
      <3> HIDE DEF g
      <3>4. IsSum(g, f, s)
        BY <3>3 DEF IsSum
      <3> QED BY <3>4 DEF HasSum
    <2>3. \A u \in SUBSET s : HasSum(f, u)
      BY <2>1, <2>2
    <2> QED BY <2>3
  <1>2. Good \in SUBSET SUBSET S
    OBVIOUS
  <1>3. ASSUME NEW s \in SUBSET S, s \in Good PROVE HasSum(f, s)
    BY <1>3
  <1> HIDE DEF Good
  <1>4. \A s \in SUBSET S : s \in Good
    BY <1>1, <1>2, SetsInduct
  <1> QED BY <1>3, <1>4

\* What a sum is.
LEMMA SumFacts ==
    ASSUME NEW S, IsFiniteSet(S), NEW f, \A x \in S : f[x] \in Nat
    PROVE  /\ SumOver(f, {}) = 0
           /\ SumOver(f, S) \in Nat
           /\ \A x \in S : SumOver(f, S) = f[x] + SumOver(f, S \ {x})
  <1> DEFINE G == CHOOSE e : IsSum(e, f, S)
             E == CHOOSE e : IsSum(e, f, {})
  <1>1. HasSum(f, S) /\ HasSum(f, {})
    BY SumsExist
  <1>2. IsSum(G, f, S) /\ IsSum(E, f, {})
    BY <1>1, TheSum
  <1>3. SumOver(f, S) = G[S] /\ SumOver(f, {}) = E[{}]
    BY DEF SumOver
  <1> HIDE DEF G, E
  <1>4. E[{}] = 0
    BY <1>2 DEF IsSum
  <1>5. G[S] \in Nat
    BY <1>2, SumsAreNumbers
  <1>6. ASSUME NEW x \in S PROVE G[S] = f[x] + SumOver(f, S \ {x})
    <2> DEFINE w == S \ {x}
               W == CHOOSE e : IsSum(e, f, w)
    <2>1. G[S] = f[x] + G[w]
      BY <1>2, AnyOneFirst
    <2>2. w \in SUBSET S /\ IsFiniteSet(w)
      BY FS_Subset
    <2>3. HasSum(f, w)
      BY <2>2, SumsExist
    <2>4. IsSum(W, f, w)
      BY <2>3, TheSum
    <2>5. SumOver(f, w) = W[w]
      BY DEF SumOver
    <2> HIDE DEF W
    <2>6. W[w] = G[w]
      <3>1. w \subseteq S /\ \A x_1 \in w : f[x_1] = f[x_1]
        BY <2>2
      <3> HIDE DEF w
      <3> QED BY <1>2, <2>2, <2>4, <3>1, SameSums
    <2> QED BY <2>1, <2>5, <2>6
  <1> QED BY <1>3, <1>4, <1>5, <1>6

LEMMA EqualSums ==
    ASSUME NEW S, IsFiniteSet(S), NEW f, NEW h, \A x \in S : f[x] \in Nat, \A x \in S : f[x] = h[x]
    PROVE  SumOver(f, S) = SumOver(h, S)
  <1> DEFINE G == CHOOSE e : IsSum(e, f, S)
             H == CHOOSE e : IsSum(e, h, S)
  <1>1. HasSum(f, S)
    BY SumsExist
  <1>2. HasSum(h, S)
    <2>1. \A x \in S : h[x] \in Nat
      OBVIOUS
    <2> QED BY <2>1, SumsExist
  <1>3. IsSum(G, f, S) /\ IsSum(H, h, S)
    BY <1>1, <1>2, TheSum
  <1>4. SumOver(f, S) = G[S] /\ SumOver(h, S) = H[S]
    BY DEF SumOver
  <1> HIDE DEF G, H
  <1>5. G[S] = H[S]
    BY <1>3, SameSums
  <1> QED BY <1>4, <1>5

LEMMA SumOfOne ==
    ASSUME NEW x, NEW f, f[x] \in Nat
    PROVE  SumOver(f, {x}) = f[x]
  <1>1. IsFiniteSet({x}) /\ \A y \in {x} : f[y] \in Nat
    BY FS_Singleton
  <1> DEFINE S == {x}
  <1>2. x \in S /\ S \ {x} = {} /\ IsFiniteSet(S) /\ \A y \in S : f[y] \in Nat
    BY <1>1
  <1> HIDE DEF S
  <1>3. SumOver(f, S) = f[x] + SumOver(f, S \ {x}) /\ SumOver(f, {}) = 0
    BY <1>2, SumFacts
  <1>4. SumOver(f, S) = f[x]
    BY <1>2, <1>3
  <1> QED BY <1>4 DEF S

\* Sums of sets without a common element add up.
LEMMA SumOfUnion ==
    ASSUME NEW S, IsFiniteSet(S), NEW f, \A x \in S : f[x] \in Nat,
           NEW A \in SUBSET S, NEW B \in SUBSET S, A \cap B = {}
    PROVE  SumOver(f, A \cup B) = SumOver(f, A) + SumOver(f, B)
  <1> DEFINE Good == {s \in SUBSET S : s \cap B = {} => SumOver(f, s \cup B) = SumOver(f, s) + SumOver(f, B)}
  <1>0. ASSUME NEW s \in SUBSET S
        PROVE  IsFiniteSet(s) /\ \A x \in s : f[x] \in Nat
    BY FS_Subset
  <1>1. ASSUME NEW s \in SUBSET S, \A x \in s : s \ {x} \in Good
        PROVE  s \in Good
    <2> SUFFICES ASSUME s \cap B = {}
                 PROVE  SumOver(f, s \cup B) = SumOver(f, s) + SumOver(f, B)
      OBVIOUS
    <2>0. SumOver(f, B) \in Nat /\ SumOver(f, {}) = 0
      BY <1>0, SumFacts
    <2>1. CASE s = {}
      <3>1. s \cup B = B
        BY <2>1
      <3> QED BY <2>0, <2>1, <3>1
    <2>2. CASE s # {}
      <3>1. PICK x \in s : TRUE
        BY <2>2
      <3> DEFINE u == s \cup B
                 w == s \ {x}
      <3>2. u \in SUBSET S /\ x \in u /\ u \ {x} = w \cup B /\ w \cap B = {} /\ w \in SUBSET S
        BY <3>1
      <3>3. w \in Good
        BY <1>1
      <3>4. SumOver(f, w \cup B) = SumOver(f, w) + SumOver(f, B)
        BY <3>2, <3>3
      <3> HIDE DEF u
      <3>5. IsFiniteSet(u) /\ \A y \in u : f[y] \in Nat
        BY <1>0, <3>2
      <3>6. SumOver(f, u) = f[x] + SumOver(f, u \ {x})
        BY <3>2, <3>5, SumFacts
      <3>7. SumOver(f, s) = f[x] + SumOver(f, w)
        BY <1>0, SumFacts
      <3>8. SumOver(f, w) \in Nat /\ f[x] \in Nat
        BY <1>0, <3>2, SumFacts
      <3> HIDE DEF w
      <3>9. SumOver(f, u) = f[x] + (SumOver(f, w) + SumOver(f, B))
        BY <3>2, <3>4, <3>6
      <3>10. SumOver(f, u) = SumOver(f, s) + SumOver(f, B)
        BY <2>0, <3>7, <3>8, <3>9
      <3> QED BY <3>10 DEF u
    <2> QED BY <2>1, <2>2
  <1>2. Good \in SUBSET SUBSET S
    OBVIOUS
  <1>3. A \in Good => SumOver(f, A \cup B) = SumOver(f, A) + SumOver(f, B)
    OBVIOUS
  <1> HIDE DEF Good
  <1>4. \A s \in SUBSET S : s \in Good
    BY <1>1, <1>2, SetsInduct
  <1> QED BY <1>3, <1>4

\* Sums of sequences, and of an operator's values, are sums of this kind.
LEMMA SumSeqIs ==
    ASSUME NEW s
    PROVE  SumSeq(s) = SumOver(s, DOMAIN s)
  BY DEF SumSeq, SumOver, IsSum, FoldSeq, FoldFunction, FoldFunctionOnSet, MapThenFoldSet, First

LEMMA SumOfSequence ==
    ASSUME NEW n \in Nat, NEW s \in [1..n -> Nat]
    PROVE  /\ SumSeq(s) \in Nat
           /\ n > 0 /\ (\A i \in 1..n : s[i] > 0) => SumSeq(s) > 0
           /\ n = 1 => SumSeq(s) = s[1]
  <1>1. IsFiniteSet(1..n)
    <2>1. 1 \in Int /\ n \in Int
      OBVIOUS
    <2> QED BY <2>1, FS_Interval
  <1>2. DOMAIN s = 1..n /\ \A i \in 1..n : s[i] \in Nat
    OBVIOUS
  <1>3. SumSeq(s) = SumOver(s, 1..n)
    BY <1>2, SumSeqIs
  <1>4. SumOver(s, 1..n) \in Nat /\ SumOver(s, {}) = 0
        /\ \A i \in 1..n : SumOver(s, 1..n) = s[i] + SumOver(s, (1..n) \ {i})
    BY <1>1, <1>2, SumFacts
  <1>5. ASSUME n > 0, \A i \in 1..n : s[i] > 0 PROVE SumSeq(s) > 0
    <2> DEFINE w == (1..n) \ {1}
    <2>1. IsFiniteSet(w) /\ \A i \in w : s[i] \in Nat
      BY <1>1, <1>2, FS_Subset
    <2> HIDE DEF w
    <2>2. SumOver(s, w) \in Nat
      BY <2>1, SumFacts
    <2>3. 1 \in 1..n
      BY <1>5
    <2>4. SumOver(s, 1..n) = s[1] + SumOver(s, w)
      BY <1>4, <2>3 DEF w
    <2> QED BY <1>2, <1>3, <1>5, <2>2, <2>3, <2>4
  <1>6. ASSUME n = 1 PROVE SumSeq(s) = s[1]
    <2>1. 1..n = {1} /\ s[1] \in Nat
      BY <1>6
    <2>2. SumOver(s, {1}) = s[1]
      BY <2>1, SumOfOne
    <2> QED BY <1>3, <2>1, <2>2
  <1> QED BY <1>3, <1>4, <1>5, <1>6

-----------------------------------------------------------------------------
\* States of the differencing method.

IsPermutation(o, k) ==
    /\ o \in [1..k -> 1..k]
    /\ \A j \in 1..k : \E i \in 1..k : o[i] = j
    /\ \A i, j \in 1..k : o[i] = o[j] => i = j

LEMMA UpTo ==
    ASSUME NEW n \in Nat
    PROVE  IsFiniteSet(1..n) /\ Cardinality(1..n) = n
  <1>1. 1 \in Int /\ n \in Int
    OBVIOUS
  <1>2. IsFiniteSet(1..n) /\ Cardinality(1..n) = IF 1 > n THEN 0 ELSE n - 1 + 1
    BY <1>1, FS_Interval
  <1> QED BY <1>2

\* Decreasing permutes.
LEMMA DecreasingPermutes ==
    ASSUME NEW k \in Nat, NEW sets \in [1..k -> SetType]
    PROVE  \E o : /\ IsPermutation(o, k)
                  /\ Decreasing(sets) = [i \in 1..k |-> sets[o[i]]]
                  /\ \A i, j \in 1..k : i <= j => sets[o[j]].sum <= sets[o[i]].sum
  <1> DEFINE o == InOrder(1..k, Larger(sets))
  <1>1. DOMAIN sets = 1..k
    OBVIOUS
  <1>2. IsFiniteSet(1..k) /\ Cardinality(1..k) = k
    BY UpTo
  <1>3. Lists(o, 1..k, Larger(sets))
    BY <1>1, <1>2, InOrderLists, LargerIsStrict
  <1>4. Decreasing(sets) = [i \in 1..k |-> sets[o[i]]]
    BY <1>1 DEF Decreasing
  <1> HIDE DEF o
  <1>5. o \in [1..k -> 1..k] /\ DOMAIN o = 1..k
    BY <1>2, <1>3 DEF Lists
  <1>6. IsPermutation(o, k)
    BY <1>3, <1>5 DEF IsPermutation, Lists
  <1>7. ASSUME NEW i \in 1..k, NEW j \in 1..k, i <= j
        PROVE  sets[o[j]].sum <= sets[o[i]].sum
    <2>1. o[i] \in 1..k /\ o[j] \in 1..k
      BY <1>5
    <2>2. sets[o[i]] \in SetType /\ sets[o[j]] \in SetType
      BY <2>1
    <2>3. sets[o[i]].sum \in Nat /\ sets[o[j]].sum \in Nat
      BY <2>2 DEF SetType
    <2>4. CASE i = j
      BY <2>3, <2>4
    <2>5. CASE i # j
      <3>1. i < j
        BY <1>7, <2>5
      <3>2. <<o[i], o[j]>> \in Larger(sets)
        BY <1>3, <1>5, <3>1 DEF Lists
      <3>3. SetLess(sets[o[j]], sets[o[i]]) \/ sets[o[i]] = sets[o[j]]
        BY <3>2 DEF Larger, Pairs
      <3> QED BY <2>3, <3>3 DEF SetLess
    <2> QED BY <2>4, <2>5
  <1> QED BY <1>4, <1>6, <1>7

\* A set holds rows once each and their sum.
Holds(set, vals) ==
    /\ \A p \in DOMAIN set.items :
          set.items[p][1] \in DOMAIN vals /\ set.items[p][2] = vals[set.items[p][1]]
    /\ \A p, q \in DOMAIN set.items : set.items[p][1] = set.items[q][1] => p = q
    /\ set.sum = SumOver(vals, IndicesOf(set))

Positive(vals) == \E n \in Nat : vals \in [1..n -> Nat \ {0}]

LEMMA SetFacts ==
    ASSUME NEW set \in SetType
    PROVE  /\ set.sum \in Nat /\ set.items \in Seq(Item) /\ Len(set.items) \in Nat
           /\ DOMAIN set.items = 1..Len(set.items)
           /\ \A p \in 1..Len(set.items) : set.items[p] \in Item /\ set.items[p][1] \in Nat
           /\ IndicesOf(set) = {set.items[p][1] : p \in 1..Len(set.items)}
           /\ set.items = <<>> <=> Len(set.items) = 0
  BY SMTT(30) DEF SetType, Item, IndicesOf

LEMMA HoldsFacts ==
    ASSUME NEW vals, Positive(vals), NEW set \in SetType, Holds(set, vals)
    PROVE  /\ IndicesOf(set) \in SUBSET DOMAIN vals
           /\ IsFiniteSet(IndicesOf(set))
           /\ Cardinality(IndicesOf(set)) = Len(set.items)
           /\ set.sum = 0 <=> set.items = <<>>
  <1> DEFINE I == IndicesOf(set)
             n == Len(set.items)
             f == [p \in 1..n |-> set.items[p][1]]
  <1>1. PICK m \in Nat : vals \in [1..m -> Nat \ {0}]
    BY DEF Positive
  <1>2. n \in Nat /\ DOMAIN set.items = 1..n /\ I = {set.items[p][1] : p \in 1..n} /\ (set.items = <<>> <=> n = 0)
    BY SetFacts
  <1>3. I \in SUBSET DOMAIN vals
    BY <1>2 DEF Holds
  <1>4. IsFiniteSet(1..n) /\ Cardinality(1..n) = n /\ IsFiniteSet(1..m)
    BY <1>2, UpTo
  <1>5. IsFiniteSet(I)
    <2>1. I \in SUBSET (1..m)
      BY <1>1, <1>3
    <2> QED BY <1>4, <2>1, FS_Subset
  <1>6. Cardinality(I) = n
    <2>1. f \in [1..n -> I] /\ \A x \in I : \E p \in 1..n : f[p] = x
      BY <1>2
    <2>2. \A p, q \in 1..n : f[p] = f[q] => p = q
      BY <1>2 DEF Holds
    <2> HIDE DEF f, I, n
    <2>3. f \in Surjection(1..n, I) /\ f \in Injection(1..n, I)
      BY <2>1, <2>2 DEF Surjection, Injection, IsInjective
    <2> QED BY <1>4, <2>3, FS_Surjection
  <1>7. \A x \in I : vals[x] \in Nat /\ vals[x] > 0
    BY <1>1, <1>3
  <1>8. set.sum = SumOver(vals, I)
    BY DEF Holds
  <1> HIDE DEF I
  <1>9. CASE n = 0
    <2>1. I = {}
      BY <1>2, <1>9
    <2>2. SumOver(vals, {}) = 0
      BY <1>5, <1>7, SumFacts
    <2> QED BY <1>2, <1>3, <1>5, <1>6, <1>8, <1>9, <2>1, <2>2 DEF I, n
  <1>10. CASE n # 0
    <2>1. PICK x \in I : TRUE
      <3>1. 1 \in 1..n
        BY <1>2, <1>10
      <3> QED BY <1>2, <3>1
    <2> DEFINE w == I \ {x}
    <2>2. SumOver(vals, I) = vals[x] + SumOver(vals, w)
      BY <1>5, <1>7, SumFacts
    <2>3. IsFiniteSet(w) /\ \A y \in w : vals[y] \in Nat
      BY <1>5, <1>7, FS_Subset
    <2> HIDE DEF w
    <2>4. SumOver(vals, w) \in Nat
      BY <2>3, SumFacts
    <2>5. SumOver(vals, I) # 0
      BY <1>7, <2>2, <2>4
    <2> QED BY <1>2, <1>3, <1>5, <1>6, <1>8, <1>10, <2>5 DEF I, n
  <1> QED BY <1>9, <1>10

LEMMA Concatenated ==
    ASSUME NEW T, NEW s \in Seq(T), NEW t \in Seq(T)
    PROVE  /\ s \o t \in Seq(T) /\ Len(s \o t) = Len(s) + Len(t) /\ Len(s) \in Nat /\ Len(t) \in Nat
           /\ DOMAIN (s \o t) = 1..(Len(s) + Len(t))
           /\ \A p \in 1..Len(s) : (s \o t)[p] = s[p]
           /\ \A p \in 1..Len(t) : (s \o t)[Len(s) + p] = t[p]
  <1>1. Len(s) \in Nat /\ Len(t) \in Nat /\ s \o t \in Seq(T) /\ Len(s \o t) = Len(s) + Len(t)
    OBVIOUS
  <1>2. DOMAIN (s \o t) = 1..(Len(s) + Len(t))
    BY <1>1
  <1>3. ASSUME NEW p \in 1..Len(s) PROVE (s \o t)[p] = s[p]
    BY <1>1
  <1>4. ASSUME NEW p \in 1..Len(t) PROVE (s \o t)[Len(s) + p] = t[p]
    <2> DEFINE q == Len(s) + p
    <2>1. q \in 1..(Len(s) + Len(t)) /\ q > Len(s) /\ q - Len(s) = p
      BY <1>1
    <2> HIDE DEF q
    <2>2. (s \o t)[q] = t[q - Len(s)]
      BY <1>1, <2>1
    <2> QED BY <2>1, <2>2 DEF q
  <1> QED BY <1>1, <1>2, <1>3, <1>4

\* Sets without a common row.
Apart(a, b) == IndicesOf(a) \cap IndicesOf(b) = {}

Joined(a, b) == [sum |-> a.sum + b.sum, items |-> a.items \o b.items]

\* Two sets without a common row, joined.
LEMMA JoinHolds ==
    ASSUME NEW vals, Positive(vals), NEW a \in SetType, NEW b \in SetType,
           Holds(a, vals), Holds(b, vals), Apart(a, b)
    PROVE  /\ Joined(a, b) \in SetType
           /\ Holds(Joined(a, b), vals)
           /\ \A x : x \in IndicesOf(Joined(a, b)) <=> x \in IndicesOf(a) \/ x \in IndicesOf(b)
           /\ Len(Joined(a, b).items) = Len(a.items) + Len(b.items)
  <1> DEFINE j == Joined(a, b)
             m == Len(a.items)
             n == Len(b.items)
  <1>1. /\ a.sum \in Nat /\ b.sum \in Nat /\ m \in Nat /\ n \in Nat
        /\ a.items \in Seq(Item) /\ b.items \in Seq(Item)
        /\ DOMAIN a.items = 1..m /\ DOMAIN b.items = 1..n
    BY SetFacts
  <1>2. IndicesOf(a) = {a.items[p][1] : p \in 1..m} /\ IndicesOf(b) = {b.items[p][1] : p \in 1..n}
    BY SetFacts
  <1>3. j.sum = a.sum + b.sum /\ j.items = a.items \o b.items
    BY DEF Joined
  <1>4. j \in SetType
    BY <1>1 DEF Joined, SetType
  <1>5. /\ Len(j.items) = m + n /\ DOMAIN j.items = 1..(m + n)
        /\ \A p \in 1..m : j.items[p] = a.items[p]
        /\ \A p \in 1..n : j.items[m + p] = b.items[p]
    <2> DEFINE s == a.items
               t == b.items
    <2>1. s \in Seq(Item) /\ t \in Seq(Item)
      BY <1>1
    <2> HIDE DEF s, t
    <2>2. /\ Len(s \o t) = Len(s) + Len(t) /\ DOMAIN (s \o t) = 1..(Len(s) + Len(t))
          /\ \A p \in 1..Len(s) : (s \o t)[p] = s[p]
          /\ \A p \in 1..Len(t) : (s \o t)[Len(s) + p] = t[p]
      BY <2>1, Concatenated
    <2> QED BY <1>3, <2>2 DEF s, t
  <1> HIDE DEF j, m, n
  <1>6. \A p \in 1..(m + n) : p \in 1..m \/ \E q \in 1..n : p = m + q
    <2> TAKE p \in 1..(m + n)
    <2>1. CASE p <= m
      BY <1>1, <2>1
    <2>2. CASE p > m
      <3>1. p - m \in 1..n /\ p = m + (p - m)
        BY <1>1, <2>2
      <3> QED BY <3>1
    <2> QED BY <1>1, <2>1, <2>2
  <1>7. \A p \in 1..m : p \in 1..(m + n)
    BY <1>1
  <1>8. \A p \in 1..n : m + p \in 1..(m + n)
    BY <1>1
  <1>9. IndicesOf(j) = {j.items[p][1] : p \in 1..(m + n)}
    BY <1>4, <1>5, SetFacts
  <1>10. IndicesOf(j) = IndicesOf(a) \cup IndicesOf(b)
    <2>1. ASSUME NEW x \in IndicesOf(j) PROVE x \in IndicesOf(a) \cup IndicesOf(b)
      <3>1. PICK p \in 1..(m + n) : x = j.items[p][1]
        BY <1>9
      <3> QED BY <1>2, <1>5, <1>6, <3>1
    <2>2. ASSUME NEW x \in IndicesOf(a) PROVE x \in IndicesOf(j)
      BY <1>2, <1>5, <1>7, <1>9
    <2>3. ASSUME NEW x \in IndicesOf(b) PROVE x \in IndicesOf(j)
      BY <1>2, <1>5, <1>8, <1>9
    <2> QED BY <2>1, <2>2, <2>3
  <1>11. \A p \in 1..(m + n) : j.items[p][1] \in DOMAIN vals /\ j.items[p][2] = vals[j.items[p][1]]
    <2> TAKE p \in 1..(m + n)
    <2>1. CASE p \in 1..m
      BY <1>1, <1>5, <2>1 DEF Holds
    <2>2. CASE ~(p \in 1..m)
      <3>1. PICK q \in 1..n : p = m + q
        BY <1>6, <2>2
      <3>2. b.items[q][1] \in DOMAIN vals /\ b.items[q][2] = vals[b.items[q][1]]
        BY <1>1 DEF Holds
      <3> QED BY <1>5, <3>1, <3>2
    <2> QED BY <2>1, <2>2
  <1>12. ASSUME NEW p \in 1..(m + n), NEW q \in 1..(m + n), j.items[p][1] = j.items[q][1]
         PROVE  p = q
    <2>1. CASE p \in 1..m /\ q \in 1..m
      <3>1. a.items[p][1] = a.items[q][1]
        BY <1>5, <1>12, <2>1
      <3> QED BY <1>1, <2>1, <3>1 DEF Holds
    <2>2. CASE ~(p \in 1..m) /\ ~(q \in 1..m)
      <3>1. PICK c \in 1..n : p = m + c
        BY <1>6, <2>2
      <3>2. PICK d \in 1..n : q = m + d
        BY <1>6, <2>2
      <3>3. b.items[c][1] = b.items[d][1]
        BY <1>5, <1>12, <3>1, <3>2
      <3>4. c = d
        BY <1>1, <3>3 DEF Holds
      <3> QED BY <3>1, <3>2, <3>4
    <2>3. CASE p \in 1..m /\ ~(q \in 1..m)
      <3>1. PICK d \in 1..n : q = m + d
        BY <1>6, <2>3
      <3>2. j.items[p][1] \in IndicesOf(a) /\ j.items[q][1] \in IndicesOf(b)
        BY <1>2, <1>5, <2>3, <3>1
      <3> QED BY <1>12, <3>2 DEF Apart
    <2>4. CASE ~(p \in 1..m) /\ q \in 1..m
      <3>1. PICK d \in 1..n : p = m + d
        BY <1>6, <2>4
      <3>2. j.items[q][1] \in IndicesOf(a) /\ j.items[p][1] \in IndicesOf(b)
        BY <1>2, <1>5, <2>4, <3>1
      <3> QED BY <1>12, <3>2 DEF Apart
    <2> QED BY <2>1, <2>2, <2>3, <2>4
  <1>13. j.sum = SumOver(vals, IndicesOf(j))
    <2>1. PICK k \in Nat : vals \in [1..k -> Nat \ {0}]
      BY DEF Positive
    <2>2. IsFiniteSet(1..k) /\ \A x \in 1..k : vals[x] \in Nat
      BY <2>1, UpTo
    <2>3. IndicesOf(a) \in SUBSET (1..k) /\ IndicesOf(b) \in SUBSET (1..k)
      BY <2>1, HoldsFacts
    <2>4. SumOver(vals, IndicesOf(a) \cup IndicesOf(b)) = SumOver(vals, IndicesOf(a)) + SumOver(vals, IndicesOf(b))
      BY <2>2, <2>3, SumOfUnion DEF Apart
    <2> QED BY <1>3, <1>10, <2>4 DEF Holds
  <1>14. Holds(j, vals)
    BY <1>5, <1>11, <1>12, <1>13 DEF Holds
  <1> QED BY <1>4, <1>5, <1>10, <1>14 DEF j, m, n

IsState(s, k, vals) ==
    /\ s \in [1..k -> SetType]
    /\ \A j \in 1..k : Holds(s[j], vals)
    /\ \A i, j \in 1..k : i <= j => s[j].sum <= s[i].sum
    /\ \A i, j \in 1..k : i # j => Apart(s[i], s[j])
    /\ s[1].items # <<>>

\* The rows in a state.
InState(s) == UNION {IndicesOf(s[j]) : j \in DOMAIN s}

\* States without a common row.
Strangers(s, t) == InState(s) \cap InState(t) = {}

\* Sets of equal size; sets that are all used, or of at most one row.
Even(s) == \A i, j \in DOMAIN s : Len(s[i].items) = Len(s[j].items)

Spare(s) == (\A i \in DOMAIN s : s[i].items # <<>>) \/ (\A i \in DOMAIN s : Len(s[i].items) <= 1)

LEMMA StateFacts ==
    ASSUME NEW vals, Positive(vals), NEW k \in Nat \ {0}, NEW s, IsState(s, k, vals)
    PROVE  /\ DOMAIN s = 1..k /\ Len(s) = k /\ s \in Seq(SetType)
           /\ \A j \in 1..k : s[j] \in SetType /\ s[j].sum \in Nat /\ IndicesOf(s[j]) \in SUBSET DOMAIN vals
           /\ \A j \in 1..k : s[j].sum = 0 <=> s[j].items = <<>>
           /\ InState(s) \in SUBSET DOMAIN vals /\ InState(s) # {}
           /\ Spread(s) \in Nat
           /\ \A i, j \in 1..k : s[i].sum - s[j].sum <= Spread(s)
  <1>1. s \in [1..k -> SetType] /\ DOMAIN s = 1..k /\ Len(s) = k /\ s \in Seq(SetType)
    <2>1. s \in [1..k -> SetType]
      BY DEF IsState
    <2> QED BY <2>1
  <1>2. \A j \in 1..k : s[j] \in SetType /\ s[j].sum \in Nat /\ Holds(s[j], vals)
    BY <1>1 DEF IsState, SetType
  <1>3. \A j \in 1..k : IndicesOf(s[j]) \in SUBSET DOMAIN vals /\ (s[j].sum = 0 <=> s[j].items = <<>>)
    BY <1>2, HoldsFacts
  <1>4. InState(s) \in SUBSET DOMAIN vals
    BY <1>1, <1>3 DEF InState
  <1>5. InState(s) # {}
    <2>1. 1 \in 1..k
      OBVIOUS
    <2>2. Len(s[1].items) # 0 /\ Len(s[1].items) \in Nat /\ IndicesOf(s[1]) = {s[1].items[p][1] : p \in 1..Len(s[1].items)}
      BY <1>2, <2>1, SetFacts DEF IsState
    <2>3. 1 \in 1..Len(s[1].items)
      BY <2>2
    <2>4. s[1].items[1][1] \in IndicesOf(s[1])
      BY <2>2, <2>3
    <2> QED BY <1>1, <2>1, <2>4 DEF InState
  <1>6. /\ Spread(s) \in Nat
        /\ \A i, j \in 1..k : s[i].sum - s[j].sum <= Spread(s)
    <2>1. 1 \in 1..k /\ k \in 1..k
      OBVIOUS
    <2>2. \A j \in 1..k : s[j].sum <= s[1].sum /\ s[k].sum <= s[j].sum
      <3> TAKE j \in 1..k
      <3>1. 1 <= j /\ j <= k
        OBVIOUS
      <3> QED BY <2>1, <3>1 DEF IsState
    <2>3. Spread(s) = s[1].sum - s[k].sum
      BY <1>1 DEF Spread
    <2>4. s[1].sum \in Nat /\ s[k].sum \in Nat /\ s[k].sum <= s[1].sum
      BY <1>2, <2>1, <2>2
    <2> QED BY <1>2, <2>2, <2>3, <2>4
  <1> QED BY <1>1, <1>2, <1>3, <1>4, <1>5, <1>6

\* Two states without a common row, merged.
LEMMA MergeIsState ==
    ASSUME NEW vals, Positive(vals), NEW k \in Nat \ {0}, NEW s, NEW t,
           IsState(s, k, vals), IsState(t, k, vals), Strangers(s, t)
    PROVE  LET m == MergeStates(s, t) IN
           /\ IsState(m, k, vals)
           /\ \A x : x \in InState(m) <=> x \in InState(s) \/ x \in InState(t)
           /\ Even(s) /\ Even(t) => Even(m)
           /\ Spare(s) /\ Spare(t) => Spare(m)
           /\ Spread(m) <= Spread(s) \/ Spread(m) <= Spread(t)
  <1> DEFINE m == MergeStates(s, t)
             back == [i \in 1..k |-> k + 1 - i]
             sets == [i \in 1..k |-> Joined(s[i], t[back[i]])]
  <1>1. /\ DOMAIN s = 1..k /\ Len(s) = k
        /\ \A j \in 1..k : s[j] \in SetType /\ s[j].sum \in Nat /\ Holds(s[j], vals)
    BY StateFacts, ZenonT(30) DEF IsState
  <1>2. /\ DOMAIN t = 1..k /\ Len(t) = k
        /\ \A j \in 1..k : t[j] \in SetType /\ t[j].sum \in Nat /\ Holds(t[j], vals)
    BY StateFacts DEF IsState
  <1>3. /\ \A i \in 1..k : back[i] \in 1..k /\ back[back[i]] = i /\ i \in Nat
        /\ \A i, j \in 1..k : (i # j => back[i] # back[j]) /\ (i <= j => back[j] <= back[i])
    OBVIOUS
  <1>4. \A i, j \in 1..k : Apart(s[i], t[j])
    BY <1>1, <1>2, ZenonT(30) DEF InState, Apart, Strangers
  <1>6. m = Decreasing(sets)
    <2>1. [i \in 1..k |-> [sum |-> s[i].sum + t[k + 1 - i].sum, items |-> s[i].items \o t[k + 1 - i].items]] = sets
      BY DEF Joined
    <2> HIDE DEF sets
    <2> QED BY <1>1, <2>1 DEF MergeStates
  <1> HIDE DEF back
  <1>5. \A i \in 1..k : /\ sets[i] = Joined(s[i], t[back[i]])
                        /\ sets[i] \in SetType /\ Holds(sets[i], vals)
                        /\ \A x : x \in IndicesOf(sets[i]) <=> x \in IndicesOf(s[i]) \/ x \in IndicesOf(t[back[i]])
                        /\ Len(sets[i].items) = Len(s[i].items) + Len(t[back[i]].items)
                        /\ sets[i].sum = s[i].sum + t[back[i]].sum
    <2> TAKE i \in 1..k
    <2>1. sets[i] = Joined(s[i], t[back[i]])
      OBVIOUS
    <2> DEFINE a == s[i]
               b == t[back[i]]
    <2>2. a \in SetType /\ b \in SetType /\ Holds(a, vals) /\ Holds(b, vals) /\ Apart(a, b)
      BY <1>1, <1>2, <1>3, <1>4
    <2> HIDE DEF a, b
    <2>3. /\ Joined(a, b) \in SetType /\ Holds(Joined(a, b), vals)
          /\ \A x : x \in IndicesOf(Joined(a, b)) <=> x \in IndicesOf(a) \/ x \in IndicesOf(b)
          /\ Len(Joined(a, b).items) = Len(a.items) + Len(b.items)
      BY <2>2, JoinHolds
    <2>4. Joined(a, b).sum = a.sum + b.sum
      BY DEF Joined
    <2> HIDE DEF sets
    <2> QED BY <2>1, <2>3, <2>4 DEF a, b
  <1>7. sets \in [1..k -> SetType]
    BY <1>5
  <1>8. PICK o : /\ IsPermutation(o, k)
                 /\ Decreasing(sets) = [i \in 1..k |-> sets[o[i]]]
                 /\ \A i, j \in 1..k : i <= j => sets[o[j]].sum <= sets[o[i]].sum
    BY <1>7, DecreasingPermutes
  <1> HIDE DEF sets, m
  <1>9. DOMAIN m = 1..k /\ Len(m) = k /\ \A i \in 1..k : o[i] \in 1..k /\ m[i] = sets[o[i]]
    <2>1. m = [i \in 1..k |-> sets[o[i]]]
      BY <1>6, <1>8
    <2>2. \A i \in 1..k : o[i] \in 1..k
      BY <1>8 DEF IsPermutation
    <2> QED BY <2>1, <2>2
  <1>10. m \in [1..k -> SetType]
    <2>1. m = [i \in 1..k |-> sets[o[i]]]
      BY <1>6, <1>8
    <2> QED BY <1>7, <1>9, <2>1
  <1>11. \A i, j \in 1..k : i # j => Apart(sets[i], sets[j])
    <2> TAKE i, j \in 1..k
    <2> HAVE i # j
    <2> DEFINE i2 == back[i]
               j2 == back[j]
    <2>1. i2 \in 1..k /\ j2 \in 1..k /\ i2 # j2
      BY <1>3
    <2>2. \A x : /\ x \in IndicesOf(sets[i]) <=> x \in IndicesOf(s[i]) \/ x \in IndicesOf(t[i2])
                 /\ x \in IndicesOf(sets[j]) <=> x \in IndicesOf(s[j]) \/ x \in IndicesOf(t[j2])
      BY <1>5
    <2> HIDE DEF i2, j2
    <2>3. Apart(s[i], s[j]) /\ Apart(t[i2], t[j2])
      BY <2>1 DEF IsState
    <2>4. Apart(s[i], t[j2]) /\ Apart(s[j], t[i2])
      BY <1>4, <2>1
    <2> QED BY <2>2, <2>3, <2>4 DEF Apart
  <1>12. \A i, j \in 1..k : i # j => Apart(m[i], m[j])
    <2> TAKE i, j \in 1..k
    <2> HAVE i # j
    <2>1. o[i] # o[j] /\ o[i] \in 1..k /\ o[j] \in 1..k
      BY <1>8 DEF IsPermutation
    <2>2. Apart(sets[o[i]], sets[o[j]])
      BY <1>11, <2>1
    <2> QED BY <1>9, <2>2
  <1>13. \A i, j \in 1..k : i <= j => m[j].sum <= m[i].sum
    BY <1>8, <1>9
  <1>14. \A x : x \in InState(m) <=> x \in InState(s) \/ x \in InState(t)
    <2>1. ASSUME NEW x \in InState(m) PROVE x \in InState(s) \/ x \in InState(t)
      <3>1. PICK i \in 1..k : x \in IndicesOf(m[i])
        BY <1>9 DEF InState
      <3>2. x \in IndicesOf(s[o[i]]) \/ x \in IndicesOf(t[back[o[i]]])
        BY <1>5, <1>9, <3>1
      <3>3. o[i] \in 1..k /\ back[o[i]] \in 1..k
        BY <1>3, <1>9
      <3> QED BY <1>1, <1>2, <3>2, <3>3 DEF InState
    <2>2. ASSUME NEW x \in InState(s) PROVE x \in InState(m)
      <3>1. PICK j \in 1..k : x \in IndicesOf(s[j])
        BY <1>1 DEF InState
      <3>2. PICK i \in 1..k : o[i] = j
        BY <1>8 DEF IsPermutation
      <3>3. x \in IndicesOf(m[i])
        BY <1>5, <1>9, <3>1, <3>2
      <3> QED BY <1>9, <3>3 DEF InState
    <2>3. ASSUME NEW x \in InState(t) PROVE x \in InState(m)
      <3>1. PICK j \in 1..k : x \in IndicesOf(t[j])
        BY <1>2 DEF InState
      <3>2. back[j] \in 1..k /\ back[back[j]] = j
        BY <1>3
      <3>3. PICK i \in 1..k : o[i] = back[j]
        BY <1>8, <3>2 DEF IsPermutation
      <3>4. x \in IndicesOf(m[i])
        BY <1>5, <1>9, <3>1, <3>2, <3>3
      <3> QED BY <1>9, <3>4 DEF InState
    <2> QED BY <2>1, <2>2, <2>3
  <1>15. m[1].items # <<>>
    <2>1. 1 \in 1..k /\ \A j \in 1..k : 1 <= j
      OBVIOUS
    <2>2. PICK j \in 1..k : o[j] = 1
      BY <1>8, <2>1 DEF IsPermutation
    <2>3. s[1].sum \in Nat /\ s[1].sum # 0
      <3>1. s[1].items # <<>>
        BY DEF IsState
      <3> QED BY <2>1, <3>1, StateFacts
    <2>4. t[back[1]].sum \in Nat
      BY <1>2, <1>3, <2>1
    <2>5. m[j].sum = s[1].sum + t[back[1]].sum
      BY <1>5, <1>9, <2>1, <2>2
    <2>6. m[j].sum <= m[1].sum
      BY <1>13, <2>1
    <2>7. m[1] \in SetType /\ Holds(m[1], vals)
      BY <1>5, <1>9, <2>1, ZenonT(30)
    <2>8. m[1].sum \in Nat /\ (m[1].sum = 0 <=> m[1].items = <<>>)
      BY <2>7, HoldsFacts DEF SetType
    <2> QED BY <2>3, <2>4, <2>5, <2>6, <2>8
  <1>16. IsState(m, k, vals)
    <2>1. \A j \in 1..k : Holds(m[j], vals)
      BY <1>5, <1>9
    <2> QED BY <1>10, <1>12, <1>13, <1>15, <2>1 DEF IsState
  <1>17. ASSUME Even(s), Even(t) PROVE Even(m)
    <2>1. \A i, j \in 1..k : Len(sets[i].items) = Len(sets[j].items)
      <3> TAKE i, j \in 1..k
      <3>1. Len(s[i].items) = Len(s[j].items) /\ Len(t[back[i]].items) = Len(t[back[j]].items)
        BY <1>1, <1>2, <1>3, <1>17 DEF Even
      <3> QED BY <1>5, <3>1
    <2> QED BY <1>9, <2>1, SMTT(30) DEF Even
  <1>18. ASSUME Spare(s), Spare(t) PROVE Spare(m)
    <2> DEFINE ls == [i \in 1..k |-> Len(s[i].items)]
               lt == [i \in 1..k |-> Len(t[i].items)]
               lm == [i \in 1..k |-> Len(sets[i].items)]
    <2>0. /\ \A i \in 1..k : Len(s[i].items) \in Nat /\ (s[i].items = <<>> <=> Len(s[i].items) = 0)
          /\ \A i \in 1..k : Len(t[i].items) \in Nat /\ (t[i].items = <<>> <=> Len(t[i].items) = 0)
          /\ \A i \in 1..k : Len(sets[i].items) \in Nat /\ (sets[i].items = <<>> <=> Len(sets[i].items) = 0)
      BY <1>1, <1>2, <1>5, SetFacts
    <2>3. \A i \in 1..k : Len(sets[i].items) = Len(s[i].items) + Len(t[back[i]].items) /\ back[i] \in 1..k
      BY <1>3, <1>5
    <2>4. /\ \A i \in 1..k : ls[i] \in Nat /\ lt[i] \in Nat /\ back[i] \in 1..k /\ lm[i] = ls[i] + lt[back[i]]
          /\ \A i \in 1..k : s[i].items = <<>> <=> ls[i] = 0
          /\ \A i \in 1..k : t[i].items = <<>> <=> lt[i] = 0
          /\ \A i \in 1..k : sets[i].items = <<>> <=> lm[i] = 0
          /\ \A i \in 1..k : Len(s[i].items) = ls[i] /\ Len(t[i].items) = lt[i] /\ Len(sets[i].items) = lm[i]
      BY <2>0, <2>3
    <2> HIDE DEF ls, lt, lm
    <2>1. CASE (\A i \in 1..k : s[i].items # <<>>) \/ (\A i \in 1..k : t[i].items # <<>>)
      <3>1. \A i \in 1..k : sets[i].items # <<>>
        <4> TAKE i \in 1..k
        <4>1. ls[i] # 0 \/ lt[back[i]] # 0
          BY <2>1, <2>4
        <4>2. lm[i] # 0
          BY <2>4, <4>1
        <4> QED BY <2>4, <4>2
      <3> QED BY <1>9, <3>1 DEF Spare
    <2>2. CASE ~(\A i \in 1..k : s[i].items # <<>>) /\ ~(\A i \in 1..k : t[i].items # <<>>)
      <3>1. (\A i \in 1..k : Len(s[i].items) <= 1) /\ (\A i \in 1..k : Len(t[i].items) <= 1)
        BY <1>1, <1>2, <1>18, <2>2 DEF Spare
      <3>2. ASSUME NEW i \in 1..k, NEW j \in 1..k, i <= j, s[i].items = <<>> PROVE s[j].items = <<>>
        <4>1. s[i].sum = 0 /\ s[j].sum \in Nat
          <5>1. s[j].sum \in Nat
            BY <1>1, <3>2, StateFacts
          <5>2. s[i].sum = 0
            BY <1>1, <3>2, StateFacts
          <5> QED BY <5>1, <5>2
        <4>3. s[j].sum <= s[i].sum
          BY <3>2 DEF IsState
        <4>2. s[j].sum = 0
          BY <4>1, <4>3
        <4> QED BY <4>2, StateFacts
      <3>3. ASSUME NEW i \in 1..k, NEW j \in 1..k, i <= j, t[i].items = <<>> PROVE t[j].items = <<>>
        <4>1. t[i].sum = 0 /\ t[j].sum \in Nat
          BY <3>3, StateFacts
        <4>3. t[j].sum <= t[i].sum
          BY <3>3 DEF IsState
        <4>2. t[j].sum = 0
          BY <4>1, <4>3
        <4> QED BY <4>2, StateFacts
      <3>4. CASE \E i \in 1..k : s[i].items # <<>> /\ t[back[i]].items # <<>>
        <4>1. PICK i \in 1..k : s[i].items # <<>> /\ t[back[i]].items # <<>>
          BY <3>4
        <4>2. \A j \in 1..k : sets[j].items # <<>>
          <5> TAKE j \in 1..k
          <5>1. CASE j <= i
            <6>1. s[j].items # <<>>
              BY <3>2, <4>1, <5>1
            <6>2. ls[j] # 0
              BY <2>4, <6>1
            <6>3. lm[j] # 0
              BY <2>4, <6>2, SMTT(30)
            <6> QED BY <2>4, <6>3
          <5>2. CASE i <= j
            <6> DEFINE i2 == back[i]
                       j2 == back[j]
            <6>1. i2 \in 1..k /\ j2 \in 1..k /\ j2 <= i2
              BY <1>3, <5>2
            <6>2. t[i2].items # <<>>
              BY <4>1
            <6> HIDE DEF i2, j2
            <6>3. t[j2].items # <<>>
              BY <3>3, <6>1, <6>2
            <6>4. lm[j] = ls[j] + lt[j2] /\ ls[j] \in Nat
              BY <2>4 DEF j2
            <6>5. lt[j2] \in Nat /\ lt[j2] # 0
              BY <2>4, <6>1, <6>3
            <6>6. lm[j] # 0
              BY <6>4, <6>5
            <6> QED BY <2>4, <6>6
          <5> QED BY <5>1, <5>2
        <4> QED BY <1>9, <4>2 DEF Spare
      <3>5. CASE ~(\E i \in 1..k : s[i].items # <<>> /\ t[back[i]].items # <<>>)
        <4>1. \A i \in 1..k : Len(sets[i].items) <= 1
          <5> TAKE i \in 1..k
          <5>1. ls[i] = 0 \/ lt[back[i]] = 0
            BY <2>4, <3>5
          <5>2. ls[i] <= 1 /\ lt[back[i]] <= 1
            BY <2>4, <3>1
          <5>3. lm[i] <= 1
            BY <2>4, <5>1, <5>2
          <5> QED BY <2>4, <5>3
        <4> QED BY <1>9, <4>1 DEF Spare
      <3> QED BY <3>4, <3>5
    <2> QED BY <2>1, <2>2
  <1>19. Spread(m) <= Spread(s) \/ Spread(m) <= Spread(t)
    <2>1. 1 \in 1..k /\ k \in 1..k
      OBVIOUS
    <2> DEFINE i == o[1]
               j == o[k]
               i2 == back[i]
               j2 == back[j]
    <2>2. i \in 1..k /\ j \in 1..k /\ i2 \in 1..k /\ j2 \in 1..k
      BY <1>3, <1>9, <2>1
    <2>3. m[1].sum = s[i].sum + t[i2].sum /\ m[k].sum = s[j].sum + t[j2].sum
      BY <1>5, <1>9, <2>1
    <2>4. Spread(m) = m[1].sum - m[k].sum
      BY <1>9 DEF Spread
    <2>5. (i <= j => j2 <= i2) /\ (j <= i => i2 <= j2) /\ (i <= j \/ j <= i)
      <3>1. (i <= j \/ j <= i)
        BY <2>2
      <3> QED BY <1>3, <2>2, <3>1
    <2> HIDE DEF i, j, i2, j2
    <2>6. s[i].sum \in Nat /\ s[j].sum \in Nat /\ t[i2].sum \in Nat /\ t[j2].sum \in Nat
      BY <1>1, <1>2, <2>2
    <2>7. s[i].sum - s[j].sum <= Spread(s) /\ t[i2].sum - t[j2].sum <= Spread(t) /\ Spread(s) \in Nat /\ Spread(t) \in Nat
      BY <2>2, StateFacts
    <2>8. CASE i <= j
      <3>1. t[i2].sum <= t[j2].sum
        BY <2>2, <2>5, <2>8 DEF IsState
      <3> QED BY <2>3, <2>4, <2>6, <2>7, <3>1
    <2>9. CASE j <= i
      <3>1. s[i].sum <= s[j].sum
        BY <2>2, <2>9 DEF IsState
      <3> QED BY <2>3, <2>4, <2>6, <2>7, <3>1
    <2> QED BY <2>5, <2>8, <2>9
  <1> QED BY <1>14, <1>16, <1>17, <1>18, <1>19 DEF m

-----------------------------------------------------------------------------
\* The heap: its states have all rows between them.

IsHeap(H, k, vals, equal, gap) ==
    /\ IsFiniteSet(H) /\ H # {}
    /\ \A s \in H : IsState(s, k, vals)
    /\ \A s, t \in H : s # t => Strangers(s, t)
    /\ \A x \in DOMAIN vals : \E s \in H : x \in InState(s)
    /\ \A s \in H : IF equal THEN Even(s) ELSE Spare(s)
    /\ \A s \in H : Spread(s) <= gap

\* One state comes before all others of a heap.
LEMMA NextIsFirst ==
    ASSUME NEW vals, Positive(vals), NEW k \in Nat \ {0}, NEW H, IsFiniteSet(H), H # {},
           \A s \in H : IsState(s, k, vals), \A s, t \in H : s # t => Strangers(s, t)
    PROVE  NextOf(H) \in H
  <1> DEFINE R == {p \in H \X H : PoppedBefore(p[1], p[2])}
  <1>1. \A s, t \in H : <<s, t>> \in R <=> PoppedBefore(s, t)
    OBVIOUS
  <1>2. \A s \in H : Spread(s) \in Nat /\ s[1] \in SetType
    <2> TAKE s \in H
    <2>1. 1 \in 1..k
      OBVIOUS
    <2> QED BY <2>1, StateFacts
  <1>3. \A s, t \in H : s # t => s[1] # t[1]
    <2> TAKE s, t \in H
    <2> HAVE s # t
    <2>1. 1 \in 1..k /\ DOMAIN s = 1..k /\ DOMAIN t = 1..k
      BY StateFacts
    <2>2. s[1] \in SetType /\ s[1].items # <<>>
      BY <1>2 DEF IsState
    <2>3. Len(s[1].items) \in Nat /\ Len(s[1].items) # 0 /\ IndicesOf(s[1]) = {s[1].items[p][1] : p \in 1..Len(s[1].items)}
      BY <2>2, SetFacts
    <2>4. s[1].items[1][1] \in IndicesOf(s[1])
      BY <2>3
    <2>5. s[1].items[1][1] \in InState(s)
      BY <2>1, <2>4 DEF InState
    <2>6. s[1].items[1][1] \notin InState(t)
      BY <2>5 DEF Strangers
    <2> QED BY <2>1, <2>4, <2>6 DEF InState
  <1>4. \A s \in H : ~PoppedBefore(s, s)
    BY <1>2, SetsAreOrdered DEF PoppedBefore
  <1>5. ASSUME NEW s \in H, NEW t \in H, NEW u \in H, PoppedBefore(s, t), PoppedBefore(t, u)
        PROVE  PoppedBefore(s, u)
    <2>1. Spread(s) \in Nat /\ Spread(t) \in Nat /\ Spread(u) \in Nat
      BY <1>2
    <2>2. Spread(s) > Spread(t) \/ (Spread(s) = Spread(t) /\ SetLess(t[1], s[1]))
      BY <1>5 DEF PoppedBefore
    <2>3. Spread(t) > Spread(u) \/ (Spread(t) = Spread(u) /\ SetLess(u[1], t[1]))
      BY <1>5 DEF PoppedBefore
    <2>4. SetLess(t[1], s[1]) /\ SetLess(u[1], t[1]) => SetLess(u[1], s[1])
      BY <1>2, SetsAreOrdered
    <2>5. Spread(s) > Spread(u) \/ (Spread(s) = Spread(u) /\ SetLess(u[1], s[1]))
      BY <2>1, <2>2, <2>3, <2>4
    <2> QED BY <2>5 DEF PoppedBefore
  <1>6. ASSUME NEW s \in H, NEW t \in H, s # t
        PROVE  PoppedBefore(s, t) \/ PoppedBefore(t, s)
    <2>1. Spread(s) \in Nat /\ Spread(t) \in Nat
      BY <1>2
    <2>2. SetLess(t[1], s[1]) \/ SetLess(s[1], t[1])
      BY <1>2, <1>3, <1>6, SetsAreOrdered
    <2> QED BY <2>1, <2>2 DEF PoppedBefore
  <1> HIDE DEF R
  <1>7. IsStrictOrder(H, R)
    BY <1>1, <1>4, <1>5, <1>6 DEF IsStrictOrder
  <1>8. \E s \in H : \A t \in H \ {s} : <<s, t>> \in R
    BY <1>7, FirstOne
  <1>9. \E s \in H : \A t \in H \ {s} : PoppedBefore(s, t)
    BY <1>1, <1>8
  <1> QED BY <1>9 DEF NextOf

\* Merging two states of a heap leaves a heap with one state less.
LEMMA MergedIsHeap ==
    ASSUME NEW vals, Positive(vals), NEW k \in Nat \ {0}, NEW equal, NEW gap \in Nat,
           NEW H, IsHeap(H, k, vals, equal, gap), Cardinality(H) > 1
    PROVE  IsHeap(Merged(H), k, vals, equal, gap) /\ Cardinality(Merged(H)) = Cardinality(H) - 1
  <1> DEFINE s == NextOf(H)
             rest == H \ {s}
             t == NextOf(rest)
             m == MergeStates(s, t)
             R == H \ {s, t}
             M == R \cup {m}
  <1>1. /\ IsFiniteSet(H) /\ H # {} /\ \A u \in H : IsState(u, k, vals)
        /\ \A u, v \in H : u # v => Strangers(u, v)
        /\ Cardinality(H) \in Nat
    BY FS_CardinalityType DEF IsHeap
  <1>2. s \in H
    BY <1>1, NextIsFirst
  <1>3. IsFiniteSet(rest) /\ Cardinality(rest) = Cardinality(H) - 1
    BY <1>1, <1>2, FS_RemoveElement
  <1>4. rest # {} /\ \A u \in rest : u \in H
    BY <1>1, <1>3, FS_EmptySet
  <1>5. t \in rest
    <2> HIDE DEF rest
    <2>1. \A u, v \in rest : u # v => Strangers(u, v)
      BY <1>1, <1>4
    <2>2. \A u \in rest : IsState(u, k, vals)
      BY <1>1, <1>4
    <2> QED BY <1>3, <1>4, <2>1, <2>2, NextIsFirst
  <1>6. Merged(H) = M
    BY DEF Merged
  <1>7. t \in H /\ t # s /\ R = rest \ {t}
    BY <1>5
  <1>8. IsFiniteSet(R) /\ Cardinality(R) = Cardinality(H) - 2
    <2>1. IsFiniteSet(rest \ {t}) /\ Cardinality(rest \ {t}) = Cardinality(rest) - 1
      BY <1>3, <1>5, FS_RemoveElement
    <2> QED BY <1>1, <1>3, <1>7, <2>1
  <1>9. IsState(s, k, vals) /\ IsState(t, k, vals) /\ Strangers(s, t)
    BY <1>1, <1>2, <1>7
  <1> HIDE DEF s, t, rest
  <1>10. /\ IsState(m, k, vals)
         /\ \A x : x \in InState(m) <=> x \in InState(s) \/ x \in InState(t)
         /\ Even(s) /\ Even(t) => Even(m)
         /\ Spare(s) /\ Spare(t) => Spare(m)
         /\ Spread(m) <= Spread(s) \/ Spread(m) <= Spread(t)
    BY <1>9, MergeIsState
  <1> HIDE DEF m
  <1>11. \A u \in R : Strangers(u, m) /\ Strangers(m, u)
    <2> TAKE u \in R
    <2>1. u \in H /\ u # s /\ u # t
      OBVIOUS
    <2>2. Strangers(u, s) /\ Strangers(u, t)
      BY <1>1, <1>2, <1>7, <2>1
    <2> QED BY <1>10, <2>2 DEF Strangers
  <1>12. m \notin R
    <2> SUFFICES ASSUME m \in R PROVE FALSE
      OBVIOUS
    <2>1. Strangers(m, m)
      BY <1>11
    <2>2. InState(m) # {}
      BY <1>10, StateFacts
    <2> QED BY <2>1, <2>2 DEF Strangers
  <1>13. IsFiniteSet(M) /\ Cardinality(M) = Cardinality(H) - 1
    <2>1. IsFiniteSet(M) /\ Cardinality(M) = Cardinality(R) + 1
      BY <1>8, <1>12, FS_AddElement
    <2> QED BY <1>1, <1>8, <2>1
  <1>14. \A u \in M : IsState(u, k, vals)
    BY <1>1, <1>10
  <1>15. \A u, v \in M : u # v => Strangers(u, v)
    BY <1>1, <1>11
  <1>16. \A x \in DOMAIN vals : \E u \in M : x \in InState(u)
    <2> TAKE x \in DOMAIN vals
    <2>1. PICK u \in H : x \in InState(u)
      BY DEF IsHeap
    <2>2. CASE u = s \/ u = t
      BY <1>10, <2>1, <2>2
    <2>3. CASE ~(u = s \/ u = t)
      BY <2>1, <2>3
    <2> QED BY <2>2, <2>3
  <1>17. \A u \in M : IF equal THEN Even(u) ELSE Spare(u)
    BY <1>2, <1>7, <1>10 DEF IsHeap
  <1>18. \A u \in M : Spread(u) <= gap
    <2>1. Spread(s) <= gap /\ Spread(t) <= gap /\ \A u \in R : Spread(u) <= gap
      BY <1>2, <1>7 DEF IsHeap
    <2>2. Spread(m) \in Nat /\ Spread(s) \in Nat /\ Spread(t) \in Nat
      BY <1>9, <1>10, StateFacts
    <2> QED BY <1>10, <2>1, <2>2
  <1>19. IsHeap(M, k, vals, equal, gap)
    <2>1. M # {}
      OBVIOUS
    <2> HIDE DEF M, R
    <2> QED BY <1>13, <1>14, <1>15, <1>16, <1>17, <1>18, <2>1 DEF IsHeap
  <1> QED BY <1>6, <1>13, <1>19

\* The heaps of the differencing method, one merge after the other.
IsLeft(l, H, N) == l = [n \in 0..N |-> IF n = 0 THEN H ELSE Merged(l[n - 1])]

LEMMA LeftExists ==
    ASSUME NEW H, NEW N \in Nat
    PROVE  \E l : IsLeft(l, H, N)
  <1> DEFINE Good == {n \in Nat : \E l : IsLeft(l, H, n)}
  <1>1. 0 \in Good
    <2> DEFINE l == [n \in 0..0 |-> H]
    <2>1. l = [n \in 0..0 |-> IF n = 0 THEN H ELSE Merged(l[n - 1])]
      OBVIOUS
    <2> HIDE DEF l
    <2>2. IsLeft(l, H, 0)
      BY <2>1 DEF IsLeft
    <2> QED BY <2>2
  <1>2. ASSUME NEW n \in Nat, n \in Good PROVE n + 1 \in Good
    <2>1. PICK e : IsLeft(e, H, n)
      BY <1>2
    <2> DEFINE l == [i \in 0..(n + 1) |-> IF i = n + 1 THEN Merged(e[n]) ELSE e[i]]
               R(i) == IF i = 0 THEN H ELSE Merged(l[i - 1])
    <2>2. \A i \in 0..n : e[i] = IF i = 0 THEN H ELSE Merged(e[i - 1])
      BY <2>1 DEF IsLeft
    <2>3. ASSUME NEW i \in 0..(n + 1) PROVE l[i] = R(i)
      <3>1. CASE i = n + 1
        <4>1. i # 0 /\ i - 1 = n /\ n \in 0..(n + 1) /\ n # n + 1
          BY <3>1
        <4>2. l[n] = e[n]
          BY <4>1
        <4>3. l[i] = Merged(e[n])
          BY <3>1
        <4> HIDE DEF l
        <4> QED BY <4>1, <4>2, <4>3
      <3>2. CASE i # n + 1
        <4>1. i \in 0..n /\ l[i] = e[i]
          BY <3>2
        <4>2. CASE i = 0
          <5>1. e[i] = H
            BY <2>2, <4>1, <4>2
          <5> HIDE DEF l
          <5> QED BY <4>1, <4>2, <5>1
        <4>3. CASE i # 0
          <5>1. e[i] = Merged(e[i - 1])
            BY <2>2, <4>1, <4>3
          <5>2. i - 1 \in 0..(n + 1) /\ i - 1 # n + 1
            BY <4>1, <4>3
          <5> DEFINE j == i - 1
          <5>3. l[j] = e[j]
            BY <5>2
          <5> HIDE DEF l
          <5> QED BY <4>1, <4>3, <5>1, <5>3
        <4> QED BY <4>2, <4>3
      <3> QED BY <3>1, <3>2
    <2>4. l = [i \in 0..(n + 1) |-> l[i]]
      OBVIOUS
    <2>5. l = [i \in 0..(n + 1) |-> R(i)]
      <3> HIDE DEF l, R
      <3> QED BY <2>3, <2>4
    <2> HIDE DEF l
    <2>6. IsLeft(l, H, n + 1)
      BY <2>5 DEF IsLeft
    <2> QED BY <2>6
  <1>3. Good \in SUBSET Nat
    OBVIOUS
  <1>4. N \in Good => \E l : IsLeft(l, H, N)
    OBVIOUS
  <1> HIDE DEF Good
  <1>5. \A n \in Nat : n \in Good
    BY <1>1, <1>2, <1>3, NumbersInduct
  <1> QED BY <1>4, <1>5

LEMMA LeftIsHeap ==
    ASSUME NEW vals, Positive(vals), NEW k \in Nat \ {0}, NEW equal, NEW gap \in Nat,
           NEW H, IsHeap(H, k, vals, equal, gap),
           NEW l, IsLeft(l, H, Cardinality(H) - 1)
    PROVE  /\ Cardinality(H) - 1 \in Nat
           /\ IsHeap(l[Cardinality(H) - 1], k, vals, equal, gap)
           /\ Cardinality(l[Cardinality(H) - 1]) = 1
  <1> DEFINE c == Cardinality(H)
             N == c - 1
             Good == {n \in Nat : n <= N => IsHeap(l[n], k, vals, equal, gap) /\ Cardinality(l[n]) = c - n}
  <1>1. c \in Nat /\ c # 0
    BY FS_CardinalityType, FS_EmptySet DEF IsHeap
  <1>2. N \in Nat
    BY <1>1
  <1>3. \A n \in 0..N : l[n] = IF n = 0 THEN H ELSE Merged(l[n - 1])
    BY DEF IsLeft
  <1> HIDE DEF c, N
  <1>4. 0 \in Good
    <2>1. l[0] = H
      BY <1>2, <1>3
    <2> QED BY <1>1, <2>1 DEF c
  <1>5. ASSUME NEW n \in Nat, n \in Good PROVE n + 1 \in Good
    <2> SUFFICES ASSUME n + 1 <= N
                 PROVE  IsHeap(l[n + 1], k, vals, equal, gap) /\ Cardinality(l[n + 1]) = c - (n + 1)
      OBVIOUS
    <2>1. n <= N /\ n + 1 \in 0..N /\ n + 1 # 0 /\ (n + 1) - 1 = n
      BY <1>2
    <2>2. IsHeap(l[n], k, vals, equal, gap) /\ Cardinality(l[n]) = c - n
      BY <1>5, <2>1
    <2>3. l[n + 1] = Merged(l[n])
      <3> DEFINE m == n + 1
      <3>1. m \in 0..N /\ m # 0 /\ m - 1 = n
        BY <2>1
      <3> HIDE DEF m
      <3>2. l[m] = Merged(l[n])
        BY <1>3, <3>1
      <3> QED BY <3>2 DEF m
    <2>4. Cardinality(l[n]) > 1
      BY <1>1, <2>1, <2>2 DEF N
    <2>5. IsHeap(Merged(l[n]), k, vals, equal, gap) /\ Cardinality(Merged(l[n])) = Cardinality(l[n]) - 1
      BY <2>2, <2>4, MergedIsHeap
    <2>6. (c - n) - 1 = c - (n + 1)
      BY <1>1
    <2> QED BY <2>2, <2>3, <2>5, <2>6
  <1>6. Good \in SUBSET Nat
    OBVIOUS
  <1>7. N \in Good => IsHeap(l[N], k, vals, equal, gap) /\ Cardinality(l[N]) = c - N
    BY <1>2
  <1> HIDE DEF Good
  <1>8. \A n \in Nat : n \in Good
    BY <1>4, <1>5, <1>6, NumbersInduct
  <1>9. IsHeap(l[N], k, vals, equal, gap) /\ Cardinality(l[N]) = c - N
    BY <1>2, <1>7, <1>8
  <1>10. c - N = 1
    BY <1>1 DEF N
  <1> QED BY <1>2, <1>9, <1>10 DEF N, c

\* What the differencing method ends with is a state with all rows.
LEMMA DifferencingEnds ==
    ASSUME NEW vals, Positive(vals), NEW k \in Nat \ {0}, NEW equal, NEW gap \in Nat,
           NEW H, IsHeap(H, k, vals, equal, gap)
    PROVE  LET s == Differencing(H) IN
           /\ IsState(s, k, vals)
           /\ \A x \in DOMAIN vals : x \in InState(s)
           /\ IF equal THEN Even(s) ELSE Spare(s)
           /\ Spread(s) <= gap
  <1> DEFINE N == Cardinality(H) - 1
             l == CHOOSE e : IsLeft(e, H, N)
             s == CHOOSE u \in l[N] : TRUE
  <1>1. Differencing(H) = s
    BY DEF Differencing, IsLeft
  <1>2. IsLeft(l, H, N)
    <2>1. Cardinality(H) \in Nat /\ Cardinality(H) # 0
      BY FS_CardinalityType, FS_EmptySet DEF IsHeap
    <2>2. N \in Nat
      BY <2>1
    <2>3. \E e : IsLeft(e, H, N)
      BY <2>2, LeftExists
    <2> HIDE DEF N
    <2> QED BY <2>3
  <1> HIDE DEF l
  <1>3. IsHeap(l[N], k, vals, equal, gap) /\ Cardinality(l[N]) = 1
    BY <1>2, LeftIsHeap
  <1> HIDE DEF N
  <1>4. PICK u : l[N] = {u}
    BY <1>3, FS_Singleton DEF IsHeap
  <1>5. s = u
    BY <1>4
  <1> HIDE DEF s
  <1>6. /\ IsState(s, k, vals)
        /\ \A x \in DOMAIN vals : x \in InState(s)
        /\ IF equal THEN Even(s) ELSE Spare(s)
        /\ Spread(s) <= gap
    BY <1>3, <1>4, <1>5 DEF IsHeap
  <1> QED BY <1>1, <1>6

-----------------------------------------------------------------------------
\* Blocks of k places.

LEMMA TimesGrows ==
    ASSUME NEW k \in Nat, NEW a \in Nat, NEW b \in Nat, a <= b
    PROVE  k * a \in Nat /\ k * b \in Nat /\ k * a <= k * b /\ k * (a + 1) = k * a + k
  OBVIOUS

\* Where each block starts.
AreStarts(start, k, B) == \A b \in 1..B : start[b] = k * (b - 1)

AreBlocks(start, k, B) ==
    /\ k * B \in Nat
    /\ \A b \in 1..B : start[b] \in Nat /\ k * b = start[b] + k
    /\ \A b \in 1..B : \A p \in 1..k : start[b] + p \in 1..(k * B)
    /\ \A b, c \in 1..B : \A p, q \in 1..k : start[b] + p = start[c] + q => b = c /\ p = q
    /\ \A i \in 1..(k * B) : \E b \in 1..B : \E p \in 1..k : i = start[b] + p

LEMMA BlockPlaces ==
    ASSUME NEW k \in Nat \ {0}, NEW B \in Nat, NEW start, AreStarts(start, k, B)
    PROVE  AreBlocks(start, k, B)
  <1> DEFINE t == [b \in 0..B |-> k * b]
  <1>1. /\ k * B = t[B] /\ \A b \in 0..B : t[b] \in Nat /\ t[b] = k * b
        /\ \A b, c \in 0..B : b <= c => t[b] <= t[c]
    <2>1. \A b \in 0..B : t[b] = k * b /\ b \in Nat
      OBVIOUS
    <2> HIDE DEF t
    <2>2. \A b, c \in 0..B : b <= c => t[b] <= t[c] /\ t[b] \in Nat
      BY <2>1, TimesGrows
    <2> QED BY <2>1, <2>2
  <1>2. \A b \in 1..B : b - 1 \in 0..B /\ b \in 0..B /\ t[b] = t[b - 1] + k /\ k * (b - 1) = t[b - 1] /\ k * b = t[b]
    <2> TAKE b \in 1..B
    <2> DEFINE a == b - 1
    <2>1. a \in 0..B /\ a \in Nat /\ b = a + 1 /\ b \in 0..B
      OBVIOUS
    <2> HIDE DEF a
    <2>2. k * (a + 1) = k * a + k
      BY <2>1, TimesGrows
    <2>3. t[b] = t[a] + k /\ k * a = t[a] /\ k * b = t[b]
      BY <1>1, <2>1, <2>2
    <2> QED BY <2>1, <2>3 DEF a
  <1> HIDE DEF t
  <1>3. \A b \in 1..B : \A p \in 1..k : t[b - 1] + p \in 1..t[B]
    <2> TAKE b \in 1..B
    <2> TAKE p \in 1..k
    <2>1. t[b] <= t[B] /\ t[B] \in Nat /\ t[b - 1] \in Nat
      BY <1>1, <1>2
    <2> QED BY <1>2, <2>1
  <1>4. ASSUME NEW b \in 1..B, NEW c \in 1..B, NEW p \in 1..k, NEW q \in 1..k,
               t[b - 1] + p = t[c - 1] + q
        PROVE  b = c /\ p = q
    <2>0. t[b - 1] \in Nat /\ t[c - 1] \in Nat /\ t[b] = t[b - 1] + k /\ t[c] = t[c - 1] + k
      BY <1>1, <1>2
    <2>1. ~(b < c)
      <3> SUFFICES ASSUME b < c PROVE FALSE
        OBVIOUS
      <3>1. b <= c - 1 /\ c - 1 \in 0..B /\ b \in 0..B
        OBVIOUS
      <3>2. t[b] <= t[c - 1]
        BY <1>1, <3>1
      <3> QED BY <1>4, <2>0, <3>2
    <2>2. ~(c < b)
      <3> SUFFICES ASSUME c < b PROVE FALSE
        OBVIOUS
      <3>1. c <= b - 1 /\ b - 1 \in 0..B /\ c \in 0..B
        OBVIOUS
      <3>2. t[c] <= t[b - 1]
        BY <1>1, <3>1
      <3> QED BY <1>4, <2>0, <3>2
    <2>3. b = c
      BY <2>1, <2>2
    <2> QED BY <1>4, <2>0, <2>3
  <1>5. ASSUME NEW i \in 1..t[B]
        PROVE  \E b \in 1..B : \E p \in 1..k : i = t[b - 1] + p
    <2> DEFINE S == {b \in 0..B : i <= t[b]}
    <2>1. S # {} /\ S \in SUBSET Nat
      BY <1>1
    <2>2. PICK b \in S : \A c \in S : b <= c
      BY <2>1, LeastOne
    <2>3. b # 0
      <3>1. t[0] = 0
        BY <1>1
      <3> QED BY <2>2, <3>1
    <2>4. b \in 1..B
      BY <2>2, <2>3
    <2>5. ~(i <= t[b - 1])
      BY <1>2, <2>2, <2>4
    <2>6. t[b - 1] \in Nat /\ t[b] = t[b - 1] + k /\ i <= t[b]
      BY <1>1, <1>2, <2>2, <2>4
    <2>7. i - t[b - 1] \in 1..k /\ i = t[b - 1] + (i - t[b - 1])
      BY <2>5, <2>6
    <2> QED BY <2>4, <2>7
  <1>6. \A b \in 1..B : start[b] = t[b - 1]
    BY <1>2 DEF AreStarts
  <1>7. k * B \in Nat /\ \A b \in 1..B : start[b] \in Nat /\ k * b = start[b] + k
    <2>1. k * B \in Nat
      BY <1>1
    <2>2. ASSUME NEW b \in 1..B PROVE start[b] \in Nat /\ k * b = start[b] + k
      <3>1. b - 1 \in 0..B /\ t[b] = t[b - 1] + k /\ k * b = t[b] /\ start[b] = t[b - 1]
        BY <1>2, <1>6
      <3>2. t[b - 1] \in Nat
        BY <1>1, <3>1
      <3> QED BY <3>1, <3>2
    <2> QED BY <2>1, <2>2
  <1>8. \A b \in 1..B : \A p \in 1..k : start[b] + p \in 1..(k * B)
    BY <1>1, <1>3, <1>6
  <1>9. ASSUME NEW b \in 1..B, NEW c \in 1..B, NEW p \in 1..k, NEW q \in 1..k, start[b] + p = start[c] + q
        PROVE  b = c /\ p = q
    <2>1. start[b] = t[b - 1] /\ start[c] = t[c - 1]
      BY <1>6
    <2>2. t[b - 1] + p = t[c - 1] + q
      BY <1>9, <2>1
    <2> QED BY <1>4, <2>2
  <1>10. ASSUME NEW i \in 1..(k * B) PROVE \E b \in 1..B : \E p \in 1..k : i = start[b] + p
    <2>1. i \in 1..t[B]
      BY <1>1
    <2>2. PICK b \in 1..B : \E p \in 1..k : i = t[b - 1] + p
      BY <1>5, <2>1
    <2>3. PICK p \in 1..k : i = t[b - 1] + p
      BY <2>2
    <2>4. i = start[b] + p
      BY <1>6, <2>3
    <2> QED BY <2>4
  <1> QED BY <1>7, <1>8, <1>9, <1>10 DEF AreBlocks

-----------------------------------------------------------------------------
\* The heap the method starts from.

\* Items of a sequence that stand for rows once each.
AreItems(its, vals) ==
    /\ its \in Seq(Item)
    /\ \A p \in 1..Len(its) : its[p][1] \in DOMAIN vals /\ its[p][2] = vals[its[p][1]]
    /\ \A p, q \in 1..Len(its) : its[p][1] = its[q][1] => p = q

LEMMA StateOfIs ==
    ASSUME NEW vals, Positive(vals), NEW k \in Nat \ {0}, NEW its, AreItems(its, vals), Len(its) \in 1..k,
           NEW gap \in Nat, \A p, q \in 1..Len(its) : its[p][2] - its[q][2] <= gap,
           Len(its) = k \/ \A p \in 1..Len(its) : its[p][2] <= gap
    PROVE  /\ IsState(StateOf(its, k), k, vals)
           /\ \A x : x \in InState(StateOf(its, k)) <=> \E p \in 1..Len(its) : x = its[p][1]
           /\ Spare(StateOf(its, k))
           /\ Len(its) = k => Even(StateOf(its, k))
           /\ Spread(StateOf(its, k)) <= gap
  <1> DEFINE c == Len(its)
             sets == [i \in 1..k |-> IF i <= Len(its) THEN [sum |-> its[i][2], items |-> <<its[i]>>]
                                                      ELSE [sum |-> 0, items |-> <<>>]]
             s == StateOf(its, k)
  <1>1. c \in 1..k /\ c \in Nat /\ \A p \in 1..c : its[p] \in Item /\ its[p][1] \in Nat /\ its[p][2] \in Nat
    BY DEF AreItems, Item
  <1>2. PICK n \in Nat : vals \in [1..n -> Nat \ {0}]
    BY DEF Positive
  <1>3. \A i \in 1..k : i \in 1..c => sets[i].sum = its[i][2] /\ sets[i].items = <<its[i]>>
    BY <1>1
  <1>4. \A i \in 1..k : i \notin 1..c => sets[i].sum = 0 /\ sets[i].items = <<>>
    BY <1>1
  <1>5. \A i \in 1..k : sets[i] \in SetType
    <2> TAKE i \in 1..k
    <2>1. CASE i \in 1..c
      <3>1. sets[i] = [sum |-> its[i][2], items |-> <<its[i]>>]
        BY <1>1, <2>1
      <3>2. its[i] \in Item /\ its[i][2] \in Nat
        BY <1>1, <2>1
      <3>3. <<its[i]>> \in Seq(Item)
        BY <3>2
      <3> HIDE DEF sets
      <3> QED BY <3>1, <3>2, <3>3 DEF SetType
    <2>2. CASE i \notin 1..c
      <3>1. sets[i] = [sum |-> 0, items |-> <<>>]
        BY <1>1, <2>2
      <3> HIDE DEF sets
      <3> QED BY <3>1 DEF SetType
    <2> QED BY <2>1, <2>2
  <1>6. s = Decreasing(sets)
    BY DEF StateOf
  <1>7. sets \in [1..k -> SetType]
    <2>1. sets = [i \in 1..k |-> sets[i]]
      OBVIOUS
    <2> HIDE DEF sets
    <2> QED BY <1>5, <2>1
  <1> HIDE DEF sets, s, c
  <1>8. PICK o : /\ IsPermutation(o, k)
                 /\ Decreasing(sets) = [i \in 1..k |-> sets[o[i]]]
                 /\ \A i, j \in 1..k : i <= j => sets[o[j]].sum <= sets[o[i]].sum
    BY <1>7, DecreasingPermutes
  <1>9. DOMAIN s = 1..k /\ Len(s) = k /\ s \in [1..k -> SetType] /\ \A i \in 1..k : o[i] \in 1..k /\ s[i] = sets[o[i]]
    <2>1. s = [i \in 1..k |-> sets[o[i]]]
      BY <1>6, <1>8
    <2>2. \A i \in 1..k : o[i] \in 1..k
      BY <1>8 DEF IsPermutation
    <2> QED BY <1>5, <2>1, <2>2
  <1>10. \A i \in 1..k : i \in 1..c => /\ Len(sets[i].items) = 1 /\ DOMAIN sets[i].items = {1}
                                       /\ sets[i].items[1] = its[i]
                                       /\ IndicesOf(sets[i]) = {its[i][1]}
    <2> TAKE i \in 1..k
    <2> HAVE i \in 1..c
    <2>1. sets[i].items = <<its[i]>>
      BY <1>3
    <2>2. DOMAIN sets[i].items = {1} /\ sets[i].items[1] = its[i] /\ Len(sets[i].items) = 1
      BY <2>1
    <2>3. IndicesOf(sets[i]) = {its[i][1]}
      BY <2>2 DEF IndicesOf
    <2> QED BY <2>2, <2>3
  <1>11. \A i \in 1..k : i \notin 1..c => /\ Len(sets[i].items) = 0 /\ DOMAIN sets[i].items = {}
                                          /\ IndicesOf(sets[i]) = {}
    <2> TAKE i \in 1..k
    <2> HAVE i \notin 1..c
    <2>1. sets[i].items = <<>>
      BY <1>4
    <2>2. DOMAIN sets[i].items = {} /\ Len(sets[i].items) = 0
      BY <2>1
    <2> QED BY <2>2 DEF IndicesOf
  <1>12. \A i \in 1..k : Holds(sets[i], vals)
    <2> TAKE i \in 1..k
    <2>1. CASE i \in 1..c
      <3>1. its[i][1] \in DOMAIN vals /\ its[i][2] = vals[its[i][1]]
        BY <2>1 DEF AreItems, c
      <3>2. vals[its[i][1]] \in Nat
        BY <1>2, <3>1
      <3>3. SumOver(vals, {its[i][1]}) = vals[its[i][1]]
        BY <3>2, SumOfOne
      <3>4. sets[i].sum = SumOver(vals, IndicesOf(sets[i]))
        BY <1>3, <1>10, <2>1, <3>1, <3>3
      <3> QED BY <1>10, <2>1, <3>1, <3>4 DEF Holds
    <2>2. CASE i \notin 1..c
      <3>1. IsFiniteSet({}) /\ \A x \in {} : vals[x] \in Nat
        BY FS_EmptySet
      <3>2. SumOver(vals, {}) = 0
        BY <3>1, SumFacts
      <3> QED BY <1>4, <1>11, <2>2, <3>2 DEF Holds
    <2> QED BY <2>1, <2>2
  <1>13. \A i, j \in 1..k : i # j => Apart(sets[i], sets[j])
    <2> TAKE i, j \in 1..k
    <2> HAVE i # j
    <2>1. CASE i \in 1..c /\ j \in 1..c
      <3>1. its[i][1] # its[j][1]
        BY <2>1 DEF AreItems, c
      <3>2. IndicesOf(sets[i]) = {its[i][1]} /\ IndicesOf(sets[j]) = {its[j][1]}
        BY <1>10, <2>1
      <3> QED BY <3>1, <3>2 DEF Apart
    <2>2. CASE ~(i \in 1..c /\ j \in 1..c)
      BY <1>11, <2>2 DEF Apart
    <2> QED BY <2>1, <2>2
  <1>14. \A i, j \in 1..k : i # j => Apart(s[i], s[j])
    <2> TAKE i, j \in 1..k
    <2> HAVE i # j
    <2>1. o[i] # o[j] /\ o[i] \in 1..k /\ o[j] \in 1..k
      BY <1>8 DEF IsPermutation
    <2>2. Apart(sets[o[i]], sets[o[j]])
      BY <1>13, <2>1
    <2> QED BY <1>9, <2>2
  <1>15. \A i, j \in 1..k : i <= j => s[j].sum <= s[i].sum
    BY <1>8, <1>9
  <1>16. \A x : x \in InState(s) <=> \E p \in 1..c : x = its[p][1]
    <2>1. ASSUME NEW x \in InState(s) PROVE \E p \in 1..c : x = its[p][1]
      <3>1. PICK i \in 1..k : x \in IndicesOf(s[i])
        BY <1>9 DEF InState
      <3>2. o[i] \in 1..k /\ x \in IndicesOf(sets[o[i]])
        BY <1>9, <3>1
      <3> DEFINE q == o[i]
      <3> HIDE DEF q
      <3>3. q \in 1..k /\ x \in IndicesOf(sets[q])
        BY <3>2 DEF q
      <3>4. q \in 1..c
        BY <1>11, <3>3
      <3>5. IndicesOf(sets[q]) = {its[q][1]}
        BY <1>10, <3>3, <3>4
      <3>6. x = its[q][1]
        BY <3>3, <3>5
      <3> QED BY <3>4, <3>6
    <2>2. ASSUME NEW p \in 1..c PROVE its[p][1] \in InState(s)
      <3>1. p \in 1..k
        BY <1>1
      <3>2. PICK i \in 1..k : o[i] = p
        BY <1>8, <3>1 DEF IsPermutation
      <3>3. its[p][1] \in IndicesOf(s[i])
        BY <1>9, <1>10, <3>1, <3>2
      <3> QED BY <1>9, <3>3 DEF InState
    <2> QED BY <2>1, <2>2
  <1>17. IsState(s, k, vals)
    <2>1. \A j \in 1..k : Holds(s[j], vals)
      BY <1>9, <1>12
    <2>2. s[1].items # <<>>
      <3>1. 1 \in 1..k /\ 1 \in 1..c /\ \A i \in 1..k : 1 <= i
        BY <1>1
      <3>2. PICK j \in 1..k : o[j] = 1
        BY <1>8, <3>1 DEF IsPermutation
      <3>3. s[j].sum = its[1][2] /\ s[j].sum <= s[1].sum
        BY <1>3, <1>9, <1>15, <3>1, <3>2
      <3>4. its[1][1] \in DOMAIN vals /\ its[1][2] = vals[its[1][1]]
        BY <3>1 DEF AreItems, c
      <3>5. its[1][2] \in Nat /\ its[1][2] # 0
        BY <1>2, <3>4
      <3>6. s[1] \in SetType /\ s[1].sum \in Nat /\ (s[1].sum = 0 <=> s[1].items = <<>>)
        BY <1>9, <2>1, <3>1, HoldsFacts, SetFacts
      <3> QED BY <3>3, <3>5, <3>6
    <2> QED BY <1>9, <1>14, <1>15, <2>1, <2>2 DEF IsState
  <1>18. \A i \in 1..k : Len(s[i].items) <= 1 /\ (c = k => Len(s[i].items) = 1)
    <2> TAKE i \in 1..k
    <2> DEFINE q == o[i]
    <2> HIDE DEF q
    <2>1. q \in 1..k /\ s[i] = sets[q]
      BY <1>9 DEF q
    <2>2. CASE q \in 1..c
      <3>1. Len(sets[q].items) = 1
        BY <1>10, <2>1, <2>2
      <3>2. Len(s[i].items) = 1
        BY <2>1, <3>1
      <3> QED BY <3>2
    <2>3. CASE q \notin 1..c
      <3>1. Len(sets[q].items) = 0
        BY <1>11, <2>1, <2>3
      <3>2. Len(s[i].items) = 0 /\ c # k
        BY <1>1, <2>1, <2>3, <3>1
      <3> QED BY <3>2
    <2> QED BY <2>2, <2>3
  <1>19. Spare(s) /\ (c = k => Even(s))
    BY <1>9, <1>18 DEF Spare, Even
  <1>20. Spread(s) <= gap
    <2> DEFINE i == o[1]
               j == o[k]
    <2>1. 1 \in 1..k /\ k \in 1..k
      OBVIOUS
    <2>2. i \in 1..k /\ j \in 1..k /\ s[1].sum = sets[i].sum /\ s[k].sum = sets[j].sum
      BY <1>9, <2>1
    <2>3. Spread(s) = sets[i].sum - sets[j].sum
      BY <1>9, <2>1, <2>2 DEF Spread
    <2> HIDE DEF i, j
    <2>4. CASE i \in 1..c /\ j \in 1..c
      <3>1. its[i][2] - its[j][2] <= gap
        BY <2>4 DEF c
      <3> QED BY <1>3, <2>2, <2>3, <2>4, <3>1
    <2>5. CASE i \in 1..c /\ j \notin 1..c
      <3>1. c # k
        BY <2>2, <2>5
      <3>2. its[i][2] <= gap /\ its[i][2] \in Nat
        BY <1>1, <2>5, <3>1 DEF c
      <3> QED BY <1>3, <1>4, <2>2, <2>3, <2>5, <3>2
    <2>6. CASE i \notin 1..c
      <3>1. sets[i].sum = 0 /\ sets[j].sum \in Nat
        BY <1>4, <1>5, <2>2, <2>6 DEF SetType
      <3> QED BY <2>3, <3>1
    <2> QED BY <2>4, <2>5, <2>6
  <1> QED BY <1>16, <1>17, <1>19, <1>20 DEF s, c

-----------------------------------------------------------------------------
\* An order of places is a permutation of them.
LEMMA OrderPermutes ==
    ASSUME NEW k \in Nat, NEW R, IsStrictOrder(1..k, R)
    PROVE  /\ IsPermutation(InOrder(1..k, R), k)
           /\ \A i, j \in 1..k : i < j => <<InOrder(1..k, R)[i], InOrder(1..k, R)[j]>> \in R
  <1> DEFINE o == InOrder(1..k, R)
  <1>1. IsFiniteSet(1..k) /\ Cardinality(1..k) = k
    BY UpTo
  <1>2. Lists(o, 1..k, R)
    BY <1>1, InOrderLists
  <1> HIDE DEF o
  <1>3. o \in [1..k -> 1..k] /\ DOMAIN o = 1..k
    BY <1>1, <1>2 DEF Lists
  <1>4. IsPermutation(o, k)
    BY <1>2, <1>3 DEF IsPermutation, Lists
  <1>5. \A i, j \in 1..k : i < j => <<o[i], o[j]>> \in R
    BY <1>2, <1>3 DEF Lists
  <1> QED BY <1>4, <1>5 DEF o

\* The items, the smallest value first.
LEMMA ByValueIs ==
    ASSUME NEW n \in Nat, NEW vals \in [1..n -> Nat]
    PROVE  /\ ByValue(vals) \in Seq(Item) /\ Len(ByValue(vals)) = n /\ DOMAIN ByValue(vals) = 1..n
           /\ \E o : /\ IsPermutation(o, n)
                     /\ \A i \in 1..n : ByValue(vals)[i] = <<o[i], vals[o[i]]>>
           /\ \A i, j \in 1..n : i <= j => ByValue(vals)[i][2] <= ByValue(vals)[j][2]
           /\ \A i \in 1..n : ByValue(vals)[i][2] \in Nat
  <1> DEFINE o == InOrder(1..n, Smaller(vals))
             its == ByValue(vals)
  <1>1. DOMAIN vals = 1..n
    OBVIOUS
  <1>2. IsStrictOrder(1..n, Smaller(vals))
    BY <1>1, SmallerIsStrict
  <1>3. IsPermutation(o, n) /\ \A i, j \in 1..n : i < j => <<o[i], o[j]>> \in Smaller(vals)
    BY <1>2, OrderPermutes
  <1>4. its = [i \in 1..n |-> <<o[i], vals[o[i]]>>]
    BY <1>1 DEF ByValue
  <1> HIDE DEF o, its
  <1>5. \A i \in 1..n : o[i] \in 1..n /\ vals[o[i]] \in Nat
    BY <1>3 DEF IsPermutation
  <1>6. \A i \in 1..n : its[i] = <<o[i], vals[o[i]]>> /\ its[i] \in Item
    BY <1>4, <1>5 DEF Item
  <1>7. its \in Seq(Item) /\ Len(its) = n /\ DOMAIN its = 1..n
    <2>1. its \in [1..n -> Item]
      BY <1>4, <1>6
    <2> QED BY <2>1
  <1>8. ASSUME NEW i \in 1..n, NEW j \in 1..n, i <= j PROVE its[i][2] <= its[j][2]
    <2>1. its[i][2] = vals[o[i]] /\ its[j][2] = vals[o[j]] /\ vals[o[i]] \in Nat /\ vals[o[j]] \in Nat
      BY <1>5, <1>6
    <2>2. CASE i = j
      BY <2>1, <2>2
    <2>3. CASE i # j
      <3>1. <<o[i], o[j]>> \in Smaller(vals)
        BY <1>3, <1>8, <2>3
      <3>2. vals[o[i]] < vals[o[j]] \/ vals[o[i]] = vals[o[j]]
        BY <3>1 DEF Smaller, Pairs
      <3> QED BY <2>1, <3>2
    <2> QED BY <2>2, <2>3
  <1>9. \A i \in 1..n : its[i][2] \in Nat
    BY <1>5, <1>6
  <1> QED BY <1>3, <1>6, <1>7, <1>8, <1>9 DEF its

LEMMA ListIsFinite ==
    ASSUME NEW n \in Nat, NEW e, NEW T, \A x : x \in T <=> \E i \in 1..n : x = e[i]
    PROVE  IsFiniteSet(T)
  <1> DEFINE f == [i \in 1..n |-> e[i]]
  <1>1. f \in Surjection(1..n, T)
    BY DEF Surjection
  <1> QED BY <1>1, UpTo, FS_Surjection

\* A value that no value exceeds.
LEMMA Largest ==
    ASSUME NEW n \in Nat, NEW vals \in [1..n -> Nat]
    PROVE  \E m \in Nat : \A i \in 1..n : vals[i] <= m
  <1> DEFINE m == SumOver(vals, 1..n)
  <1>1. IsFiniteSet(1..n) /\ \A i \in 1..n : vals[i] \in Nat
    BY UpTo
  <1>2. m \in Nat /\ \A i \in 1..n : m = vals[i] + SumOver(vals, (1..n) \ {i})
    BY <1>1, SumFacts
  <1>3. ASSUME NEW i \in 1..n PROVE vals[i] <= m
    <2>1. IsFiniteSet((1..n) \ {i}) /\ \A j \in (1..n) \ {i} : vals[j] \in Nat
      BY <1>1, FS_RemoveElement
    <2>2. SumOver(vals, (1..n) \ {i}) \in Nat
      BY <2>1, SumFacts
    <2> QED BY <1>1, <1>2, <2>2
  <1> QED BY <1>2, <1>3

-----------------------------------------------------------------------------
\* Each item a state of its own.
LEMMA ItemsAreHeap ==
    ASSUME NEW n \in Nat \ {0}, NEW vals \in [1..n -> Nat \ {0}], NEW k \in Nat \ {0},
           NEW gap \in Nat, \A i \in 1..n : vals[i] <= gap
    PROVE  IsHeap(Heap(vals, k, FALSE), k, vals, FALSE, gap)
  <1> DEFINE its == ByValue(vals)
             e == [i \in 1..n |-> StateOf(<<its[i]>>, k)]
             H == Heap(vals, k, FALSE)
  <1>1. Positive(vals) /\ vals \in [1..n -> Nat] /\ DOMAIN vals = 1..n
    BY DEF Positive
  <1>2. /\ its \in Seq(Item) /\ DOMAIN its = 1..n
        /\ \E o : /\ IsPermutation(o, n)
                  /\ \A i \in 1..n : its[i] = <<o[i], vals[o[i]]>>
    BY <1>1, ByValueIs
  <1>3. PICK o : IsPermutation(o, n) /\ \A i \in 1..n : its[i] = <<o[i], vals[o[i]]>>
    BY <1>2
  <1>4. H = {StateOf(<<its[i]>>, k) : i \in DOMAIN its}
    BY DEF Heap
  <1> HIDE DEF its, H
  <1>5. \A x : x \in H <=> \E i \in 1..n : x = e[i]
    BY <1>2, <1>4
  <1>6. \A i \in 1..n : o[i] \in 1..n /\ vals[o[i]] \in Nat /\ its[i] \in Item
    <2> TAKE i \in 1..n
    <2>1. o[i] \in 1..n
      BY <1>3 DEF IsPermutation
    <2>2. vals[o[i]] \in Nat
      BY <1>1, <2>1
    <2>3. its[i] = <<o[i], vals[o[i]]>>
      BY <1>3
    <2>4. o[i] \in Nat
      BY <2>1
    <2>5. its[i] \in Nat \X Nat
      BY <2>2, <2>3, <2>4
    <2> QED BY <2>1, <2>2, <2>5 DEF Item
  <1>7. \A i \in 1..n : e[i] = StateOf(<<its[i]>>, k)
    OBVIOUS
  <1> HIDE DEF e
  <1>8. ASSUME NEW i \in 1..n
        PROVE  /\ IsState(e[i], k, vals)
               /\ \A x : x \in InState(e[i]) <=> x = o[i]
               /\ Spare(e[i]) /\ Spread(e[i]) <= gap
    <2> DEFINE one == <<its[i]>>
    <2>1. one \in Seq(Item) /\ Len(one) = 1 /\ one[1] = its[i] /\ its[i][1] = o[i] /\ its[i][2] = vals[o[i]]
      BY <1>3, <1>6
    <2> HIDE DEF one
    <2>2. AreItems(one, vals)
      BY <1>1, <1>6, <2>1 DEF AreItems
    <2>3. /\ Len(one) \in 1..k /\ \A p, q \in 1..Len(one) : one[p][2] - one[q][2] <= gap
          /\ \A p \in 1..Len(one) : one[p][2] <= gap
      BY <1>6, <2>1
    <2>4. /\ IsState(StateOf(one, k), k, vals)
          /\ \A x : x \in InState(StateOf(one, k)) <=> \E p \in 1..Len(one) : x = one[p][1]
          /\ Spare(StateOf(one, k))
          /\ Spread(StateOf(one, k)) <= gap
      BY <1>1, <2>2, <2>3, StateOfIs, SMTT(30)
    <2>5. e[i] = StateOf(one, k)
      BY <1>7 DEF one
    <2> QED BY <2>1, <2>4, <2>5
  <1>9. IsFiniteSet(H) /\ H # {}
    <2>1. IsFiniteSet(H)
      BY <1>5, ListIsFinite
    <2>2. 1 \in 1..n
      OBVIOUS
    <2> QED BY <1>5, <2>1, <2>2
  <1>10. \A s \in H : IsState(s, k, vals) /\ Spare(s) /\ Spread(s) <= gap
    BY <1>5, <1>8
  <1>11. \A s, t \in H : s # t => Strangers(s, t)
    <2> TAKE s, t \in H
    <2> HAVE s # t
    <2>1. PICK i \in 1..n : s = e[i]
      BY <1>5
    <2>2. PICK j \in 1..n : t = e[j]
      BY <1>5
    <2>3. o[i] # o[j]
      BY <1>3, <2>1, <2>2 DEF IsPermutation
    <2> QED BY <1>8, <2>1, <2>2, <2>3 DEF Strangers
  <1>12. \A x \in DOMAIN vals : \E s \in H : x \in InState(s)
    <2> TAKE x \in DOMAIN vals
    <2>1. PICK i \in 1..n : o[i] = x
      BY <1>1, <1>3 DEF IsPermutation
    <2>2. e[i] \in H /\ x \in InState(e[i])
      BY <1>5, <1>8, <2>1
    <2> QED BY <2>2
  <1> QED BY <1>9, <1>10, <1>11, <1>12 DEF IsHeap, H

\* A product divided.
LEMMA Products ==
    ASSUME NEW k \in Nat \ {0}, NEW B \in Nat
    PROVE  (k * B) \div k = B /\ (k * B) % k = 0 /\ k * B = B * k
  OBVIOUS

\* Neighbours in blocks, each block a state.
LEMMA BlocksAreHeap ==
    ASSUME NEW k \in Nat \ {0}, NEW B \in Nat \ {0}, NEW n \in Nat, n = k * B,
           NEW vals \in [1..n -> Nat \ {0}], NEW gap \in Nat,
           \A b \in 1..B : ByValue(vals)[k * (b - 1) + k][2] - ByValue(vals)[k * (b - 1) + 1][2] <= gap
    PROVE  IsHeap(Heap(vals, k, TRUE), k, vals, TRUE, gap)
  <1> DEFINE its == ByValue(vals)
             block(b) == SubSeq(its, k * (b - 1) + 1, k * b)
             e == [b \in 1..B |-> StateOf(block(b), k)]
             start == [b \in 1..B |-> k * (b - 1)]
             H == Heap(vals, k, TRUE)
  <1>1. Positive(vals) /\ vals \in [1..n -> Nat] /\ DOMAIN vals = 1..n /\ Len(vals) = n
    BY DEF Positive
  <1>2. /\ its \in Seq(Item) /\ DOMAIN its = 1..n /\ Len(its) = n
        /\ \E o : /\ IsPermutation(o, n)
                  /\ \A i \in 1..n : its[i] = <<o[i], vals[o[i]]>>
        /\ \A i, j \in 1..n : i <= j => its[i][2] <= its[j][2]
        /\ \A i \in 1..n : its[i][2] \in Nat
    BY <1>1, ByValueIs
  <1>3. PICK o : IsPermutation(o, n) /\ \A i \in 1..n : its[i] = <<o[i], vals[o[i]]>>
    BY <1>2
  <1>4. H = {StateOf(block(b), k) : b \in 1..(Len(vals) \div k)}
    BY DEF Heap
  <1>5. \A b \in 1..B : its[start[b] + k][2] - its[start[b] + 1][2] <= gap
    OBVIOUS
  <1> HIDE DEF its, H
  <1>6. Len(vals) \div k = B
    BY <1>1, Products
  <1>7. \A x : x \in H <=> \E b \in 1..B : x = e[b]
    BY <1>4, <1>6
  <1>8. \A i \in 1..n : o[i] \in 1..n /\ vals[o[i]] \in Nat /\ its[i] \in Item
    <2> TAKE i \in 1..n
    <2>1. o[i] \in 1..n
      BY <1>3 DEF IsPermutation
    <2>2. vals[o[i]] \in Nat
      BY <1>1, <2>1
    <2>3. its[i] = <<o[i], vals[o[i]]>>
      BY <1>3
    <2>4. o[i] \in Nat
      BY <2>1
    <2>5. its[i] \in Nat \X Nat
      BY <2>2, <2>3, <2>4
    <2> QED BY <2>1, <2>2, <2>5 DEF Item
  <1>9. \A b \in 1..B : e[b] = StateOf(block(b), k)
    OBVIOUS
  <1>16. \A b \in 1..B : start[b] = k * (b - 1)
    OBVIOUS
  <1> HIDE DEF e, start
  <1>10. /\ \A b \in 1..B : start[b] \in Nat /\ k * b = start[b] + k
         /\ \A b \in 1..B : \A p \in 1..k : start[b] + p \in 1..n
         /\ \A b, c \in 1..B : \A p, q \in 1..k : start[b] + p = start[c] + q => b = c /\ p = q
         /\ \A i \in 1..n : \E b \in 1..B : \E p \in 1..k : i = start[b] + p
    <2>1. k * B \in Nat /\ B \in Nat /\ n = k * B
      OBVIOUS
    <2>5. AreStarts(start, k, B)
      BY <1>16 DEF AreStarts
    <2>6. AreBlocks(start, k, B)
      BY <2>5, BlockPlaces
    <2>2. /\ \A b \in 1..B : start[b] \in Nat /\ k * b = start[b] + k
          /\ \A b \in 1..B : \A p \in 1..k : start[b] + p \in 1..(k * B)
          /\ \A b, c \in 1..B : \A p, q \in 1..k : start[b] + p = start[c] + q => b = c /\ p = q
          /\ \A i \in 1..(k * B) : \E b \in 1..B : \E p \in 1..k : i = start[b] + p
      BY <2>6 DEF AreBlocks
    <2>3. k * B = n
      BY <2>1
    <2>4. \A b \in 1..B : \A p \in 1..k : start[b] + p \in 1..n
      BY ONLY <2>2, <2>3
    <2>7. \A i \in 1..n : \E b \in 1..B : \E p \in 1..k : i = start[b] + p
      BY ONLY <2>2, <2>3
    <2> QED BY <2>2, <2>4, <2>7
  <1>17. \A b, c \in 1..B : \A p, q \in 1..k : start[b] + p = start[c] + q => b = c /\ p = q
    BY <1>10
  <1>11. ASSUME NEW b \in 1..B
         PROVE  /\ IsState(e[b], k, vals)
                /\ \A x : x \in InState(e[b]) <=> \E p \in 1..k : x = o[start[b] + p]
                /\ Even(e[b]) /\ Spread(e[b]) <= gap
    <2> DEFINE a == start[b]
               sub == block(b)
    <2>1. a \in Nat /\ k * b = a + k
      BY <1>10
    <2>2. \A p \in 1..k : a + p \in 1..n
      BY <1>10
    <2>3. its[a + k][2] - its[a + 1][2] <= gap
      BY <1>5
    <2>4. \A p, q \in 1..k : a + p = a + q => p = q
      BY <2>1, SMTT(30)
    <2>5. sub = SubSeq(its, a + 1, a + k)
      BY <1>16, <2>1
    <2>6. e[b] = StateOf(sub, k)
      BY <1>9
    <2> HIDE DEF a, sub
    <2>7. sub \in Seq(Item) /\ Len(sub) = k /\ \A p \in 1..k : sub[p] = its[a + p]
      <3>1. 1 \in 1..k /\ k \in 1..k
        OBVIOUS
      <3>2. a + 1 \in 1..n /\ a + k \in 1..n
        BY <2>2, <3>1
      <3> QED BY <1>2, <2>1, <2>5, <3>2
    <2>8. \A p \in 1..k : sub[p][1] = o[a + p] /\ sub[p][2] = its[a + p][2] /\ sub[p][2] = vals[o[a + p]]
                          /\ o[a + p] \in 1..n /\ sub[p][2] \in Nat
      BY <1>3, <1>8, <2>2, <2>7, SMTT(30)
    <2>9. AreItems(sub, vals)
      <3>1. \A p, q \in 1..k : sub[p][1] = sub[q][1] => p = q
        <4> TAKE p, q \in 1..k
        <4> HAVE sub[p][1] = sub[q][1]
        <4>1. o[a + p] = o[a + q] /\ a + p \in 1..n /\ a + q \in 1..n
          BY <2>2, <2>8
        <4>2. a + p = a + q
          BY <1>3, <4>1 DEF IsPermutation
        <4> QED BY <2>4, <4>2
      <3> QED BY <1>1, <2>7, <2>8, <3>1, ZenonT(30) DEF AreItems
    <2>10. \A p, q \in 1..k : sub[p][2] - sub[q][2] <= gap
      <3> TAKE p, q \in 1..k
      <3>0. 1 \in 1..k /\ k \in 1..k
        OBVIOUS
      <3>1. a + p \in 1..n /\ a + q \in 1..n /\ a + 1 \in 1..n /\ a + k \in 1..n
        BY <2>2, <3>0
      <3>2. a + p <= a + k /\ a + 1 <= a + q
        BY <2>1
      <3>3. its[a + p][2] <= its[a + k][2] /\ its[a + 1][2] <= its[a + q][2]
        BY <1>2, <3>1, <3>2
      <3>4. /\ its[a + p][2] \in Nat /\ its[a + q][2] \in Nat /\ its[a + k][2] \in Nat /\ its[a + 1][2] \in Nat
            /\ sub[p][2] = its[a + p][2] /\ sub[q][2] = its[a + q][2]
        BY <1>2, <2>8, <3>1
      <3> QED BY <2>3, <3>3, <3>4, SMTT(30)
    <2>11. Len(sub) \in 1..k /\ (Len(sub) = k \/ \A p \in 1..Len(sub) : sub[p][2] <= gap)
           /\ \A p, q \in 1..Len(sub) : sub[p][2] - sub[q][2] <= gap
      BY <2>7, <2>10
    <2>14. /\ IsState(StateOf(sub, k), k, vals)
           /\ \A x : x \in InState(StateOf(sub, k)) <=> \E p \in 1..Len(sub) : x = sub[p][1]
           /\ Spare(StateOf(sub, k))
           /\ Len(sub) = k => Even(StateOf(sub, k))
           /\ Spread(StateOf(sub, k)) <= gap
      <3> HIDE DEF AreItems
      <3>1. Positive(vals) /\ AreItems(sub, vals)
        BY <1>1, <2>9
      <3> QED BY ONLY k \in Nat \ {0}, gap \in Nat, <2>11, <3>1, StateOfIs
    <2>12. /\ IsState(StateOf(sub, k), k, vals)
           /\ \A x : x \in InState(StateOf(sub, k)) <=> \E p \in 1..Len(sub) : x = sub[p][1]
           /\ Even(StateOf(sub, k))
           /\ Spread(StateOf(sub, k)) <= gap
      BY <2>7, <2>14
    <2>13. \A x : x \in InState(e[b]) <=> \E p \in 1..k : x = o[a + p]
      <3>1. \A x : (\E p \in 1..Len(sub) : x = sub[p][1]) <=> \E p \in 1..k : x = o[a + p]
        BY <2>7, <2>8
      <3>2. \A x : x \in InState(e[b]) <=> \E p \in 1..Len(sub) : x = sub[p][1]
        BY <2>6, <2>12
      <3> QED BY <3>1, <3>2
    <2> QED BY <2>6, <2>12, <2>13 DEF a
  <1>12. IsFiniteSet(H) /\ H # {}
    <2>1. IsFiniteSet(H)
      BY <1>7, ListIsFinite
    <2>2. 1 \in 1..B
      OBVIOUS
    <2> QED BY <1>7, <2>1, <2>2
  <1>13. \A s \in H : IsState(s, k, vals) /\ Even(s) /\ Spread(s) <= gap
    BY <1>7, <1>11
  <1>14. \A s, t \in H : s # t => Strangers(s, t)
    <2> TAKE s, t \in H
    <2> HAVE s # t
    <2>1. PICK b \in 1..B : s = e[b]
      BY <1>7
    <2>2. PICK c \in 1..B : t = e[c]
      BY <1>7
    <2>3. ASSUME NEW x \in InState(s), x \in InState(t) PROVE FALSE
      <3>1. PICK p \in 1..k : x = o[start[b] + p]
        BY <1>11, <2>1, <2>3
      <3>2. PICK q \in 1..k : x = o[start[c] + q]
        BY <1>11, <2>2, <2>3
      <3>3. start[b] + p \in 1..n /\ start[c] + q \in 1..n
        BY <1>10
      <3>4. start[b] + p = start[c] + q
        <4> DEFINE i == start[b] + p
                   j == start[c] + q
        <4>1. i \in 1..n /\ j \in 1..n /\ o[i] = o[j]
          BY <3>1, <3>2, <3>3
        <4> HIDE DEF i, j
        <4>2. i = j
          BY <1>3, <4>1 DEF IsPermutation
        <4> QED BY <4>2 DEF i, j
      <3>5. b = c
        BY <1>17, <3>4
      <3> QED BY <2>1, <2>2, <3>5
    <2> QED BY <2>3 DEF Strangers
  <1>15. \A x \in DOMAIN vals : \E s \in H : x \in InState(s)
    <2> TAKE x \in DOMAIN vals
    <2>1. PICK i \in 1..n : o[i] = x
      BY <1>1, <1>3 DEF IsPermutation
    <2>2. PICK b \in 1..B : \E p \in 1..k : i = start[b] + p
      BY <1>10
    <2>3. e[b] \in H /\ x \in InState(e[b])
      BY <1>7, <1>11, <2>1, <2>2
    <2> QED BY <2>3
  <1> QED BY <1>12, <1>13, <1>14, <1>15 DEF IsHeap, H

-----------------------------------------------------------------------------
\* The elements of a set of numbers in ascending order.
LEMMA AscendingIs ==
    ASSUME NEW S \in SUBSET Nat, IsFiniteSet(S)
    PROVE  /\ Ascending(S) \in Seq(S) /\ Len(Ascending(S)) = Cardinality(S)
           /\ \A x \in S : \E p \in 1..Len(Ascending(S)) : Ascending(S)[p] = x
           /\ \A p, q \in 1..Len(Ascending(S)) : Ascending(S)[p] = Ascending(S)[q] => p = q
  <1> DEFINE R == {p \in Pairs(S) : p[1] < p[2]}
             s == Ascending(S)
  <1>1. \A x, y \in S : <<x, y>> \in R <=> x < y
    BY DEF Pairs
  <1> HIDE DEF R
  <1>2. IsStrictOrder(S, R)
    BY <1>1 DEF IsStrictOrder
  <1>3. s = InOrder(S, R)
    BY DEF Ascending, R
  <1>4. Lists(s, S, R)
    BY <1>2, <1>3, InOrderLists
  <1>5. Cardinality(S) \in Nat
    BY FS_CardinalityType
  <1> HIDE DEF s
  <1>6. s \in [1..Cardinality(S) -> S] /\ DOMAIN s = 1..Cardinality(S)
    BY <1>4 DEF Lists
  <1>7. s \in Seq(S) /\ Len(s) = Cardinality(S)
    BY <1>5, <1>6
  <1> QED BY <1>4, <1>6, <1>7 DEF Lists, s

-----------------------------------------------------------------------------
\* Parts hold every row from one to n, once.
IsDivision(lists, k, n) ==
    /\ lists \in [1..k -> Seq(1..n)]
    /\ \A i, j \in 1..k : \A p \in 1..Len(lists[i]) : \A q \in 1..Len(lists[j]) :
          lists[i][p] = lists[j][q] => i = j /\ p = q
    /\ \A x \in 1..n : \E i \in 1..k : \E p \in 1..Len(lists[i]) : lists[i][p] = x

\* What a division makes of the last state.
LEMMA PartitionsDivide ==
    ASSUME NEW n \in Nat, NEW vals \in [1..n -> Nat \ {0}], NEW k \in Nat \ {0}, NEW equal, NEW gap \in Nat,
           IsHeap(Heap(vals, k, equal), k, vals, equal, gap)
    PROVE  LET lists == Partitions(vals, k, equal) IN
           /\ IsDivision(lists, k, n)
           /\ IF equal THEN \A i, j \in 1..k : Len(lists[i]) = Len(lists[j])
                       ELSE (\A i \in 1..k : lists[i] # <<>>) \/ (\A i \in 1..k : Len(lists[i]) <= 1)
           /\ \A i, j \in 1..k : SumOver(vals, Range(lists[i])) - SumOver(vals, Range(lists[j])) <= gap
           /\ \A i \in 1..k : SumOver(vals, Range(lists[i])) \in Nat
  <1> DEFINE s == Differencing(Heap(vals, k, equal))
             lists == Partitions(vals, k, equal)
  <1>1. Positive(vals) /\ DOMAIN vals = 1..n
    BY DEF Positive
  <1>2. /\ IsState(s, k, vals)
        /\ \A x \in DOMAIN vals : x \in InState(s)
        /\ IF equal THEN Even(s) ELSE Spare(s)
        /\ Spread(s) <= gap
    <2> DEFINE H == Heap(vals, k, equal)
    <2>1. IsHeap(H, k, vals, equal, gap)
      OBVIOUS
    <2> HIDE DEF H
    <2> QED BY <1>1, <2>1, DifferencingEnds DEF H
  <1>3. lists = [i \in 1..k |-> Ascending(IndicesOf(s[i]))]
    BY DEF Partitions
  <1> HIDE DEF s, lists
  <1>4. /\ DOMAIN s = 1..k /\ Len(s) = k
        /\ \A j \in 1..k : s[j] \in SetType /\ s[j].sum \in Nat /\ IndicesOf(s[j]) \in SUBSET DOMAIN vals
        /\ Spread(s) \in Nat
        /\ \A i, j \in 1..k : s[i].sum - s[j].sum <= Spread(s)
    BY <1>1, <1>2, StateFacts
  <1>5. \A j \in 1..k : Holds(s[j], vals)
    BY <1>2 DEF IsState
  <1>6. \A i, j \in 1..k : i # j => Apart(s[i], s[j])
    BY <1>2 DEF IsState
  <1>7. ASSUME NEW i \in 1..k
        PROVE  /\ lists[i] \in Seq(1..n) /\ Len(lists[i]) = Len(s[i].items) /\ Len(lists[i]) \in Nat
               /\ \A p \in 1..Len(lists[i]) : lists[i][p] \in IndicesOf(s[i])
               /\ \A x \in IndicesOf(s[i]) : \E p \in 1..Len(lists[i]) : lists[i][p] = x
               /\ \A p, q \in 1..Len(lists[i]) : lists[i][p] = lists[i][q] => p = q
               /\ s[i].sum = SumOver(vals, Range(lists[i]))
               /\ lists[i] = <<>> <=> s[i].items = <<>>
    <2> DEFINE S == IndicesOf(s[i])
               a == lists[i]
    <2>1. IsFiniteSet(S) /\ Cardinality(S) = Len(s[i].items) /\ S \in SUBSET (1..n)
      BY <1>1, <1>4, <1>5, HoldsFacts
    <2>2. a = Ascending(S)
      BY <1>3
    <2>3. s[i].sum = SumOver(vals, S)
      BY <1>5 DEF Holds
    <2>8. s[i] \in SetType
      BY <1>4
    <2>9. s[i].items = <<>> <=> Len(s[i].items) = 0
      BY <2>8, SetFacts
    <2> HIDE DEF S, a
    <2>4. /\ a \in Seq(S) /\ Len(a) = Cardinality(S)
          /\ \A x \in S : \E p \in 1..Len(a) : a[p] = x
          /\ \A p, q \in 1..Len(a) : a[p] = a[q] => p = q
      <3>1. S \in SUBSET Nat
        BY <2>1
      <3> QED BY <2>1, <2>2, <3>1, AscendingIs
    <2>5. \A p \in 1..Len(a) : a[p] \in S
      BY <2>4
    <2>6. a \in Seq(1..n) /\ Len(a) \in Nat /\ DOMAIN a = 1..Len(a)
      <3>1. Len(a) \in Nat /\ DOMAIN a = 1..Len(a) /\ a \in [1..Len(a) -> S]
        BY <2>4
      <3>2. a \in [1..Len(a) -> 1..n]
        BY <2>1, <3>1
      <3> QED BY <3>1, <3>2
    <2>7. Range(a) = S
      <3>1. \A x \in Range(a) : x \in S
        BY <2>5, <2>6 DEF Range
      <3>2. ASSUME NEW x \in S PROVE x \in Range(a)
        <4>1. PICK p \in 1..Len(a) : a[p] = x
          BY <2>4
        <4>2. p \in DOMAIN a
          BY <2>6
        <4> QED BY <4>1, <4>2 DEF Range
      <3> QED BY <3>1, <3>2
    <2>10. a = <<>> <=> Len(a) = 0
      BY <2>6
    <2> QED BY <2>1, <2>3, <2>4, <2>5, <2>6, <2>7, <2>9, <2>10 DEF S, a
  <1>8. lists \in [1..k -> Seq(1..n)]
    BY <1>3, <1>7
  <1>9. \A i, j \in 1..k : \A p \in 1..Len(lists[i]) : \A q \in 1..Len(lists[j]) :
          lists[i][p] = lists[j][q] => i = j /\ p = q
    <2> TAKE i, j \in 1..k
    <2> TAKE p \in 1..Len(lists[i])
    <2> TAKE q \in 1..Len(lists[j])
    <2> HAVE lists[i][p] = lists[j][q]
    <2>1. lists[i][p] \in IndicesOf(s[i]) /\ lists[j][q] \in IndicesOf(s[j])
      BY <1>7
    <2>2. i = j
      BY <1>6, <2>1 DEF Apart
    <2>3. \A x, y \in 1..Len(lists[i]) : lists[i][x] = lists[i][y] => x = y
      BY <1>7
    <2> QED BY <2>2, <2>3
  <1>10. \A x \in 1..n : \E i \in 1..k : \E p \in 1..Len(lists[i]) : lists[i][p] = x
    <2> TAKE x \in 1..n
    <2>1. x \in InState(s)
      BY <1>1, <1>2
    <2>2. PICK i \in 1..k : x \in IndicesOf(s[i])
      BY <1>4, <2>1 DEF InState
    <2>3. \E p \in 1..Len(lists[i]) : lists[i][p] = x
      BY <1>7, <2>2
    <2> QED BY <2>3
  <1>11. IsDivision(lists, k, n)
    BY <1>8, <1>9, <1>10 DEF IsDivision
  <1>12. equal => \A i, j \in 1..k : Len(lists[i]) = Len(lists[j])
    <2> HAVE equal
    <2>1. \A i, j \in 1..k : Len(s[i].items) = Len(s[j].items)
      BY <1>2, <1>4 DEF Even
    <2> QED BY <1>7, <2>1
  <1>13. ~equal => (\A i \in 1..k : lists[i] # <<>>) \/ (\A i \in 1..k : Len(lists[i]) <= 1)
    <2> HAVE ~equal
    <2>1. (\A i \in 1..k : s[i].items # <<>>) \/ (\A i \in 1..k : Len(s[i].items) <= 1)
      BY <1>2, <1>4 DEF Spare
    <2> QED BY <1>7, <2>1
  <1>14. \A i, j \in 1..k : SumOver(vals, Range(lists[i])) - SumOver(vals, Range(lists[j])) <= gap
    <2> TAKE i, j \in 1..k
    <2>1. s[i].sum = SumOver(vals, Range(lists[i])) /\ s[j].sum = SumOver(vals, Range(lists[j]))
      BY <1>7
    <2>2. s[i].sum - s[j].sum <= Spread(s) /\ s[i].sum \in Nat /\ s[j].sum \in Nat
      BY <1>4
    <2> QED BY <1>2, <1>4, <2>1, <2>2
  <1>15. ASSUME NEW i \in 1..k PROVE SumOver(vals, Range(lists[i])) \in Nat
    <2>1. s[i].sum = SumOver(vals, Range(lists[i])) /\ s[i].sum \in Nat
      BY <1>4, <1>7
    <2> QED BY <2>1
  <1> QED BY <1>11, <1>12, <1>13, <1>14, <1>15 DEF lists

-----------------------------------------------------------------------------
\* Divisions are counted.

LEMMA EvenDivision ==
    ASSUME NEW n \in Nat, NEW k \in Nat, NEW lists, IsDivision(lists, k, n),
           NEW c \in Nat, \A i \in 1..k : Len(lists[i]) = c
    PROVE  n = k * c
  <1> DEFINE S == (1..k) \X (1..c)
             f == [x \in S |-> lists[x[1]][x[2]]]
  <1>1. \A x \in S : x[1] \in 1..k /\ x[2] \in 1..c /\ x = <<x[1], x[2]>>
    OBVIOUS
  <1>2. \A x \in S : f[x] \in 1..n
    <2> TAKE x \in S
    <2>1. lists[x[1]] \in Seq(1..n) /\ Len(lists[x[1]]) = c
      BY <1>1 DEF IsDivision
    <2>2. lists[x[1]][x[2]] \in 1..n
      BY <1>1, <2>1
    <2> QED BY <2>2
  <1>3. \A x, y \in S : f[x] = f[y] => x = y
    <2> TAKE x, y \in S
    <2> HAVE f[x] = f[y]
    <2>1. x[1] \in 1..k /\ x[2] \in 1..Len(lists[x[1]]) /\ y[1] \in 1..k /\ y[2] \in 1..Len(lists[y[1]])
      BY <1>1
    <2>3. lists[x[1]][x[2]] = lists[y[1]][y[2]]
      OBVIOUS
    <2>4. \A i, j \in 1..k : \A p \in 1..Len(lists[i]) : \A q \in 1..Len(lists[j]) :
             lists[i][p] = lists[j][q] => i = j /\ p = q
      BY DEF IsDivision
    <2> DEFINE i == x[1]
               j == y[1]
               p == x[2]
               q == y[2]
    <2>5. i \in 1..k /\ j \in 1..k /\ p \in 1..Len(lists[i]) /\ q \in 1..Len(lists[j]) /\ lists[i][p] = lists[j][q]
      BY <2>1, <2>3
    <2> HIDE DEF i, j, p, q
    <2>6. i = j /\ p = q
      BY <2>4, <2>5
    <2>2. x[1] = y[1] /\ x[2] = y[2]
      BY <2>6 DEF i, j, p, q
    <2> QED BY <1>1, <2>2
  <1>4. \A z \in 1..n : \E x \in S : f[x] = z
    <2> TAKE z \in 1..n
    <2>1. PICK i \in 1..k : \E p \in 1..Len(lists[i]) : lists[i][p] = z
      BY DEF IsDivision
    <2>2. PICK p \in 1..c : lists[i][p] = z
      BY <2>1
    <2>3. <<i, p>> \in S /\ f[<<i, p>>] = z
      BY <2>2
    <2> QED BY <2>3
  <1>5. f \in Surjection(S, 1..n) /\ f \in Injection(S, 1..n)
    <2>1. f \in [S -> 1..n]
      BY <1>2
    <2> HIDE DEF f
    <2> QED BY <1>3, <1>4, <2>1 DEF Surjection, Injection, IsInjective
  <1>6. IsFiniteSet(1..k) /\ Cardinality(1..k) = k /\ IsFiniteSet(1..c) /\ Cardinality(1..c) = c /\ Cardinality(1..n) = n
    BY UpTo
  <1>7. IsFiniteSet(S) /\ Cardinality(S) = k * c
    <2>1. IsFiniteSet(S) /\ Cardinality(S) = Cardinality(1..k) * Cardinality(1..c)
      BY <1>6, FS_Product
    <2> QED BY <1>6, <2>1
  <1> HIDE DEF S, f
  <1>8. Cardinality(1..n) = Cardinality(S)
    BY <1>5, <1>7, FS_Surjection
  <1> QED BY <1>6, <1>7, <1>8

\* Few enough lists are all used.
LEMMA SpareDivision ==
    ASSUME NEW n \in Nat, NEW k \in Nat, k <= n, NEW lists, IsDivision(lists, k, n),
           \A i \in 1..k : Len(lists[i]) <= 1
    PROVE  \A i \in 1..k : lists[i] # <<>>
  <1> DEFINE D == {i \in 1..k : lists[i] # <<>>}
             f == [i \in D |-> lists[i][1]]
  <1>0. \A i \in 1..k : lists[i] \in Seq(1..n) /\ Len(lists[i]) \in Nat
    BY DEF IsDivision
  <1>1. \A i \in D : lists[i] \in Seq(1..n) /\ Len(lists[i]) = 1 /\ i \in 1..k
    <2> TAKE i \in D
    <2>1. i \in 1..k /\ lists[i] # <<>>
      OBVIOUS
    <2>2. lists[i] \in Seq(1..n) /\ Len(lists[i]) <= 1
      BY <1>0, <2>1
    <2> DEFINE l == lists[i]
    <2>4. l \in Seq(1..n) /\ l # <<>> /\ Len(l) <= 1
      BY <2>1, <2>2
    <2> HIDE DEF l
    <2>6. Len(l) \in Nat /\ (Len(l) = 0 <=> l = <<>>)
      BY <2>4
    <2>7. Len(l) # 0
      BY ONLY <2>4, <2>6, Zenon
    <2>8. Len(l) \in Nat /\ Len(l) <= 1
      BY <2>4, <2>6
    <2>5. Len(l) = 1
      BY ONLY <2>7, <2>8
    <2>3. Len(lists[i]) = 1
      BY <2>5 DEF l
    <2> QED BY <2>1, <2>2, <2>3
  <1>2. \A i \in D : f[i] \in 1..n
    BY <1>1
  <1>3. \A z \in 1..n : \E i \in D : f[i] = z
    <2> TAKE z \in 1..n
    <2>1. PICK i \in 1..k : \E p \in 1..Len(lists[i]) : lists[i][p] = z
      BY DEF IsDivision
    <2>2. PICK p \in 1..Len(lists[i]) : lists[i][p] = z
      BY <2>1
    <2>3. p = 1 /\ lists[i] # <<>>
      BY <1>0, <2>2
    <2> QED BY <2>2, <2>3
  <1>4. f \in Surjection(D, 1..n)
    <2>1. f \in [D -> 1..n]
      BY <1>2
    <2> HIDE DEF f
    <2> QED BY <1>3, <2>1 DEF Surjection
  <1>5. IsFiniteSet(1..k) /\ Cardinality(1..k) = k /\ Cardinality(1..n) = n
    BY UpTo
  <1>6. IsFiniteSet(D) /\ Cardinality(D) <= k /\ (Cardinality(D) = k => D = 1..k)
    <2>1. D \in SUBSET (1..k)
      OBVIOUS
    <2> HIDE DEF D
    <2> QED BY <1>5, <2>1, FS_Subset
  <1>7. n <= Cardinality(D) /\ Cardinality(D) \in Nat
    BY <1>4, <1>5, <1>6, FS_Surjection, FS_CardinalityType
  <1>8. D = 1..k
    BY <1>6, <1>7
  <1> QED BY <1>8

\* As many lists as rows are single rows.
LEMMA SingleRows ==
    ASSUME NEW n \in Nat, NEW lists, IsDivision(lists, n, n), \A i \in 1..n : lists[i] # <<>>
    PROVE  \A i \in 1..n : Len(lists[i]) = 1
  <1> DEFINE f == [i \in 1..n |-> lists[i][1]]
  <1>1. \A i \in 1..n : lists[i] \in Seq(1..n) /\ Len(lists[i]) \in Nat /\ 1 \in 1..Len(lists[i])
    <2> TAKE i \in 1..n
    <2>1. lists[i] \in Seq(1..n) /\ lists[i] # <<>>
      BY DEF IsDivision
    <2> QED BY <2>1
  <1>2. \A i \in 1..n : f[i] \in 1..n
    BY <1>1
  <1>3. \A i, j \in 1..n : f[i] = f[j] => i = j
    BY <1>1, SMTT(30) DEF IsDivision
  <1>4. f \in Injection(1..n, 1..n)
    <2>1. f \in [1..n -> 1..n]
      BY <1>2
    <2> HIDE DEF f
    <2> QED BY <1>3, <2>1 DEF Injection, IsInjective
  <1>5. IsFiniteSet(1..n) /\ Cardinality(1..n) = n
    BY UpTo
  <1>6. f \in Surjection(1..n, 1..n)
    BY <1>4, <1>5, FS_Injection
  <1>7. \A x \in 1..n : \E i \in 1..n : f[i] = x
    BY <1>6 DEF Surjection
  <1>8. ASSUME NEW i \in 1..n, Len(lists[i]) # 1 PROVE FALSE
    <2> DEFINE l == lists[i]
    <2>4. l \in Seq(1..n) /\ Len(l) \in Nat /\ 1 \in 1..Len(l) /\ Len(l) # 1
      BY <1>1, <1>8
    <2> HIDE DEF l
    <2>5. 2 \in 1..Len(l)
      BY <2>4, SMTT(30)
    <2>0. lists[i] \in Seq(1..n) /\ 2 \in 1..Len(lists[i])
      BY <2>4, <2>5 DEF l
    <2>1. 2 \in 1..Len(lists[i]) /\ lists[i][2] \in 1..n
      BY <2>0
    <2>2. PICK j \in 1..n : lists[j][1] = lists[i][2]
      BY <1>7, <2>1
    <2>3. 1 = 2
      BY <1>1, <2>1, <2>2, SMTT(30) DEF IsDivision
    <2> QED BY <2>3
  <1> QED BY <1>8

-----------------------------------------------------------------------------
\* The order in which a rank runs its micro-batches.

LEMMA PermutedDivision ==
    ASSUME NEW n \in Nat, NEW k \in Nat, NEW lists, IsDivision(lists, k, n),
           NEW o, IsPermutation(o, k), NEW other, other = [i \in 1..k |-> lists[o[i]]]
    PROVE  IsDivision(other, k, n)
  <1>1. \A i \in 1..k : o[i] \in 1..k
    BY DEF IsPermutation
  <1>2. lists \in [1..k -> Seq(1..n)]
    BY DEF IsDivision
  <1>3. \A i \in 1..k : other[i] = lists[o[i]] /\ other[i] \in Seq(1..n)
    BY <1>1, <1>2
  <1>4. other \in [1..k -> Seq(1..n)]
    BY <1>3
  <1>5. ASSUME NEW i \in 1..k, NEW j \in 1..k, NEW p \in 1..Len(other[i]), NEW q \in 1..Len(other[j]),
               other[i][p] = other[j][q]
        PROVE  i = j /\ p = q
    <2> DEFINE a == o[i]
               b == o[j]
    <2>1. a \in 1..k /\ b \in 1..k /\ other[i] = lists[a] /\ other[j] = lists[b]
      BY <1>1, <1>3
    <2>2. (a = b) => (i = j)
      BY DEF IsPermutation
    <2> HIDE DEF a, b
    <2>3. p \in 1..Len(lists[a]) /\ q \in 1..Len(lists[b]) /\ lists[a][p] = lists[b][q]
      BY <1>5, <2>1
    <2>4. a = b /\ p = q
      BY <2>1, <2>3 DEF IsDivision
    <2> QED BY <2>2, <2>4
  <1>6. \A x \in 1..n : \E i \in 1..k : \E p \in 1..Len(other[i]) : other[i][p] = x
    <2> TAKE x \in 1..n
    <2>1. PICK a \in 1..k : \E p \in 1..Len(lists[a]) : lists[a][p] = x
      BY DEF IsDivision
    <2>2. PICK i \in 1..k : o[i] = a
      BY DEF IsPermutation
    <2>3. other[i] = lists[a]
      BY <1>3, <2>2
    <2> QED BY <2>1, <2>3
  <1> QED BY <1>4, <1>5, <1>6 DEF IsDivision

\* One permutation after another.
LEMMA PermutedAgain ==
    ASSUME NEW k \in Nat, NEW o, IsPermutation(o, k), NEW e, IsPermutation(e, k),
           NEW both, both = [i \in 1..k |-> o[e[i]]]
    PROVE  IsPermutation(both, k)
  <1>1. \A i \in 1..k : e[i] \in 1..k /\ o[i] \in 1..k
    BY DEF IsPermutation
  <1>2. \A i \in 1..k : both[i] = o[e[i]] /\ both[i] \in 1..k
    BY <1>1
  <1>3. both \in [1..k -> 1..k]
    BY <1>2
  <1>4. \A j \in 1..k : \E i \in 1..k : both[i] = j
    <2> TAKE j \in 1..k
    <2>1. PICK a \in 1..k : o[a] = j
      BY DEF IsPermutation
    <2>2. PICK i \in 1..k : e[i] = a
      BY DEF IsPermutation
    <2> QED BY <1>2, <2>1, <2>2
  <1>5. \A i, j \in 1..k : both[i] = both[j] => i = j
    <2> TAKE i, j \in 1..k
    <2> HAVE both[i] = both[j]
    <2>1. o[e[i]] = o[e[j]] /\ e[i] \in 1..k /\ e[j] \in 1..k
      BY <1>1, <1>2
    <2>2. e[i] = e[j]
      BY <2>1, SMTT(30) DEF IsPermutation
    <2> QED BY <2>2 DEF IsPermutation
  <1> QED BY <1>3, <1>4, <1>5 DEF IsPermutation

LEMMA Halves ==
    ASSUME NEW k \in Nat
    PROVE  /\ (k + 1) \div 2 \in 0..k /\ k \div 2 = k - ((k + 1) \div 2)
           /\ k = 2 * ((k + 1) \div 2) \/ k = 2 * ((k + 1) \div 2) - 1
  OBVIOUS

Permutes(new, list, k) == \E e : IsPermutation(e, k) /\ new = [i \in 1..k |-> list[e[i]]]

\* The parts in odd places backwards, then those in even places.
LEMMA LightPermutes ==
    ASSUME NEW k \in Nat, NEW T, NEW list \in [1..k -> T]
    PROVE  Permutes(LightAtBothEnds(list), list, k)
  <1> DEFINE h == (k + 1) \div 2
             odd == [i \in 1..h |-> list[2 * i - 1]]
             even == [i \in 1..(k \div 2) |-> list[2 * i]]
             e == [i \in 1..k |-> IF i <= h THEN 2 * (h + 1 - i) - 1 ELSE 2 * (i - h)]
  <1>1. h \in 0..k /\ k \div 2 = k - h /\ (k = 2 * h \/ k = 2 * h - 1)
    BY Halves
  <1>2. LightAtBothEnds(list) = Reverse(odd) \o even
    <2>1. Len(list) = k
      OBVIOUS
    <2> QED BY <2>1 DEF LightAtBothEnds
  <1> HIDE DEF h
  <1>3. \A i \in 1..k : i <= h => 2 * (h + 1 - i) - 1 \in 1..k /\ e[i] = 2 * (h + 1 - i) - 1
    BY <1>1
  <1>4. \A i \in 1..k : i > h => 2 * (i - h) \in 1..k /\ e[i] = 2 * (i - h)
    BY <1>1
  <1>5. odd \in Seq(T) /\ Len(odd) = h /\ \A i \in 1..h : odd[i] = list[2 * i - 1]
    <2>1. \A i \in 1..h : 2 * i - 1 \in 1..k
      BY <1>1
    <2>2. odd \in [1..h -> T]
      BY <2>1
    <2>3. h \in Nat
      BY <1>1
    <2> QED BY <2>2, <2>3
  <1>6. even \in Seq(T) /\ Len(even) = k - h /\ \A i \in 1..(k - h) : even[i] = list[2 * i]
    <2>1. \A i \in 1..(k - h) : 2 * i \in 1..k
      BY <1>1
    <2>2. even \in [1..(k - h) -> T]
      BY <1>1, <2>1
    <2>3. k - h \in Nat
      BY <1>1
    <2> QED BY <1>1, <2>2, <2>3
  <1> HIDE DEF odd, even, e
  <1>7. Reverse(odd) \in Seq(T) /\ Len(Reverse(odd)) = h /\ \A i \in 1..h : Reverse(odd)[i] = list[2 * (h + 1 - i) - 1]
    <2>1. Reverse(odd) = [i \in 1..h |-> odd[(h - i) + 1]]
      BY <1>5 DEF Reverse
    <2>2. \A i \in 1..h : (h - i) + 1 \in 1..h /\ (h - i) + 1 = h + 1 - i
      BY <1>1
    <2>3. \A i \in 1..h : odd[(h - i) + 1] \in T /\ odd[(h - i) + 1] = list[2 * (h + 1 - i) - 1]
      BY <1>5, <2>2, SMTT(30)
    <2>4. Reverse(odd) \in [1..h -> T]
      BY <2>1, <2>3
    <2>5. h \in Nat
      BY <1>1
    <2> QED BY <2>1, <2>3, <2>4, <2>5
  <1>8. LightAtBothEnds(list) = [i \in 1..k |-> list[e[i]]]
    <2> DEFINE r == Reverse(odd)
    <2>1. r \in Seq(T) /\ Len(r) = h /\ \A i \in 1..h : r[i] = list[2 * (h + 1 - i) - 1]
      BY <1>7
    <2>6. LightAtBothEnds(list) = r \o even
      BY <1>2
    <2> HIDE DEF r
    <2>2. /\ r \o even \in Seq(T) /\ Len(r \o even) = h + (k - h)
          /\ DOMAIN (r \o even) = 1..(h + (k - h))
          /\ \A p \in 1..h : (r \o even)[p] = r[p]
          /\ \A p \in 1..(k - h) : (r \o even)[h + p] = even[p]
      <3>1. r \in Seq(T) /\ even \in Seq(T)
        BY <1>6, <2>1
      <3>2. /\ r \o even \in Seq(T) /\ Len(r \o even) = Len(r) + Len(even)
            /\ DOMAIN (r \o even) = 1..(Len(r) + Len(even))
            /\ \A p \in 1..Len(r) : (r \o even)[p] = r[p]
            /\ \A p \in 1..Len(even) : (r \o even)[Len(r) + p] = even[p]
        BY ONLY <3>1, Concatenated
      <3>3. Len(r) = h /\ Len(even) = k - h
        BY <1>6, <2>1
      <3> QED BY ONLY <3>2, <3>3
    <2>3. h + (k - h) = k
      BY <1>1
    <2>4. \A i \in 1..k : (r \o even)[i] = list[e[i]]
      <3> TAKE i \in 1..k
      <3>1. CASE i <= h
        <4>1. i \in 1..h
          BY <1>1, <3>1
        <4>2. r[i] = list[2 * (h + 1 - i) - 1]
          BY <2>1, <4>1
        <4> QED BY <1>3, <2>2, <3>1, <4>1, <4>2
      <3>2. CASE i > h
        <4> DEFINE p == i - h
        <4>1. p \in 1..(k - h) /\ h + p = i
          BY <1>1, <3>2
        <4>2. e[i] = 2 * p
          BY <1>4, <3>2
        <4> HIDE DEF p
        <4>3. even[p] = list[2 * p]
          BY <1>6, <4>1
        <4> QED BY <2>2, <4>1, <4>2, <4>3
      <3>3. i <= h \/ i > h
        BY <1>1
      <3> QED BY <3>1, <3>2, <3>3
    <2> DEFINE u == r \o even
    <2>5. u \in Seq(T) /\ DOMAIN u = 1..k
      BY <2>2, <2>3
    <2>7. \A i \in 1..k : u[i] = list[e[i]]
      BY <2>4
    <2> HIDE DEF u
    <2>8. u = [i \in 1..k |-> list[e[i]]]
      BY <2>5, <2>7
    <2> QED BY <2>6, <2>8 DEF u
  <1>9. IsPermutation(e, k)
    <2>1. e \in [1..k -> 1..k]
      <3>1. \A i \in 1..k : e[i] \in 1..k
        BY <1>1, <1>3, <1>4
      <3>2. e = [i \in 1..k |-> e[i]]
        BY DEF e
      <3> QED BY <3>1, <3>2
    <2>2. \A i, j \in 1..k : e[i] = e[j] => i = j
      <3> TAKE i, j \in 1..k
      <3> HAVE e[i] = e[j]
      <3>1. CASE i <= h /\ j <= h
        BY <1>1, <1>3, <3>1
      <3>2. CASE i > h /\ j > h
        BY <1>1, <1>4, <3>2
      <3>3. CASE i <= h /\ j > h
        BY <1>1, <1>3, <1>4, <3>3
      <3>4. CASE i > h /\ j <= h
        BY <1>1, <1>3, <1>4, <3>4
      <3> QED BY <1>1, <3>1, <3>2, <3>3, <3>4
    <2>3. e \in Injection(1..k, 1..k)
      BY <2>1, <2>2 DEF Injection, IsInjective
    <2>4. e \in Surjection(1..k, 1..k)
      BY <2>3, UpTo, FS_Injection
    <2>5. \A j \in 1..k : \E i \in 1..k : e[i] = j
      BY <2>4 DEF Surjection
    <2> QED BY <2>1, <2>2, <2>5 DEF IsPermutation
  <1> QED BY <1>8, <1>9 DEF Permutes

-----------------------------------------------------------------------------
\* Loads of parts that are all used.
LEMMA PartSums ==
    ASSUME NEW n \in Nat, NEW vals \in [1..n -> Nat], NEW part \in Seq(1..n)
    PROVE  PartSum(part, vals) \in Nat /\ (Len(part) = 1 => PartSum(part, vals) = vals[part[1]])
  <1> DEFINE s == [i \in DOMAIN part |-> vals[part[i]]]
             m == Len(part)
  <1>1. m \in Nat /\ DOMAIN part = 1..m
    OBVIOUS
  <1>2. \A i \in 1..m : part[i] \in 1..n /\ vals[part[i]] \in Nat /\ s[i] = vals[part[i]]
    BY <1>1
  <1>3. s \in [1..m -> Nat]
    BY <1>1, <1>2
  <1>4. PartSum(part, vals) = SumSeq(s)
    BY DEF PartSum
  <1> HIDE DEF s, m
  <1>5. SumSeq(s) \in Nat /\ (m = 1 => SumSeq(s) = s[1])
    BY <1>1, <1>3, SumOfSequence
  <1> QED BY <1>2, <1>4, <1>5 DEF m

LEMMA HeavierIsStrict ==
    ASSUME NEW n \in Nat, NEW vals \in [1..n -> Nat], NEW k \in Nat, NEW lists, IsDivision(lists, k, n),
           \A i \in 1..k : lists[i] # <<>>
    PROVE  IsStrictOrder(1..k, Heavier(lists, vals))
  <1> DEFINE load == [i \in DOMAIN lists |-> PartSum(lists[i], vals)]
             head == [i \in 1..k |-> lists[i][1]]
  <1>1. DOMAIN lists = 1..k /\ \A i \in 1..k : lists[i] \in Seq(1..n) /\ lists[i] # <<>>
    BY DEF IsDivision
  <1>2. \A i \in 1..k : load[i] \in Nat
    BY <1>1, PartSums
  <1>3. \A i \in 1..k : head[i] \in Nat /\ 1 \in 1..Len(lists[i]) /\ head[i] = lists[i][1]
    <2> TAKE i \in 1..k
    <2> DEFINE l == lists[i]
    <2>1. l \in Seq(1..n) /\ l # <<>>
      BY <1>1
    <2> HIDE DEF l
    <2>2. 1 \in 1..Len(l) /\ l[1] \in Nat
      BY <2>1
    <2> QED BY <2>2 DEF l
  <1> HIDE DEF head
  <1>4. \A i, j \in 1..k : head[i] = head[j] => i = j
    BY <1>3 DEF IsDivision
  <1>5. Heavier(lists, vals) = {p \in Pairs(DOMAIN lists) :
            load[p[1]] > load[p[2]] \/ (load[p[1]] = load[p[2]] /\ lists[p[1]][1] > lists[p[2]][1])}
    BY DEF Heavier
  <1> HIDE DEF load
  <1>6. \A i, j \in 1..k : <<i, j>> \in Heavier(lists, vals) <=>
            load[i] > load[j] \/ (load[i] = load[j] /\ head[i] > head[j])
    BY <1>1, <1>3, <1>5 DEF Pairs
  <1> DEFINE R == Heavier(lists, vals)
  <1>7. /\ \A i, j \in 1..k : <<i, j>> \in R <=> load[i] > load[j] \/ (load[i] = load[j] /\ head[i] > head[j])
        /\ \A i \in 1..k : load[i] \in Nat /\ head[i] \in Nat
        /\ \A i, j \in 1..k : head[i] = head[j] => i = j
    BY <1>2, <1>3, <1>4, <1>6
  <1> HIDE DEF R
  <1>8. ASSUME NEW i \in 1..k, NEW j \in 1..k, NEW m \in 1..k
        PROVE  /\ ~(<<i, i>> \in R)
               /\ <<i, j>> \in R /\ <<j, m>> \in R => <<i, m>> \in R
               /\ i # j => <<i, j>> \in R \/ <<j, i>> \in R
    <2>1. load[i] \in Nat /\ load[j] \in Nat /\ load[m] \in Nat /\ head[i] \in Nat /\ head[j] \in Nat /\ head[m] \in Nat
      BY <1>7
    <2>2. i # j => head[i] # head[j]
      BY <1>7
    <2>3. /\ <<i, i>> \in R <=> load[i] > load[i] \/ (load[i] = load[i] /\ head[i] > head[i])
          /\ <<i, j>> \in R <=> load[i] > load[j] \/ (load[i] = load[j] /\ head[i] > head[j])
          /\ <<j, i>> \in R <=> load[j] > load[i] \/ (load[j] = load[i] /\ head[j] > head[i])
          /\ <<j, m>> \in R <=> load[j] > load[m] \/ (load[j] = load[m] /\ head[j] > head[m])
          /\ <<i, m>> \in R <=> load[i] > load[m] \/ (load[i] = load[m] /\ head[i] > head[m])
      BY <1>7
    <2> QED BY ONLY <2>1, <2>2, <2>3, SMTT(30)
  <1>9. IsStrictOrder(1..k, R)
    BY ONLY <1>8 DEF IsStrictOrder
  <1> QED BY <1>9 DEF R

\* The order permutes.
LEMMA MicroOrderIs ==
    ASSUME NEW n \in Nat, NEW vals \in [1..n -> Nat], NEW k \in Nat, NEW lists, IsDivision(lists, k, n),
           \A i \in 1..k : lists[i] # <<>>
    PROVE  Permutes(MicroOrder(lists, vals), lists, k)
  <1> DEFINE o == InOrder(1..k, Heavier(lists, vals))
             by == ByLoad(lists, vals)
  <1>1. IsPermutation(o, k)
    BY HeavierIsStrict, OrderPermutes
  <1>2. lists \in [1..k -> Seq(1..n)] /\ DOMAIN lists = 1..k
    BY DEF IsDivision
  <1>3. by = [i \in 1..k |-> lists[o[i]]]
    BY <1>2 DEF ByLoad
  <1> HIDE DEF o, by
  <1>4. \A i \in 1..k : o[i] \in 1..k
    BY <1>1 DEF IsPermutation
  <1>5. by \in [1..k -> Seq(1..n)]
    BY <1>2, <1>3, <1>4
  <1>6. PICK e : IsPermutation(e, k) /\ LightAtBothEnds(by) = [i \in 1..k |-> by[e[i]]]
    <2> DEFINE T == Seq(1..n)
    <2>1. by \in [1..k -> T] /\ k \in Nat
      BY <1>5
    <2> HIDE DEF T
    <2>2. Permutes(LightAtBothEnds(by), by, k)
      BY ONLY <2>1, LightPermutes
    <2> QED BY <2>2 DEF Permutes
  <1> DEFINE both == [i \in 1..k |-> o[e[i]]]
  <1>7. IsPermutation(both, k)
    BY <1>1, <1>6, PermutedAgain
  <1>8. \A i \in 1..k : e[i] \in 1..k
    BY <1>6 DEF IsPermutation
  <1>9. \A i \in 1..k : by[e[i]] = lists[both[i]]
    BY <1>3, <1>8
  <1>10. MicroOrder(lists, vals) = [i \in 1..k |-> lists[both[i]]]
    <2>1. MicroOrder(lists, vals) = [i \in 1..k |-> by[e[i]]]
      BY <1>6 DEF MicroOrder, by
    <2> HIDE DEF both
    <2> QED BY <1>9, <2>1
  <1> QED BY <1>7, <1>10 DEF Permutes

-----------------------------------------------------------------------------
LEMMA WorkloadIs ==
    /\ \A len \in Nat : Workload(len) \in Nat
    /\ \A len \in Nat \ {0} : Workload(len) \in Nat \ {0}
  <1>1. \A len \in Nat : len * len \in Nat /\ 24576 * len \in Nat /\ (len # 0 => 24576 * len > 0)
    OBVIOUS
  <1>2. \A len \in Nat : Workload(len) = 24576 * len + len * len
    BY DEF Workload
  <1> QED BY <1>1, <1>2

LEMMA WorkloadsAre ==
    ASSUME NEW n \in Nat, NEW lens \in [1..n -> Nat \ {0}]
    PROVE  Workloads(lens) \in [1..n -> Nat \ {0}] /\ \A i \in 1..n : Workloads(lens)[i] = Workload(lens[i])
  <1>1. Workloads(lens) = [i \in 1..n |-> Workload(lens[i])]
    BY DEF Workloads
  <1>2. \A i \in 1..n : lens[i] \in Nat \ {0}
    OBVIOUS
  <1>3. \A i \in 1..n : Workload(lens[i]) \in Nat \ {0}
    BY <1>2, WorkloadIs
  <1> QED BY <1>1, <1>3

\* Divisions whose parts are all used are accepted.
LEMMA DivisionIsAccepted ==
    ASSUME NEW n \in Nat, NEW k \in Nat, NEW lists, IsDivision(lists, k, n),
           \A i \in 1..k : lists[i] # <<>>, NEW equal \in BOOLEAN,
           equal => \A i, j \in 1..k : Len(lists[i]) = Len(lists[j])
    PROVE  Accepted(lists, n, equal)
  <1>1. lists \in [1..k -> Seq(1..n)] /\ DOMAIN lists = 1..k /\ Len(lists) = k
    BY DEF IsDivision
  <1>2. \A i \in 1..k : \A x : x \in Range(lists[i]) <=> \E p \in 1..Len(lists[i]) : lists[i][p] = x
    <2> TAKE i \in 1..k
    <2>1. lists[i] \in Seq(1..n)
      BY <1>1
    <2>2. DOMAIN lists[i] = 1..Len(lists[i])
      BY <2>1
    <2> QED BY <2>2 DEF Range
  <1>3. UNION {Range(lists[i]) : i \in DOMAIN lists} = 1..n
    <2>1. ASSUME NEW x \in 1..n PROVE \E i \in 1..k : x \in Range(lists[i])
      <3>1. PICK i \in 1..k : \E p \in 1..Len(lists[i]) : lists[i][p] = x
        BY DEF IsDivision
      <3> QED BY <1>2, <3>1
    <2>2. ASSUME NEW i \in 1..k, NEW x \in Range(lists[i]) PROVE x \in 1..n
      <3>1. PICK p \in 1..Len(lists[i]) : lists[i][p] = x
        BY <1>2, <2>2
      <3>2. lists[i] \in Seq(1..n)
        BY <1>1
      <3> QED BY <3>1, <3>2
    <2> QED BY <1>1, <2>1, <2>2
  <1>4. ASSUME equal, NEW i \in 1..k PROVE Len(lists[i]) * Len(lists) = n
    <2> DEFINE c == Len(lists[i])
    <2>1. c \in Nat /\ \A j \in 1..k : Len(lists[j]) = c
      <3>1. lists[i] \in Seq(1..n)
        BY <1>1
      <3> QED BY <1>4, <3>1
    <2> HIDE DEF c
    <2>2. n = k * c
      BY <2>1, EvenDivision
    <2>3. k * c = c * k
      BY <2>1
    <2> QED BY <1>1, <2>2, <2>3 DEF c
  <1> QED BY <1>1, <1>3, <1>4 DEF Accepted

\* The micro-batches of a rank, for every number of them up to the number of its rows.
THEOREM MicroBatchesDivide ==
    ASSUME NEW n \in Nat, NEW lens \in [1..n -> Nat \ {0}], NEW k \in 1..n
    PROVE  /\ IsDivision(MicroBatches(lens, k), k, n)
           /\ \A i \in 1..k : MicroBatches(lens, k)[i] # <<>>
           /\ Accepted(MicroBatches(lens, k), n, FALSE)
  <1> DEFINE vals == Workloads(lens)
             lists == Partitions(vals, k, FALSE)
             ordered == MicroBatches(lens, k)
  <1>1. vals \in [1..n -> Nat \ {0}] /\ vals \in [1..n -> Nat]
    BY WorkloadsAre
  <1>2. n \in Nat \ {0} /\ k \in Nat \ {0} /\ k <= n
    OBVIOUS
  <1>3. ordered = MicroOrder(lists, vals)
    BY DEF MicroBatches
  <1> HIDE DEF vals, ordered
  <1>4. PICK gap \in Nat : \A i \in 1..n : vals[i] <= gap
    BY <1>1, Largest
  <1>5. IsHeap(Heap(vals, k, FALSE), k, vals, FALSE, gap)
    BY <1>1, <1>2, <1>4, ItemsAreHeap
  <1>6. /\ IsDivision(lists, k, n)
        /\ (\A i \in 1..k : lists[i] # <<>>) \/ (\A i \in 1..k : Len(lists[i]) <= 1)
    BY <1>1, <1>2, <1>5, PartitionsDivide
  <1> HIDE DEF lists
  <1>7. \A i \in 1..k : lists[i] # <<>>
    BY <1>2, <1>6, SpareDivision
  <1>8. Permutes(ordered, lists, k)
    BY <1>1, <1>2, <1>3, <1>6, <1>7, MicroOrderIs
  <1>9. PICK o : IsPermutation(o, k) /\ ordered = [i \in 1..k |-> lists[o[i]]]
    BY <1>8 DEF Permutes
  <1>10. IsDivision(ordered, k, n)
    BY <1>2, <1>6, <1>9, PermutedDivision
  <1>11. \A i \in 1..k : ordered[i] # <<>>
    <2>1. \A i \in 1..k : o[i] \in 1..k
      BY <1>9 DEF IsPermutation
    <2> QED BY <1>7, <1>9, <2>1
  <1>12. Accepted(ordered, n, FALSE)
    BY <1>2, <1>10, <1>11, DivisionIsAccepted
  <1> QED BY <1>10, <1>11, <1>12 DEF ordered

\* With as many micro-batches as rows each keeps a limit the rows keep.
LEMMA MostKeepLimit ==
    ASSUME NEW n \in Nat \ {0}, NEW lens \in [1..n -> Nat \ {0}], NEW limit \in Nat, \A i \in 1..n : lens[i] <= limit
    PROVE  \A i \in DOMAIN MicroBatches(lens, n) : PartSum(MicroBatches(lens, n)[i], lens) <= limit
  <1> DEFINE lists == MicroBatches(lens, n)
  <1>1. n \in Nat /\ n \in 1..n
    OBVIOUS
  <1>2. IsDivision(lists, n, n) /\ \A i \in 1..n : lists[i] # <<>>
    BY <1>1, MicroBatchesDivide
  <1> HIDE DEF lists
  <1>3. \A i \in 1..n : Len(lists[i]) = 1
    BY <1>2, SingleRows
  <1>4. DOMAIN lists = 1..n /\ \A i \in 1..n : lists[i] \in Seq(1..n)
    BY <1>2 DEF IsDivision
  <1>5. ASSUME NEW i \in 1..n PROVE PartSum(lists[i], lens) <= limit
    <2> DEFINE l == lists[i]
    <2>1. l \in Seq(1..n) /\ Len(l) = 1
      BY <1>3, <1>4
    <2> HIDE DEF l
    <2>5. 1 \in 1..Len(l)
      BY <2>1
    <2>7. l \in Seq(1..n)
      BY <2>1
    <2>6. \A p \in 1..Len(l) : l[p] \in 1..n
      BY ONLY <2>7
    <2>2. l[1] \in 1..n
      BY <2>5, <2>6
    <2>3. lens \in [1..n -> Nat]
      OBVIOUS
    <2>4. PartSum(l, lens) = lens[l[1]]
      BY <2>1, <2>3, PartSums
    <2> QED BY <2>2, <2>4 DEF l
  <1> QED BY <1>4, <1>5 DEF lists

\* The search starts within the number of rows.
LEMMA FirstCountIs ==
    ASSUME NEW n \in Nat \ {0}, NEW lens \in [1..n -> Nat \ {0}], NEW limit \in Nat \ {0}
    PROVE  FirstCount(lens, limit) \in 1..n
  <1> DEFINE sum == SumSeq(lens)
             least == CeilDiv(sum, limit)
             S == {n, least}
  <1>1. sum \in Nat /\ sum > 0
    <2>1. lens \in [1..n -> Nat] /\ n > 0 /\ \A i \in 1..n : lens[i] > 0
      OBVIOUS
    <2> QED BY <2>1, SumOfSequence
  <1> HIDE DEF sum
  <1>2. least \in Nat /\ least >= 1
    <2>1. \A x \in Nat : x >= limit => x \div limit \in Nat /\ x \div limit >= 1
      OBVIOUS
    <2>2. sum + limit - 1 \in Nat /\ sum + limit - 1 >= limit
      BY <1>1
    <2> QED BY <2>1, <2>2 DEF CeilDiv
  <1>3. Len(lens) = n
    OBVIOUS
  <1>4. FirstCount(lens, limit) = Min(S)
    BY <1>3 DEF FirstCount, sum
  <1> HIDE DEF least
  <1>5. \E x \in S : \A y \in S : x <= y
    <2>1. CASE n <= least
      BY <1>2, <2>1
    <2>2. CASE least <= n
      BY <1>2, <2>2
    <2> QED BY <1>2, <2>1, <2>2
  <1>6. Min(S) \in S /\ \A y \in S : Min(S) <= y
    BY <1>5 DEF Min
  <1> QED BY <1>2, <1>4, <1>6

\* The rows of the ranks.
THEOREM SplitDivides ==
    ASSUME NEW k \in Nat \ {0}, NEW B \in Nat \ {0}, NEW n \in Nat, n = k * B,
           NEW lens \in [1..n -> Nat \ {0}]
    PROVE  /\ IsDivision(Partitions(Workloads(lens), k, TRUE), k, n)
           /\ \A i \in 1..k : Len(Partitions(Workloads(lens), k, TRUE)[i]) = B
           /\ Accepted(Partitions(Workloads(lens), k, TRUE), n, TRUE)
  <1> DEFINE vals == Workloads(lens)
             lists == Partitions(vals, k, TRUE)
             its == ByValue(vals)
             top == [b \in 1..B |-> k * (b - 1) + k]
             low == [b \in 1..B |-> k * (b - 1) + 1]
  <1>1. vals \in [1..n -> Nat \ {0}] /\ vals \in [1..n -> Nat]
    BY WorkloadsAre
  <1> HIDE DEF vals
  <1>2. PICK gap \in Nat : \A i \in 1..n : vals[i] <= gap
    BY <1>1, Largest
  <1>3. \A i \in 1..n : its[i][2] \in Nat /\ its[i][2] <= gap
    <2>1. PICK o : IsPermutation(o, n) /\ \A i \in 1..n : its[i] = <<o[i], vals[o[i]]>>
      BY <1>1, ByValueIs
    <2> HIDE DEF its
    <2>2. \A i \in 1..n : o[i] \in 1..n
      BY <2>1 DEF IsPermutation
    <2>3. \A i \in 1..n : its[i][2] = vals[o[i]]
      BY <2>1
    <2> QED BY <1>1, <1>2, <2>2, <2>3
  <1>4. \A b \in 1..B : top[b] \in 1..n /\ low[b] \in 1..n
    <2> DEFINE start == [b \in 1..B |-> k * (b - 1)]
    <2>1. \A b \in 1..B : start[b] = k * (b - 1) /\ top[b] = start[b] + k /\ low[b] = start[b] + 1
      OBVIOUS
    <2> HIDE DEF start, top, low
    <2>2. \A b \in 1..B : \A p \in 1..k : start[b] + p \in 1..(k * B)
      <3>1. AreStarts(start, k, B)
        BY <2>1 DEF AreStarts
      <3>2. AreBlocks(start, k, B)
        BY <3>1, BlockPlaces
      <3> QED BY <3>2 DEF AreBlocks
    <2>3. 1 \in 1..k /\ k \in 1..k
      OBVIOUS
    <2> QED BY <2>1, <2>2, <2>3
  <1>5. \A b \in 1..B : its[top[b]][2] - its[low[b]][2] <= gap
    <2> HIDE DEF its, top, low
    <2> TAKE b \in 1..B
    <2>1. top[b] \in 1..n /\ low[b] \in 1..n
      BY <1>4
    <2>2. its[top[b]][2] \in Nat /\ its[low[b]][2] \in Nat /\ its[top[b]][2] <= gap
      BY <1>3, <2>1
    <2> QED BY <2>2
  <1>6. \A b \in 1..B : its[k * (b - 1) + k][2] - its[k * (b - 1) + 1][2] <= gap
    <2> HIDE DEF its
    <2> QED BY <1>5
  <1> HIDE DEF top, low, lists
  <1>7. IsHeap(Heap(vals, k, TRUE), k, vals, TRUE, gap)
    BY <1>1, <1>6, BlocksAreHeap DEF its
  <1>8. IsDivision(lists, k, n) /\ \A i, j \in 1..k : Len(lists[i]) = Len(lists[j])
    <2>1. n \in Nat /\ vals \in [1..n -> Nat \ {0}] /\ k \in Nat \ {0} /\ gap \in Nat
      BY <1>1
    <2>2. IsHeap(Heap(vals, k, TRUE), k, vals, TRUE, gap)
      BY <1>7
    <2> HIDE DEF vals
    <2>3. LET q == Partitions(vals, k, TRUE) IN
          /\ IsDivision(q, k, n)
          /\ IF TRUE THEN \A i, j \in 1..k : Len(q[i]) = Len(q[j])
                     ELSE (\A i \in 1..k : q[i] # <<>>) \/ (\A i \in 1..k : Len(q[i]) <= 1)
          /\ \A i, j \in 1..k : SumOver(vals, Range(q[i])) - SumOver(vals, Range(q[j])) <= gap
          /\ \A i \in 1..k : SumOver(vals, Range(q[i])) \in Nat
      BY ONLY <2>1, <2>2, PartitionsDivide
    <2> QED BY <2>3 DEF lists
  <1>9. \A i \in 1..k : Len(lists[i]) = B
    <2> TAKE i \in 1..k
    <2> DEFINE c == Len(lists[i])
    <2>1. c \in Nat /\ \A j \in 1..k : Len(lists[j]) = c
      <3>1. lists[i] \in Seq(1..n)
        BY <1>8 DEF IsDivision
      <3> QED BY <1>8, <3>1
    <2> HIDE DEF c
    <2>2. n = k * c
      BY <1>8, <2>1, EvenDivision
    <2>3. (k * B) \div k = B /\ (k * c) \div k = c
      BY <2>1, Products
    <2> QED BY <2>2, <2>3 DEF c
  <1>10. \A i \in 1..k : lists[i] # <<>>
    <2>1. \A i \in 1..k : Len(lists[i]) # 0
      BY <1>9
    <2>2. Len(<<>>) = 0
      OBVIOUS
    <2> QED BY <2>1, <2>2
  <1>11. Accepted(lists, n, TRUE)
    BY <1>8, <1>10, DivisionIsAccepted
  <1> QED BY <1>8, <1>9, <1>11 DEF lists, vals

-----------------------------------------------------------------------------
\* Sequences one after the other.

IsFlatten(f, seqs, k) == f = [i \in 1..k |-> IF i = 1 THEN seqs[i] ELSE f[i - 1] \o seqs[i]]

LEMMA FlattenExists ==
    ASSUME NEW seqs, NEW k \in Nat
    PROVE  \E f : IsFlatten(f, seqs, k)
  <1> DEFINE Good == {n \in Nat : \E f : IsFlatten(f, seqs, n)}
  <1>1. 0 \in Good
    <2> DEFINE f == [i \in 1..0 |-> 0]
    <2>1. f = [i \in 1..0 |-> IF i = 1 THEN seqs[i] ELSE f[i - 1] \o seqs[i]]
      OBVIOUS
    <2> HIDE DEF f
    <2>2. IsFlatten(f, seqs, 0)
      BY <2>1 DEF IsFlatten
    <2> QED BY <2>2
  <1>2. ASSUME NEW n \in Nat, n \in Good PROVE n + 1 \in Good
    <2>1. PICK e : IsFlatten(e, seqs, n)
      BY <1>2
    <2> DEFINE f == [i \in 1..(n + 1) |-> IF i = n + 1 THEN (IF n = 0 THEN seqs[i] ELSE e[n] \o seqs[i]) ELSE e[i]]
               R(i) == IF i = 1 THEN seqs[i] ELSE f[i - 1] \o seqs[i]
    <2>2. \A i \in 1..n : e[i] = IF i = 1 THEN seqs[i] ELSE e[i - 1] \o seqs[i]
      BY <2>1 DEF IsFlatten
    <2>3. ASSUME NEW i \in 1..(n + 1) PROVE f[i] = R(i)
      <3>1. CASE i = n + 1 /\ n = 0
        <4>1. f[i] = seqs[i] /\ i = 1
          BY <3>1
        <4> HIDE DEF f
        <4> QED BY <4>1
      <3>2. CASE i = n + 1 /\ n # 0
        <4>1. i # 1 /\ i - 1 = n /\ n \in 1..(n + 1) /\ n # n + 1
          BY <3>2
        <4>2. f[n] = e[n]
          BY <4>1
        <4>3. f[i] = e[n] \o seqs[i]
          BY <3>2
        <4> HIDE DEF f
        <4> QED BY <4>1, <4>2, <4>3
      <3>3. CASE i # n + 1
        <4>1. i \in 1..n /\ f[i] = e[i]
          BY <3>3
        <4>2. CASE i = 1
          <5>1. e[i] = seqs[i]
            BY <2>2, <4>1, <4>2
          <5> HIDE DEF f
          <5> QED BY <4>1, <4>2, <5>1
        <4>3. CASE i # 1
          <5>1. e[i] = e[i - 1] \o seqs[i]
            BY <2>2, <4>1, <4>3
          <5>2. i - 1 \in 1..(n + 1) /\ i - 1 # n + 1
            BY <4>1, <4>3
          <5> DEFINE j == i - 1
          <5>3. f[j] = e[j]
            BY <5>2
          <5> HIDE DEF f
          <5> QED BY <4>1, <4>3, <5>1, <5>3
        <4> QED BY <4>2, <4>3
      <3> QED BY <3>1, <3>2, <3>3
    <2>4. f = [i \in 1..(n + 1) |-> f[i]]
      OBVIOUS
    <2>5. f = [i \in 1..(n + 1) |-> R(i)]
      <3> HIDE DEF f, R
      <3> QED BY <2>3, <2>4
    <2> HIDE DEF f
    <2>6. IsFlatten(f, seqs, n + 1)
      BY <2>5 DEF IsFlatten
    <2> QED BY <2>6
  <1>3. Good \in SUBSET Nat
    OBVIOUS
  <1>4. k \in Good => \E f : IsFlatten(f, seqs, k)
    OBVIOUS
  <1> HIDE DEF Good
  <1>5. \A n \in Nat : n \in Good
    BY <1>1, <1>2, <1>3, NumbersInduct
  <1> QED BY <1>4, <1>5

\* The beginnings of what FlattenSeq makes.
Flat(seqs, k) == CHOOSE f : IsFlatten(f, seqs, k)

LEMMA FlatFacts ==
    ASSUME NEW T, NEW k \in Nat, NEW seqs \in [1..k -> Seq(T)]
    PROVE  LET f == Flat(seqs, k) IN
           /\ k > 0 => FlattenSeq(seqs) = f[k] /\ f[1] = seqs[1]
           /\ k = 0 => FlattenSeq(seqs) = <<>>
           /\ \A i \in 1..k : f[i] \in Seq(T)
           /\ \A i \in 1..k : i > 1 => f[i] = f[i - 1] \o seqs[i] /\ i - 1 \in 1..k
  <1> DEFINE f == Flat(seqs, k)
  <1>1. IsFlatten(f, seqs, k)
    BY FlattenExists DEF Flat
  <1>2. Len(seqs) = k /\ DOMAIN seqs = 1..k
    OBVIOUS
  <1>3. k > 0 => FlattenSeq(seqs) = f[k]
    <2> HAVE k > 0
    <2> QED BY <1>2 DEF FlattenSeq, Flat, IsFlatten
  <1>4. k = 0 => FlattenSeq(seqs) = <<>>
    <2> HAVE k = 0
    <2>1. seqs = <<>>
      BY <1>2
    <2> QED BY <1>2, <2>1 DEF FlattenSeq
  <1> HIDE DEF f
  <1>5. \A i \in 1..k : f[i] = IF i = 1 THEN seqs[i] ELSE f[i - 1] \o seqs[i]
    BY <1>1 DEF IsFlatten
  <1>6. k > 0 => f[1] = seqs[1]
    BY <1>5
  <1>7. \A i \in 1..k : i > 1 => f[i] = f[i - 1] \o seqs[i] /\ i - 1 \in 1..k
    <2> TAKE i \in 1..k
    <2> HAVE i > 1
    <2>1. i # 1 /\ i - 1 \in 1..k
      OBVIOUS
    <2>2. f[i] = f[i - 1] \o seqs[i]
      BY <1>5, <2>1
    <2> QED BY <2>1, <2>2
  <1> DEFINE Good == {n \in Nat : \A i \in 1..k : i <= n => f[i] \in Seq(T)}
  <1>8. 0 \in Good
    OBVIOUS
  <1>9. ASSUME NEW n \in Nat, n \in Good PROVE n + 1 \in Good
    <2>1. ASSUME NEW i \in 1..k, i <= n + 1 PROVE f[i] \in Seq(T)
      <3>1. CASE i <= n
        BY <1>9, <3>1
      <3>2. CASE i = n + 1 /\ i = 1
        BY <1>6, <3>2
      <3>3. CASE i = n + 1 /\ i > 1
        <4>3. f[i] = f[i - 1] \o seqs[i] /\ i - 1 \in 1..k
          BY <1>7, <3>3
        <4>4. i - 1 <= n
          BY <3>3
        <4>1. f[i] = f[i - 1] \o seqs[i] /\ i - 1 \in 1..k /\ i - 1 <= n
          BY <4>3, <4>4
        <4>2. f[i - 1] \in Seq(T) /\ seqs[i] \in Seq(T)
          BY <1>9, <4>1
        <4> QED BY <4>1, <4>2, Concatenated
      <3> QED BY <2>1, <3>1, <3>2, <3>3
    <2> QED BY <2>1
  <1>10. Good \in SUBSET Nat
    OBVIOUS
  <1>11. k \in Good => \A i \in 1..k : f[i] \in Seq(T)
    OBVIOUS
  <1> HIDE DEF Good
  <1>12. \A n \in Nat : n \in Good
    BY <1>8, <1>9, <1>10, NumbersInduct
  <1>13. \A i \in 1..k : f[i] \in Seq(T)
    BY <1>11, <1>12
  <1> QED BY <1>3, <1>4, <1>6, <1>7, <1>13 DEF f

-----------------------------------------------------------------------------
\* Sequences of one length.
AreFlat(f, seqs, start, B, k) ==
    \A i \in 1..k :
       /\ Len(f[i]) = start[i] + B
       /\ \A j \in 1..i : start[j] <= start[i] /\ \A p \in 1..B : f[i][start[j] + p] = seqs[j][p]

LEMMA EvenFlat ==
    ASSUME NEW T, NEW k \in Nat \ {0}, NEW B \in Nat \ {0}, NEW seqs \in [1..k -> Seq(T)],
           \A i \in 1..k : Len(seqs[i]) = B, NEW start, AreStarts(start, B, k)
    PROVE  AreFlat(Flat(seqs, k), seqs, start, B, k)
  <1> DEFINE f == Flat(seqs, k)
  <1>1. /\ f[1] = seqs[1]
        /\ \A i \in 1..k : f[i] \in Seq(T)
        /\ \A i \in 1..k : i > 1 => f[i] = f[i - 1] \o seqs[i] /\ i - 1 \in 1..k
    <2>1. k > 0 /\ k \in Nat /\ seqs \in [1..k -> Seq(T)]
      OBVIOUS
    <2>2. /\ k > 0 => FlattenSeq(seqs) = f[k] /\ f[1] = seqs[1]
          /\ k = 0 => FlattenSeq(seqs) = <<>>
          /\ \A i \in 1..k : f[i] \in Seq(T)
          /\ \A i \in 1..k : i > 1 => f[i] = f[i - 1] \o seqs[i] /\ i - 1 \in 1..k
      BY ONLY <2>1, FlatFacts, Zenon
    <2> QED BY <2>1, <2>2
  <1>2. start[1] = 0 /\ \A b \in 1..k : start[b] \in Nat /\ (b > 1 => start[b] = start[b - 1] + B)
    <2>0. \A b \in 1..k : start[b] = B * (b - 1)
      BY DEF AreStarts
    <2>1. start[1] = 0
      BY <2>0
    <2>2. ASSUME NEW b \in 1..k PROVE start[b] \in Nat /\ (b > 1 => start[b] = start[b - 1] + B)
      <3>1. start[b] = B * (b - 1) /\ b - 1 \in Nat
        BY <2>0
      <3>2. B * (b - 1) \in Nat
        BY <3>1
      <3>3. ASSUME b > 1 PROVE start[b] = start[b - 1] + B
        <4> DEFINE c == b - 1
                   d == c - 1
        <4>1. c \in 1..k /\ d \in Nat /\ c = d + 1
          BY <3>3
        <4> HIDE DEF d
        <4>2. start[c] = B * (c - 1) /\ c - 1 = d /\ start[b] = B * c
          BY <2>0, <3>1, <4>1
        <4> HIDE DEF c
        <4>3. B * (d + 1) = B * d + B
          BY <4>1, TimesGrows
        <4> QED BY <4>1, <4>2, <4>3 DEF c
      <3> QED BY <3>1, <3>2, <3>3
    <2> QED BY <2>1, <2>2
  <1> HIDE DEF f
  <1> DEFINE Claim(i) == /\ Len(f[i]) = start[i] + B
                         /\ \A j \in 1..i : start[j] <= start[i] /\ \A p \in 1..B : f[i][start[j] + p] = seqs[j][p]
             Good == {n \in Nat : \A i \in 1..k : i <= n => Claim(i)}
  <1>3. ASSUME NEW i \in 1..k, i = 1 PROVE Claim(i)
    <2>1. \A j \in 1..i : j = 1
      BY <1>3
    <2> QED BY <1>1, <1>2, <1>3, <2>1
  <1>4. ASSUME NEW i \in 1..k, i > 1, Claim(i - 1) PROVE Claim(i)
    <2> DEFINE a == i - 1
               s == f[a]
               t == seqs[i]
    <2>1. f[i] = s \o t /\ a \in 1..k /\ s \in Seq(T) /\ t \in Seq(T) /\ Len(t) = B /\ i = a + 1
      BY <1>1, <1>4
    <2>2. /\ Len(s) = start[a] + B
          /\ \A j \in 1..a : start[j] <= start[a] /\ \A p \in 1..B : s[start[j] + p] = seqs[j][p]
      BY <1>4
    <2>3. start[i] = start[a] + B /\ start[i] \in Nat /\ start[a] \in Nat
      BY <1>2, <1>4, <2>1
    <2> HIDE DEF s, t, a
    <2>4. /\ Len(s \o t) = Len(s) + Len(t)
          /\ \A p \in 1..Len(s) : (s \o t)[p] = s[p]
          /\ \A p \in 1..Len(t) : (s \o t)[Len(s) + p] = t[p]
      <3>1. s \in Seq(T) /\ t \in Seq(T)
        BY <2>1
      <3> QED BY ONLY <3>1, Concatenated
    <2>5. Len(f[i]) = start[i] + B
      BY <2>1, <2>2, <2>3, <2>4
    <2>6. ASSUME NEW j \in 1..i PROVE start[j] <= start[i] /\ \A p \in 1..B : f[i][start[j] + p] = seqs[j][p]
      <3>1. CASE j = i
        <4>1. \A p \in 1..B : (s \o t)[start[i] + p] = t[p]
          BY <2>1, <2>2, <2>3, <2>4
        <4>2. \A p \in 1..B : f[i][start[i] + p] = seqs[i][p]
          BY <2>1, <4>1 DEF t
        <4>3. start[i] <= start[i]
          BY <2>3
        <4> QED BY <3>1, <4>2, <4>3
      <3>2. CASE j # i
        <4>1. j \in 1..a
          BY <2>1, <3>2
        <4>2. start[j] <= start[a] /\ \A p \in 1..B : s[start[j] + p] = seqs[j][p]
          BY <2>2, <4>1
        <4>3. start[j] \in Nat
          BY <1>2
        <4>4. \A p \in 1..B : start[j] + p \in 1..Len(s)
          <5>1. Len(s) = start[a] + B /\ start[a] \in Nat /\ start[j] <= start[a]
            BY <2>2, <2>3, <4>2
          <5> QED BY <4>3, <5>1
        <4>5. \A p \in 1..B : (s \o t)[start[j] + p] = seqs[j][p]
          BY <2>4, <4>2, <4>4
        <4>6. start[j] <= start[i]
          BY <2>3, <4>2, <4>3
        <4> QED BY <2>1, <4>5, <4>6
      <3> QED BY <3>1, <3>2
    <2> QED BY <2>5, <2>6
  <1> HIDE DEF Claim
  <1>5. 0 \in Good
    OBVIOUS
  <1>6. ASSUME NEW n \in Nat, n \in Good PROVE n + 1 \in Good
    <2>1. ASSUME NEW i \in 1..k, i <= n + 1 PROVE Claim(i)
      <3>1. CASE i <= n
        BY <1>6, <3>1
      <3>2. CASE i = 1
        BY <1>3, <3>2
      <3>3. CASE i = n + 1 /\ i > 1
        <4>1. i - 1 \in 1..k /\ i - 1 <= n
          BY <3>3
        <4>2. Claim(i - 1)
          BY <1>6, <4>1
        <4> QED BY <1>4, <3>3, <4>2
      <3> QED BY <2>1, <3>1, <3>2, <3>3
    <2> QED BY <2>1
  <1>7. Good \in SUBSET Nat
    OBVIOUS
  <1>8. k \in Good => \A i \in 1..k : Claim(i)
    OBVIOUS
  <1> HIDE DEF Good
  <1>9. \A n \in Nat : n \in Good
    BY <1>5, <1>6, <1>7, NumbersInduct
  <1>10. \A i \in 1..k : Claim(i)
    BY <1>8, <1>9
  <1> QED BY <1>10 DEF Claim, AreFlat, f

-----------------------------------------------------------------------------
\* What is in a sequence, and what is in it once.
Has(s, x) == \E p \in 1..Len(s) : s[p] = x

Once(s) == \A p, q \in 1..Len(s) : s[p] = s[q] => p = q

LEMMA JoinHas ==
    ASSUME NEW T, NEW s \in Seq(T), NEW t \in Seq(T)
    PROVE  /\ \A x : Has(s \o t, x) <=> Has(s, x) \/ Has(t, x)
           /\ Once(s) /\ Once(t) /\ (\A x : ~(Has(s, x) /\ Has(t, x))) => Once(s \o t)
  <1> DEFINE u == s \o t
             m == Len(s)
             n == Len(t)
  <1>1. /\ m \in Nat /\ n \in Nat /\ Len(u) = m + n
        /\ \A p \in 1..m : u[p] = s[p]
        /\ \A p \in 1..n : u[m + p] = t[p]
    BY Concatenated
  <1> HIDE DEF u, m, n
  <1>2. \A p \in 1..Len(u) : p \in 1..m \/ (p - m \in 1..n /\ p = m + (p - m))
    BY <1>1
  <1>3. ASSUME NEW p \in 1..Len(u)
        PROVE  (p \in 1..m /\ u[p] = s[p]) \/ (p - m \in 1..n /\ u[p] = t[p - m])
    <2>1. CASE p \in 1..m
      BY <1>1, <2>1
    <2>2. CASE p \notin 1..m
      <3> DEFINE q == p - m
      <3>1. q \in 1..n /\ p = m + q
        BY <1>2, <2>2
      <3> HIDE DEF q
      <3>2. u[p] = t[q]
        BY <1>1, <3>1
      <3> QED BY <3>1, <3>2 DEF q
    <2> QED BY <2>1, <2>2
  <1>4. ASSUME NEW x, Has(u, x) PROVE Has(s, x) \/ Has(t, x)
    <2>1. PICK p \in 1..Len(u) : u[p] = x
      BY <1>4 DEF Has
    <2> QED BY <1>3, <2>1 DEF Has, m, n
  <1>5. ASSUME NEW x, Has(s, x) PROVE Has(u, x)
    <2>1. PICK p \in 1..m : s[p] = x
      BY <1>5 DEF Has, m
    <2>2. p \in 1..Len(u) /\ u[p] = x
      BY <1>1, <2>1
    <2> QED BY <2>2 DEF Has
  <1>6. ASSUME NEW x, Has(t, x) PROVE Has(u, x)
    <2>1. PICK p \in 1..n : t[p] = x
      BY <1>6 DEF Has, n
    <2>2. m + p \in 1..Len(u) /\ u[m + p] = x
      BY <1>1, <2>1
    <2> QED BY <2>2 DEF Has
  <1>7. ASSUME Once(s), Once(t), \A x : ~(Has(s, x) /\ Has(t, x)),
               NEW p \in 1..Len(u), NEW q \in 1..Len(u), u[p] = u[q]
        PROVE  p = q
    <2>1. CASE p \in 1..m /\ q \in 1..m
      BY <1>1, <1>7, <2>1 DEF Once, m
    <2>2. CASE p \notin 1..m /\ q \notin 1..m
      <3> DEFINE a == p - m
                 b == q - m
      <3>1. a \in 1..n /\ b \in 1..n /\ u[p] = t[a] /\ u[q] = t[b]
        BY <1>3, <2>2
      <3>2. (a = b) => (p = q)
        BY <1>1
      <3> HIDE DEF a, b
      <3>3. a = b
        BY <1>7, <3>1 DEF Once, n
      <3> QED BY <3>2, <3>3
    <2>3. CASE p \in 1..m /\ q \notin 1..m
      <3>1. Has(s, u[p])
        BY <1>1, <2>3 DEF Has, m
      <3>2. Has(t, u[q])
        BY <1>3, <2>3 DEF Has, n
      <3> QED BY <1>7, <3>1, <3>2
    <2>4. CASE p \notin 1..m /\ q \in 1..m
      <3>1. Has(s, u[q])
        BY <1>1, <2>4 DEF Has, m
      <3>2. Has(t, u[p])
        BY <1>3, <2>4 DEF Has, n
      <3> QED BY <1>7, <3>1, <3>2
    <2> QED BY <2>1, <2>2, <2>3, <2>4
  <1>8. Once(s) /\ Once(t) /\ (\A x : ~(Has(s, x) /\ Has(t, x))) => Once(u)
    BY <1>7 DEF Once
  <1> QED BY <1>4, <1>5, <1>6, <1>8 DEF u

LEMMA FlatHas ==
    ASSUME NEW T, NEW k \in Nat, NEW seqs \in [1..k -> Seq(T)]
    PROVE  \A i \in 1..k :
              /\ \A x : Has(Flat(seqs, k)[i], x) <=> \E j \in 1..i : Has(seqs[j], x)
              /\ (/\ \A j \in 1..i : Once(seqs[j])
                  /\ \A j, l \in 1..i : \A x : Has(seqs[j], x) /\ Has(seqs[l], x) => j = l)
                 => Once(Flat(seqs, k)[i])
  <1> DEFINE f == Flat(seqs, k)
  <1>1. /\ k > 0 => f[1] = seqs[1]
        /\ \A i \in 1..k : f[i] \in Seq(T)
        /\ \A i \in 1..k : i > 1 => f[i] = f[i - 1] \o seqs[i] /\ i - 1 \in 1..k
    <2>1. k \in Nat /\ seqs \in [1..k -> Seq(T)]
      OBVIOUS
    <2>2. /\ k > 0 => FlattenSeq(seqs) = f[k] /\ f[1] = seqs[1]
          /\ k = 0 => FlattenSeq(seqs) = <<>>
          /\ \A i \in 1..k : f[i] \in Seq(T)
          /\ \A i \in 1..k : i > 1 => f[i] = f[i - 1] \o seqs[i] /\ i - 1 \in 1..k
      BY ONLY <2>1, FlatFacts, Zenon
    <2> QED BY <2>2
  <1> HIDE DEF f
  <1> DEFINE Apart1(i) == /\ \A j \in 1..i : Once(seqs[j])
                          /\ \A j, l \in 1..i : \A x : Has(seqs[j], x) /\ Has(seqs[l], x) => j = l
             Claim(i) == /\ \A x : Has(f[i], x) <=> \E j \in 1..i : Has(seqs[j], x)
                         /\ Apart1(i) => Once(f[i])
             Good == {n \in Nat : \A i \in 1..k : i <= n => Claim(i)}
  <1>3. ASSUME NEW i \in 1..k, i = 1 PROVE Claim(i)
    <2>1. (\A j \in 1..i : j = 1) /\ 1 \in 1..i /\ f[i] = seqs[1]
      BY <1>1, <1>3
    <2> QED BY <2>1
  <1>4. ASSUME NEW i \in 1..k, i > 1, Claim(i - 1) PROVE Claim(i)
    <2> DEFINE a == i - 1
               s == f[a]
               t == seqs[i]
    <2>1. f[i] = s \o t /\ a \in 1..k /\ s \in Seq(T) /\ t \in Seq(T) /\ i = a + 1 /\ a \in Nat
      BY <1>1, <1>4, SMTT(30)
    <2>2. Claim(a)
      BY <1>4
    <2>3. t = seqs[i]
      OBVIOUS
    <2>4. s = f[a]
      OBVIOUS
    <2> HIDE DEF s, t, a
    <2>5. /\ \A x : Has(s \o t, x) <=> Has(s, x) \/ Has(t, x)
          /\ Once(s) /\ Once(t) /\ (\A x : ~(Has(s, x) /\ Has(t, x))) => Once(s \o t)
      <3>1. s \in Seq(T) /\ t \in Seq(T)
        BY <2>1
      <3> QED BY ONLY <3>1, JoinHas
    <2>6. \A j : j \in 1..i <=> j \in 1..a \/ j = i
      BY <2>1
    <2>7. ASSUME NEW x PROVE Has(f[i], x) <=> \E j \in 1..i : Has(seqs[j], x)
      BY <2>1, <2>2, <2>3, <2>4, <2>5, <2>6
    <2>8. ASSUME Apart1(i) PROVE Once(f[i])
      <3>1. Apart1(a)
        BY <2>6, <2>8
      <3>2. Once(s) /\ Once(t)
        BY <2>2, <2>3, <2>4, <2>6, <2>8, <3>1
      <3>3. ASSUME NEW x, Has(s, x), Has(t, x) PROVE FALSE
        <4>1. PICK j \in 1..a : Has(seqs[j], x)
          BY <2>2, <2>4, <3>3
        <4>2. j = i
          BY <2>3, <2>6, <2>8, <3>3, <4>1
        <4> QED BY <2>1, <4>1, <4>2
      <3> QED BY <2>1, <2>5, <3>2, <3>3
    <2> QED BY <2>7, <2>8
  <1>12. Good \in SUBSET Nat
    OBVIOUS
  <1> HIDE DEF Claim
  <1>11. k \in Good => \A i \in 1..k : Claim(i)
    OBVIOUS
  <1>5. 0 \in Good
    OBVIOUS
  <1>6. ASSUME NEW n \in Nat, n \in Good PROVE n + 1 \in Good
    <2>1. ASSUME NEW i \in 1..k, i <= n + 1 PROVE Claim(i)
      <3>1. CASE i <= n
        BY <1>6, <3>1
      <3>2. CASE i = 1
        BY <1>3, <3>2
      <3>3. CASE i = n + 1 /\ i > 1
        <4>1. i - 1 \in 1..k /\ i - 1 <= n
          BY <3>3
        <4>2. Claim(i - 1)
          BY <1>6, <4>1
        <4> QED BY <1>4, <3>3, <4>2
      <3> QED BY <2>1, <3>1, <3>2, <3>3
    <2> QED BY <2>1
  <1> HIDE DEF Good
  <1>9. \A n \in Nat : n \in Good
    BY <1>5, <1>6, <1>12, NumbersInduct
  <1>10. \A i \in 1..k : Claim(i)
    BY <1>9, <1>11
  <1> QED BY <1>10 DEF Claim, f

\* A division one part after the other is a permutation of the rows.
LEMMA DivisionFlattens ==
    ASSUME NEW n \in Nat, NEW k \in Nat \ {0}, NEW lists, IsDivision(lists, k, n)
    PROVE  /\ FlattenSeq(lists) = Flat(lists, k)[k]
           /\ FlattenSeq(lists) \in Seq(1..n)
           /\ Len(FlattenSeq(lists)) = n
           /\ IsPermutation(FlattenSeq(lists), n)
  <1> DEFINE f == Flat(lists, k)
             s == FlattenSeq(lists)
             L == Len(s)
  <1>1. lists \in [1..k -> Seq(1..n)] /\ k \in Nat /\ k > 0 /\ k \in 1..k
    BY DEF IsDivision
  <1>2. s = f[k] /\ s \in Seq(1..n)
    <2> DEFINE T == 1..n
    <2>1. k \in Nat /\ lists \in [1..k -> Seq(T)]
      BY <1>1
    <2> HIDE DEF T
    <2>2. /\ k > 0 => FlattenSeq(lists) = f[k] /\ f[1] = lists[1]
          /\ k = 0 => FlattenSeq(lists) = <<>>
          /\ \A i \in 1..k : f[i] \in Seq(T)
          /\ \A i \in 1..k : i > 1 => f[i] = f[i - 1] \o lists[i] /\ i - 1 \in 1..k
      BY ONLY <2>1, FlatFacts, Zenon
    <2> QED BY <1>1, <2>2 DEF T
  <1>3. /\ \A x : Has(f[k], x) <=> \E j \in 1..k : Has(lists[j], x)
        /\ (/\ \A j \in 1..k : Once(lists[j])
            /\ \A j, l \in 1..k : \A x : Has(lists[j], x) /\ Has(lists[l], x) => j = l)
           => Once(f[k])
    <2> DEFINE T == 1..n
    <2>1. k \in Nat /\ lists \in [1..k -> Seq(T)] /\ k \in 1..k
      BY <1>1
    <2> HIDE DEF T, f
    <2> QED BY ONLY <2>1, FlatHas DEF f
  <1>4. \A j \in 1..k : Once(lists[j])
    BY DEF IsDivision, Once
  <1>5. ASSUME NEW j \in 1..k, NEW l \in 1..k, NEW x, Has(lists[j], x), Has(lists[l], x) PROVE j = l
    <2>1. PICK p \in 1..Len(lists[j]) : lists[j][p] = x
      BY <1>5 DEF Has
    <2>2. PICK q \in 1..Len(lists[l]) : lists[l][q] = x
      BY <1>5 DEF Has
    <2>3. \A a, b \in 1..k : \A c \in 1..Len(lists[a]) : \A d \in 1..Len(lists[b]) :
             lists[a][c] = lists[b][d] => a = b /\ c = d
      BY DEF IsDivision
    <2>4. lists[j][p] = lists[l][q]
      BY <2>1, <2>2
    <2> QED BY ONLY <2>3, <2>4
  <1>6. Once(s)
    BY <1>2, <1>3, <1>4, <1>5
  <1>7. \A x \in 1..n : Has(s, x)
    <2> TAKE x \in 1..n
    <2>1. \E j \in 1..k : Has(lists[j], x)
      BY DEF IsDivision, Has
    <2> QED BY <1>2, <1>3, <2>1
  <1> HIDE DEF f, s
  <1>8. L \in Nat /\ DOMAIN s = 1..L /\ s \in [1..L -> 1..n]
    BY <1>2
  <1>9. s \in Injection(1..L, 1..n) /\ s \in Surjection(1..L, 1..n)
    BY <1>6, <1>7, <1>8 DEF Injection, IsInjective, Surjection, Once, Has
  <1>10. IsFiniteSet(1..L) /\ Cardinality(1..L) = L /\ Cardinality(1..n) = n
    BY <1>8, UpTo
  <1> HIDE DEF L
  <1>11. Cardinality(1..n) = Cardinality(1..L)
    BY <1>9, <1>10, FS_Surjection
  <1>12. L = n
    BY <1>10, <1>11
  <1>13. IsPermutation(s, n)
    <2>1. \A j \in 1..n : \E i \in 1..n : s[i] = j
      BY <1>7, <1>12 DEF Has, L
    <2>2. \A i, j \in 1..n : s[i] = s[j] => i = j
      BY <1>6, <1>12 DEF Once, L
    <2> QED BY <1>8, <1>12, <2>1, <2>2 DEF IsPermutation
  <1> QED BY <1>2, <1>12, <1>13 DEF s, f, L

-----------------------------------------------------------------------------
\* Pieces of a sequence.

\* A piece of sequences of one length, one after the other, is one of them.
LEMMA EvenPieces ==
    ASSUME NEW T, NEW k \in Nat \ {0}, NEW B \in Nat \ {0}, NEW seqs \in [1..k -> Seq(T)],
           \A i \in 1..k : Len(seqs[i]) = B
    PROVE  /\ FlattenSeq(seqs) \in Seq(T) /\ Len(FlattenSeq(seqs)) = k * B
           /\ \A r \in 1..k : SubSeq(FlattenSeq(seqs), B * (r - 1) + 1, B * r) = seqs[r]
  <1> DEFINE start == [b \in 1..k |-> B * (b - 1)]
             all == FlattenSeq(seqs)
  <1>1. \A b \in 1..k : start[b] = B * (b - 1)
    OBVIOUS
  <1> HIDE DEF start
  <1>2. /\ B * k \in Nat
        /\ \A b \in 1..k : start[b] \in Nat /\ B * b = start[b] + B
        /\ \A b \in 1..k : \A p \in 1..B : start[b] + p \in 1..(B * k)
    <2>1. AreStarts(start, B, k) /\ k \in Nat
      BY <1>1 DEF AreStarts
    <2>2. AreBlocks(start, B, k)
      BY <2>1, BlockPlaces
    <2> QED BY <2>2 DEF AreBlocks
  <1>3. k \in Nat /\ k \in 1..k /\ k > 0
    OBVIOUS
  <1>4. all = Flat(seqs, k)[k] /\ all \in Seq(T)
    <2>1. k \in Nat /\ seqs \in [1..k -> Seq(T)]
      OBVIOUS
    <2>2. /\ k > 0 => FlattenSeq(seqs) = Flat(seqs, k)[k] /\ Flat(seqs, k)[1] = seqs[1]
          /\ k = 0 => FlattenSeq(seqs) = <<>>
          /\ \A i \in 1..k : Flat(seqs, k)[i] \in Seq(T)
          /\ \A i \in 1..k : i > 1 => Flat(seqs, k)[i] = Flat(seqs, k)[i - 1] \o seqs[i] /\ i - 1 \in 1..k
      BY ONLY <2>1, FlatFacts, Zenon
    <2> QED BY <1>3, <2>2
  <1>5. \A i \in 1..k :
           /\ Len(Flat(seqs, k)[i]) = start[i] + B
           /\ \A j \in 1..i : start[j] <= start[i] /\ \A p \in 1..B : Flat(seqs, k)[i][start[j] + p] = seqs[j][p]
    <2>1. AreStarts(start, B, k)
      BY <1>1 DEF AreStarts
    <2>2. AreFlat(Flat(seqs, k), seqs, start, B, k)
      BY <2>1, EvenFlat
    <2> QED BY <2>2 DEF AreFlat
  <1>6. Len(all) = B * k /\ \A r \in 1..k : \A p \in 1..B : all[start[r] + p] = seqs[r][p]
    <2>1. Len(all) = start[k] + B /\ B * k = start[k] + B
      BY <1>2, <1>3, <1>4, <1>5
    <2>2. \A r \in 1..k : \A p \in 1..B : Flat(seqs, k)[k][start[r] + p] = seqs[r][p]
      BY <1>3, <1>5
    <2> QED BY <1>4, <2>1, <2>2
  <1> HIDE DEF all
  <1>7. ASSUME NEW r \in 1..k PROVE SubSeq(all, B * (r - 1) + 1, B * r) = seqs[r]
    <2> DEFINE a == start[r]
               s == seqs[r]
    <2>1. a \in Nat /\ B * (r - 1) = a /\ B * r = a + B /\ \A p \in 1..B : a + p \in 1..Len(all)
      BY <1>1, <1>2, <1>6
    <2>2. \A p \in 1..B : all[a + p] = s[p]
      BY <1>6
    <2>3. s \in Seq(T) /\ Len(s) = B
      OBVIOUS
    <2>4. SubSeq(all, B * (r - 1) + 1, B * r) = SubSeq(all, a + 1, a + B)
      BY <2>1
    <2> HIDE DEF a, s
    <2> DEFINE u == SubSeq(all, a + 1, a + B)
    <2>5. u \in Seq(T) /\ Len(u) = B /\ \A p \in 1..B : u[p] = all[a + p]
      <3>1. 1 \in 1..B /\ B \in 1..B
        OBVIOUS
      <3>2. a + 1 \in 1..Len(all) /\ a + B \in 1..Len(all)
        BY <2>1, <3>1
      <3> QED BY <1>4, <2>1, <3>2
    <2> HIDE DEF u
    <2>6. u = s
      <3>1. DOMAIN u = 1..B /\ DOMAIN s = 1..B /\ u = [p \in 1..B |-> u[p]] /\ s = [p \in 1..B |-> s[p]]
        BY <2>3, <2>5
      <3>2. \A p \in 1..B : u[p] = s[p]
        BY <2>2, <2>5
      <3> QED BY <3>1, <3>2
    <2> QED BY <2>4, <2>6 DEF u, s
  <1>8. B * k = k * B
    BY Products
  <1> QED BY <1>4, <1>6, <1>7, <1>8 DEF all

\* A product is divided by its factor, and multiples are no smaller.
LEMMA Multiples ==
    ASSUME NEW a \in Nat \ {0}, NEW m \in Nat \ {0}
    PROVE  a * m \in Nat /\ a * m >= a /\ (a * m) \div a = m
  <1>1. (a * m) \div a = m
    BY Products
  <1>2. a * m \in Nat /\ a * m >= a * 1
    BY TimesGrows
  <1> QED BY <1>1, <1>2

-----------------------------------------------------------------------------
\* A piece of a sequence of a times m rows.
LEMMA PieceOf ==
    ASSUME NEW T, NEW a \in Nat \ {0}, NEW m \in Nat, NEW s \in Seq(T), Len(s) = a * m, NEW b \in 1..m
    PROVE  SubSeq(s, a * (b - 1) + 1, a * b) \in Seq(T) /\ Len(SubSeq(s, a * (b - 1) + 1, a * b)) = a
  <1> DEFINE start == [c \in 1..m |-> a * (c - 1)]
  <1>1. AreStarts(start, a, m)
    BY DEF AreStarts
  <1>2. start[b] = a * (b - 1)
    OBVIOUS
  <1> HIDE DEF start
  <1>3. AreBlocks(start, a, m)
    BY <1>1, BlockPlaces
  <1>4. start[b] \in Nat /\ a * b = start[b] + a /\ \A p \in 1..a : start[b] + p \in 1..Len(s)
    BY <1>3 DEF AreBlocks
  <1> DEFINE e == start[b]
  <1>5. e \in Nat /\ \A p \in 1..a : e + p \in 1..Len(s)
    BY <1>4
  <1>6. SubSeq(s, a * (b - 1) + 1, a * b) = SubSeq(s, e + 1, e + a)
    BY <1>2, <1>4
  <1> HIDE DEF e
  <1>7. SubSeq(s, e + 1, e + a) \in Seq(T) /\ Len(SubSeq(s, e + 1, e + a)) = a
    <2>1. 1 \in 1..a /\ a \in 1..a
      OBVIOUS
    <2>2. e + 1 \in 1..Len(s) /\ e + a \in 1..Len(s)
      BY <1>5, <2>1
    <2> QED BY <1>5, <2>2
  <1> QED BY <1>6, <1>7

LEMMA MinIs ==
    ASSUME NEW S \in SUBSET Nat, S # {}
    PROVE  Min(S) \in S /\ Min(S) \in Nat /\ \A y \in S : Min(S) <= y
  <1>1. \E x \in S : \A y \in S : x <= y
    BY LeastOne
  <1> QED BY <1>1 DEF Min

\* The smaller of two numbers.
LEMMA MinOfTwo ==
    ASSUME NEW a \in Nat, NEW b \in Nat
    PROVE  Min({a, b}) = IF a <= b THEN a ELSE b
  <1> DEFINE m == IF a <= b THEN a ELSE b
  <1>1. m \in {a, b} /\ \A y \in {a, b} : m <= y
    OBVIOUS
  <1>2. \A x \in {a, b} : (\A y \in {a, b} : x <= y) => x = m
    OBVIOUS
  <1> HIDE DEF m
  <1>3. Min({a, b}) = m
    BY <1>1, <1>2 DEF Min
  <1> QED BY <1>3 DEF m

LEMMA MaxIs ==
    ASSUME NEW S \in SUBSET Nat, S # {}, NEW m \in Nat, \A x \in S : x <= m
    PROVE  Max(S) \in S /\ Max(S) \in Nat /\ \A y \in S : Max(S) >= y
  <1> DEFINE D == {d \in Nat : m - d \in S}
  <1>1. PICK s \in S : TRUE
    OBVIOUS
  <1>2. s \in Nat /\ s <= m
    BY <1>1
  <1>3. m - s \in D
    BY <1>2
  <1>4. PICK d \in D : \A e \in D : d <= e
    <2>1. D \in SUBSET Nat /\ D # {}
      BY <1>3
    <2> QED BY <2>1, LeastOne
  <1>5. ASSUME NEW y \in S PROVE m - d >= y
    <2>1. y \in Nat /\ y <= m
      OBVIOUS
    <2>2. m - y \in Nat /\ m - (m - y) = y
      BY <2>1
    <2>3. m - y \in D
      BY <2>2
    <2>4. d <= m - y
      BY <1>4, <2>3
    <2> QED BY <2>1, <2>4
  <1>6. \E x \in S : \A y \in S : x >= y
    BY <1>4, <1>5
  <1> QED BY <1>6 DEF Max

-----------------------------------------------------------------------------
LEMMA CeilDivCovers ==
    ASSUME NEW a \in Nat \ {0}, NEW m \in Nat \ {0}
    PROVE  CeilDiv(a, m) \in Nat \ {0} /\ CeilDiv(a, m) * m \in Nat /\ CeilDiv(a, m) * m >= a
  <1> DEFINE x == a + m - 1
             q == x \div m
  <1>1. x \in Nat /\ x >= m
    OBVIOUS
  <1>2. \A y \in Nat : y >= m => y \div m \in Nat /\ y \div m >= 1 /\ y = m * (y \div m) + (y % m) /\ y % m \in 0..(m - 1)
    OBVIOUS
  <1>3. q \in Nat /\ q >= 1 /\ x = m * q + (x % m) /\ x % m \in 0..(m - 1)
    BY <1>1, <1>2
  <1> HIDE DEF q
  <1>4. m * q \in Nat /\ q * m = m * q
    BY <1>3, Products
  <1>5. m * q >= a
    BY <1>3, <1>4
  <1>6. CeilDiv(a, m) = q
    BY DEF CeilDiv, q
  <1> QED BY <1>3, <1>4, <1>5, <1>6

-----------------------------------------------------------------------------
\* Values in order are the same in whatever order they came.

LEMMA RearrangedIsNoLater ==
    ASSUME NEW n \in Nat, NEW u \in [1..n -> Nat], NEW v \in [1..n -> Nat],
           \A i, j \in 1..n : i <= j => u[i] <= u[j],
           \A i, j \in 1..n : i <= j => v[i] <= v[j],
           NEW q \in [1..n -> 1..n], \A j \in 1..n : \E i \in 1..n : q[i] = j,
           \A i \in 1..n : v[i] = u[q[i]]
    PROVE  \A i \in 1..n : v[i] <= u[i]
  <1> SUFFICES ASSUME NEW i \in 1..n, u[i] < v[i] PROVE FALSE
    <2>1. \A x \in 1..n : u[x] \in Nat /\ v[x] \in Nat
      OBVIOUS
    <2> QED BY <2>1
  <1> DEFINE U == {j \in 1..n : u[j] < v[i]}
             V == {j \in 1..n : v[j] < v[i]}
  <1>0. \A x \in 1..n : u[x] \in Nat /\ v[x] \in Nat /\ q[x] \in 1..n /\ x \in Nat
    <2> HIDE DEF U, V
    <2>1. \A x \in 1..n : u[x] \in Nat
      OBVIOUS
    <2>2. \A x \in 1..n : v[x] \in Nat
      BY v \in [1..n -> Nat]
    <2>3. \A x \in 1..n : q[x] \in 1..n
      BY ONLY q \in [1..n -> 1..n]
    <2>4. \A x \in 1..n : x \in Nat
      BY ONLY n \in Nat
    <2> QED BY <2>1, <2>2, <2>3, <2>4
  <1>1. 1..i \subseteq U
    <2> SUFFICES ASSUME NEW j \in 1..i PROVE j \in U
      OBVIOUS
    <2>1. j \in 1..n /\ j <= i
      OBVIOUS
    <2>2. u[j] <= u[i]
      BY <2>1
    <2>3. u[j] \in Nat /\ u[i] \in Nat /\ v[i] \in Nat
      BY <1>0, <2>1
    <2>4. u[j] < v[i]
      <3> DEFINE a == u[j]
                 b == u[i]
                 c == v[i]
      <3>1. a \in Nat /\ b \in Nat /\ c \in Nat /\ a <= b /\ b < c
        BY <2>2, <2>3
      <3> HIDE DEF a, b, c
      <3>2. a < c
        BY ONLY <3>1
      <3> QED BY <3>2 DEF a, c
    <2> QED BY <2>1, <2>4
  <1>2. V \subseteq 1..(i - 1)
    <2> SUFFICES ASSUME NEW j \in V PROVE j \in 1..(i - 1)
      OBVIOUS
    <2>1. j \in 1..n /\ v[j] < v[i]
      OBVIOUS
    <2>3. v[i] \in Nat /\ v[j] \in Nat
      BY <1>0, <2>1
    <2>4. i <= j => v[i] <= v[j]
      BY <2>1
    <2>2. ~ i <= j
      BY <2>1, <2>3, <2>4
    <2> QED BY <1>0, <2>1, <2>2
  <1>3. U = {q[j] : j \in V}
    <2>1. ASSUME NEW x \in U PROVE x \in {q[j] : j \in V}
      <3>1. PICK j \in 1..n : q[j] = x
        OBVIOUS
      <3>2. v[j] = u[x] /\ u[x] < v[i]
        BY <3>1
      <3>3. j \in V
        BY <3>2
      <3> QED BY <3>1, <3>3
    <2>2. ASSUME NEW j \in V PROVE q[j] \in U
      <3>1. v[j] = u[q[j]] /\ v[j] < v[i] /\ q[j] \in 1..n
        BY <1>0
      <3> QED BY <3>1
    <2> QED BY <2>1, <2>2
  <1>4. /\ IsFiniteSet(1..i) /\ Cardinality(1..i) = i /\ IsFiniteSet(1..n)
        /\ IsFiniteSet(1..(i - 1)) /\ Cardinality(1..(i - 1)) = i - 1
    <2>1. i \in Nat /\ i - 1 \in Nat
      OBVIOUS
    <2> QED BY <2>1, UpTo
  <1>5. IsFiniteSet(U) /\ IsFiniteSet(V)
    <2>1. U \in SUBSET (1..n) /\ V \in SUBSET (1..n)
      OBVIOUS
    <2> HIDE DEF U, V
    <2> QED BY <1>4, <2>1, FS_Subset
  <1> HIDE DEF U, V
  <1>6. Cardinality(1..i) <= Cardinality(U)
    BY <1>1, <1>5, FS_Subset
  <1>7. Cardinality(V) <= Cardinality(1..(i - 1))
    BY <1>2, <1>4, FS_Subset
  <1>8. Cardinality(U) <= Cardinality(V)
    <2> DEFINE f == [j \in V |-> q[j]]
    <2>1. f \in Surjection(V, U)
      <3>1. f \in [V -> U] /\ \A x \in U : \E j \in V : f[j] = x
        BY <1>3
      <3> QED BY <3>1 DEF Surjection
    <2> HIDE DEF f
    <2> QED BY <1>5, <2>1, FS_Surjection
  <1>9. Cardinality(U) \in Nat /\ Cardinality(V) \in Nat /\ i \in Nat
    BY <1>5, FS_CardinalityType
  <1> QED BY <1>4, <1>6, <1>7, <1>8, <1>9

SameValues(its, others, n) ==
    DOMAIN its = 1..n /\ DOMAIN others = 1..n /\ \A i \in 1..n : its[i][2] = others[i][2]

LEMMA ValuesStayInOrder ==
    ASSUME NEW n \in Nat, NEW a \in [1..n -> Nat], NEW o, IsPermutation(o, n),
           NEW b, b = [i \in 1..n |-> a[o[i]]]
    PROVE  SameValues(ByValue(b), ByValue(a), n)
  <1> DEFINE u == [i \in 1..n |-> ByValue(a)[i][2]]
             v == [i \in 1..n |-> ByValue(b)[i][2]]
  <1>1. b \in [1..n -> Nat] /\ \A i \in 1..n : b[i] = a[o[i]] /\ o[i] \in 1..n
    <2>1. \A i \in 1..n : o[i] \in 1..n
      BY DEF IsPermutation
    <2> QED BY <2>1
  <1>2. /\ DOMAIN ByValue(a) = 1..n
        /\ \E p : IsPermutation(p, n) /\ \A i \in 1..n : ByValue(a)[i] = <<p[i], a[p[i]]>>
        /\ \A i, j \in 1..n : i <= j => ByValue(a)[i][2] <= ByValue(a)[j][2]
        /\ \A i \in 1..n : ByValue(a)[i][2] \in Nat
    BY ByValueIs
  <1>3. /\ DOMAIN ByValue(b) = 1..n
        /\ \E p : IsPermutation(p, n) /\ \A i \in 1..n : ByValue(b)[i] = <<p[i], b[p[i]]>>
        /\ \A i, j \in 1..n : i <= j => ByValue(b)[i][2] <= ByValue(b)[j][2]
        /\ \A i \in 1..n : ByValue(b)[i][2] \in Nat
    BY <1>1, ByValueIs
  <1>4. PICK p : IsPermutation(p, n) /\ \A i \in 1..n : ByValue(a)[i] = <<p[i], a[p[i]]>>
    BY <1>2
  <1>5. PICK r : IsPermutation(r, n) /\ \A i \in 1..n : ByValue(b)[i] = <<r[i], b[r[i]]>>
    BY <1>3
  <1>6. \A i \in 1..n : u[i] = a[p[i]] /\ v[i] = a[o[r[i]]] /\ p[i] \in 1..n /\ r[i] \in 1..n /\ o[r[i]] \in 1..n
    <2>1. \A i \in 1..n : p[i] \in 1..n /\ r[i] \in 1..n
      BY <1>4, <1>5 DEF IsPermutation
    <2>2. \A i \in 1..n : ByValue(a)[i][2] = a[p[i]] /\ ByValue(b)[i][2] = b[r[i]]
      BY <1>4, <1>5
    <2> QED BY <1>1, <2>1, <2>2
  <1>7. u \in [1..n -> Nat] /\ v \in [1..n -> Nat]
    BY <1>2, <1>3
  <1>8. /\ \A i, j \in 1..n : i <= j => u[i] <= u[j]
        /\ \A i, j \in 1..n : i <= j => v[i] <= v[j]
    BY <1>2, <1>3
  <1> HIDE DEF u, v
  <1>9. \A i \in 1..n : v[i] <= u[i]
    <2> DEFINE q == [i \in 1..n |-> CHOOSE j \in 1..n : p[j] = o[r[i]]]
    <2>1. \A i \in 1..n : q[i] \in 1..n /\ p[q[i]] = o[r[i]]
      <3> TAKE i \in 1..n
      <3>1. \E j \in 1..n : p[j] = o[r[i]]
        BY <1>4, <1>6 DEF IsPermutation
      <3> QED BY <3>1
    <2>2. \A j \in 1..n : \E i \in 1..n : q[i] = j
      <3> TAKE j \in 1..n
      <3>1. PICK h \in 1..n : o[h] = p[j]
        BY <1>6 DEF IsPermutation
      <3>2. PICK i \in 1..n : r[i] = h
        BY <1>5 DEF IsPermutation
      <3>3. p[q[i]] = p[j] /\ q[i] \in 1..n
        BY <2>1, <3>1, <3>2
      <3>4. q[i] = j
        BY <1>4, <3>3 DEF IsPermutation
      <3> QED BY <3>4
    <2>3. q \in [1..n -> 1..n] /\ \A i \in 1..n : v[i] = u[q[i]]
      <3>1. q \in [1..n -> 1..n]
        BY <2>1
      <3> QED BY <1>6, <2>1, <3>1
    <2> HIDE DEF q
    <2> QED BY <1>7, <1>8, <2>2, <2>3, RearrangedIsNoLater
  <1>10. \A i \in 1..n : u[i] <= v[i]
    <2> DEFINE q == [i \in 1..n |-> CHOOSE j \in 1..n : o[r[j]] = p[i]]
    <2>1. \A i \in 1..n : q[i] \in 1..n /\ o[r[q[i]]] = p[i]
      <3> TAKE i \in 1..n
      <3>1. PICK h \in 1..n : o[h] = p[i]
        BY <1>6 DEF IsPermutation
      <3>2. \E j \in 1..n : o[r[j]] = p[i]
        <4>1. PICK j \in 1..n : r[j] = h
          BY <1>5 DEF IsPermutation
        <4>2. o[r[j]] = p[i]
          BY <3>1, <4>1
        <4> QED BY <4>2
      <3> QED BY <3>2
    <2>2. \A j \in 1..n : \E i \in 1..n : q[i] = j
      <3> TAKE j \in 1..n
      <3>1. PICK i \in 1..n : p[i] = o[r[j]]
        BY <1>4, <1>6 DEF IsPermutation
      <3>2. o[r[q[i]]] = o[r[j]] /\ q[i] \in 1..n
        BY <2>1, <3>1
      <3>3. r[q[i]] = r[j]
        BY <1>6, <3>2 DEF IsPermutation
      <3>4. q[i] = j
        BY <1>5, <3>2, <3>3 DEF IsPermutation
      <3> QED BY <3>4
    <2>3. q \in [1..n -> 1..n] /\ \A i \in 1..n : u[i] = v[q[i]]
      <3>1. q \in [1..n -> 1..n]
        BY <2>1
      <3> HIDE DEF q, u, v
      <3>2. ASSUME NEW i \in 1..n PROVE u[i] = v[q[i]]
        <4>1. q[i] \in 1..n /\ o[r[q[i]]] = p[i]
          BY <2>1
        <4>2. v[q[i]] = a[o[r[q[i]]]]
          BY <1>6, <4>1
        <4>3. u[i] = a[p[i]]
          BY <1>6
        <4> QED BY <4>1, <4>2, <4>3
      <3> QED BY <3>1, <3>2
    <2> HIDE DEF q
    <2> QED BY <1>7, <1>8, <2>2, <2>3, RearrangedIsNoLater, ZenonT(30)
  <1>11. \A i \in 1..n : u[i] = v[i]
    <2>1. \A i \in 1..n : u[i] \in Nat /\ v[i] \in Nat
      BY <1>7
    <2> QED BY <1>9, <1>10, <2>1
  <1> QED BY <1>2, <1>3, <1>11 DEF u, v, SameValues

\* The parts of equal sizes differ by no more than a block of neighbours does.
THEOREM SplitIsBalanced ==
    ASSUME NEW k \in Nat \ {0}, NEW B \in Nat \ {0}, NEW n \in Nat, n = k * B,
           NEW vals \in [1..n -> Nat \ {0}], NEW gap \in Nat,
           \A b \in 1..B : ByValue(vals)[k * (b - 1) + k][2] - ByValue(vals)[k * (b - 1) + 1][2] <= gap,
           NEW lists, lists = Partitions(vals, k, TRUE)
    PROVE  /\ \A i, j \in 1..k : SumOver(vals, Range(lists[i])) - SumOver(vals, Range(lists[j])) <= gap
           /\ \A i \in 1..k : SumOver(vals, Range(lists[i])) \in Nat
  <1>1. IsHeap(Heap(vals, k, TRUE), k, vals, TRUE, gap)
    BY BlocksAreHeap
  <1>2. n \in Nat /\ vals \in [1..n -> Nat \ {0}] /\ k \in Nat \ {0} /\ gap \in Nat
    OBVIOUS
  <1>3. LET q == Partitions(vals, k, TRUE) IN
        /\ IsDivision(q, k, n)
        /\ IF TRUE THEN \A i, j \in 1..k : Len(q[i]) = Len(q[j])
                   ELSE (\A i \in 1..k : q[i] # <<>>) \/ (\A i \in 1..k : Len(q[i]) <= 1)
        /\ \A i, j \in 1..k : SumOver(vals, Range(q[i])) - SumOver(vals, Range(q[j])) <= gap
        /\ \A i \in 1..k : SumOver(vals, Range(q[i])) \in Nat
    BY ONLY <1>1, <1>2, PartitionsDivide
  <1> QED BY <1>3

-----------------------------------------------------------------------------
\* Rows run in micro-batches.

\* The first m lists, one after the other.
FirstOf(lists, k, m) == IF m = 0 THEN <<>> ELSE Flat(lists, k)[m]

\* The values at places.
Mapped(h, places) == [i \in DOMAIN places |-> h[places[i]]]

Identity(n) == [i \in 1..n |-> i]

LEMMA NothingBefore ==
    ASSUME NEW T, NEW s \in Seq(T)
    PROVE  <<>> \o s = s /\ <<>> \in Seq(T)
  <1>1. <<>> \in Seq(T) /\ Len(<<>>) = 0
    OBVIOUS
  <1>2. /\ <<>> \o s \in Seq(T) /\ DOMAIN (<<>> \o s) = 1..(0 + Len(s))
        /\ \A p \in 1..Len(s) : (<<>> \o s)[0 + p] = s[p]
    BY <1>1, Concatenated
  <1> DEFINE r == <<>> \o s
  <1>3. Len(s) \in Nat /\ DOMAIN s = 1..Len(s)
    OBVIOUS
  <1>4. DOMAIN r = DOMAIN s /\ \A p \in DOMAIN s : r[p] = s[p]
    <2>1. 0 + Len(s) = Len(s) /\ \A p \in 1..Len(s) : 0 + p = p
      BY <1>3
    <2> QED BY <1>2, <1>3, <2>1
  <1>5. r \in Seq(T)
    BY <1>2
  <1> HIDE DEF r
  <1>6. r = [p \in DOMAIN r |-> r[p]] /\ s = [p \in DOMAIN s |-> s[p]]
    BY <1>5
  <1>7. r = s
    BY <1>4, <1>6
  <1> QED BY <1>1, <1>7 DEF r

\* What FirstOf gives.
AreFirst(lists, k, T) ==
    /\ FirstOf(lists, k, 0) = <<>> /\ FirstOf(lists, k, k) = FlattenSeq(lists)
    /\ FlattenSeq(lists) \in Seq(T)
    /\ \A m \in 1..k : FirstOf(lists, k, m - 1) \in Seq(T)
                       /\ FirstOf(lists, k, m) = FirstOf(lists, k, m - 1) \o lists[m]

LEMMA FirstOfIs ==
    ASSUME NEW T, NEW k \in Nat \ {0}, NEW lists \in [1..k -> Seq(T)]
    PROVE  AreFirst(lists, k, T)
  <1> DEFINE f == Flat(lists, k)
  <1>1. /\ FlattenSeq(lists) = f[k] /\ f[1] = lists[1]
        /\ \A i \in 1..k : f[i] \in Seq(T)
        /\ \A i \in 1..k : i > 1 => f[i] = f[i - 1] \o lists[i] /\ i - 1 \in 1..k
    <2>1. k \in Nat /\ k > 0 /\ lists \in [1..k -> Seq(T)]
      OBVIOUS
    <2>2. /\ k > 0 => FlattenSeq(lists) = f[k] /\ f[1] = lists[1]
          /\ k = 0 => FlattenSeq(lists) = <<>>
          /\ \A i \in 1..k : f[i] \in Seq(T)
          /\ \A i \in 1..k : i > 1 => f[i] = f[i - 1] \o lists[i] /\ i - 1 \in 1..k
      BY ONLY <2>1, FlatFacts, Zenon
    <2> QED BY <2>1, <2>2
  <1>2. \A m \in Nat : FirstOf(lists, k, m) = IF m = 0 THEN <<>> ELSE f[m]
    BY DEF FirstOf
  <1> HIDE DEF f
  <1>3. FirstOf(lists, k, 0) = <<>> /\ FirstOf(lists, k, k) = FlattenSeq(lists)
    BY <1>1, <1>2
  <1>4. ASSUME NEW m \in 1..k
        PROVE  FirstOf(lists, k, m - 1) \in Seq(T) /\ FirstOf(lists, k, m) = FirstOf(lists, k, m - 1) \o lists[m]
    <2>0. lists[m] \in Seq(T)
      OBVIOUS
    <2>1. CASE m = 1
      <3>1. FirstOf(lists, k, m - 1) = <<>> /\ FirstOf(lists, k, m) = lists[m]
        BY <1>1, <1>2, <2>1
      <3>2. <<>> \o lists[m] = lists[m] /\ <<>> \in Seq(T)
        BY <2>0, NothingBefore
      <3> QED BY <3>1, <3>2
    <2>2. CASE m # 1
      <3>1. m > 1 /\ m - 1 \in 1..k /\ m - 1 # 0 /\ m - 1 \in Nat /\ m \in Nat /\ m # 0
        BY <2>2
      <3>2. FirstOf(lists, k, m - 1) = f[m - 1] /\ FirstOf(lists, k, m) = f[m]
        BY <1>2, <3>1
      <3>3. f[m] = f[m - 1] \o lists[m] /\ f[m - 1] \in Seq(T)
        BY <1>1, <3>1
      <3> QED BY <3>2, <3>3
    <2> QED BY <2>1, <2>2
  <1>5. FlattenSeq(lists) \in Seq(T)
    <2>1. k \in 1..k
      OBVIOUS
    <2> QED BY <1>1, <2>1
  <1> QED BY <1>3, <1>4, <1>5 DEF AreFirst

LEMMA MappedJoins ==
    ASSUME NEW U, NEW n \in Nat, NEW h \in [1..n -> U], NEW a \in Seq(1..n), NEW b \in Seq(1..n)
    PROVE  Mapped(h, a \o b) = Mapped(h, a) \o Mapped(h, b)
  <1> DEFINE T == 1..n
             la == Len(a)
             lb == Len(b)
             ma == Mapped(h, a)
             mb == Mapped(h, b)
             left == Mapped(h, a \o b)
             right == ma \o mb
  <1>1. h \in [T -> U] /\ a \in Seq(T) /\ b \in Seq(T)
    OBVIOUS
  <1> HIDE DEF T
  <1>2. la \in Nat /\ lb \in Nat /\ DOMAIN a = 1..la /\ DOMAIN b = 1..lb
        /\ (\A p \in 1..la : a[p] \in T) /\ (\A p \in 1..lb : b[p] \in T)
    BY <1>1
  <1>3. /\ DOMAIN (a \o b) = 1..(la + lb)
        /\ \A p \in 1..la : (a \o b)[p] = a[p]
        /\ \A p \in 1..lb : (a \o b)[la + p] = b[p]
    BY <1>1, Concatenated
  <1>4. ma = [i \in 1..la |-> h[a[i]]] /\ mb = [i \in 1..lb |-> h[b[i]]]
    BY <1>2 DEF Mapped
  <1> HIDE DEF la, lb, ma, mb
  <1>5. ma \in Seq(U) /\ mb \in Seq(U) /\ Len(ma) = la /\ Len(mb) = lb
    <2>1. ma \in [1..la -> U] /\ mb \in [1..lb -> U]
      BY <1>1, <1>2, <1>4
    <2>2. la \in Nat /\ lb \in Nat
      BY <1>2
    <2>3. ma \in Seq(U) /\ Len(ma) = la
      BY ONLY <2>1, <2>2
    <2>4. mb \in Seq(U) /\ Len(mb) = lb
      BY ONLY <2>1, <2>2
    <2> QED BY <2>3, <2>4
  <1>6. /\ DOMAIN right = 1..(la + lb) /\ right \in Seq(U)
        /\ \A p \in 1..la : right[p] = ma[p]
        /\ \A p \in 1..lb : right[la + p] = mb[p]
    <2>1. ma \in Seq(U) /\ mb \in Seq(U)
      BY <1>5
    <2>2. /\ ma \o mb \in Seq(U)
          /\ DOMAIN (ma \o mb) = 1..(Len(ma) + Len(mb))
          /\ \A p \in 1..Len(ma) : (ma \o mb)[p] = ma[p]
          /\ \A p \in 1..Len(mb) : (ma \o mb)[Len(ma) + p] = mb[p]
      BY ONLY <2>1, Concatenated
    <2>3. Len(ma) = la /\ Len(mb) = lb
      BY <1>5
    <2> QED BY <2>2, <2>3
  <1>7. left = [i \in 1..(la + lb) |-> h[(a \o b)[i]]]
    BY <1>3 DEF Mapped
  <1>8. ASSUME NEW i \in 1..(la + lb) PROVE h[(a \o b)[i]] = right[i]
    <2>1. CASE i \in 1..la
      <3>1. (a \o b)[i] = a[i] /\ right[i] = ma[i] /\ ma[i] = h[a[i]]
        BY <1>3, <1>4, <1>6, <2>1
      <3> QED BY <3>1
    <2>2. CASE i \notin 1..la
      <3>1. i - la \in 1..lb /\ i = la + (i - la)
        BY <1>2, <2>2
      <3> DEFINE p == i - la
      <3>2. p \in 1..lb /\ i = la + p
        BY <3>1
      <3> HIDE DEF p
      <3>3. (a \o b)[i] = b[p] /\ right[i] = mb[p] /\ mb[p] = h[b[p]]
        BY <1>3, <1>4, <1>6, <3>2
      <3> QED BY <3>3
    <2> QED BY <2>1, <2>2
  <1> HIDE DEF left, right
  <1>9. right = [i \in 1..(la + lb) |-> right[i]]
    BY <1>6
  <1>10. left = right
    BY <1>7, <1>8, <1>9
  <1> QED BY <1>10 DEF left, right, ma, mb

\* The way back restores the order.
THEOREM Restored ==
    ASSUME NEW U, NEW n \in Nat, NEW h \in [1..n -> U], NEW lists, IsPermutation(FlattenSeq(lists), n),
           NEW run, run = Mapped(h, FlattenSeq(lists))
    PROVE  RestoreOrder(run, lists) = h
  <1> DEFINE map == FlattenSeq(lists)
             back == ReverseIndex(map)
  <1>1. DOMAIN map = 1..n /\ \A j \in 1..n : \E i \in 1..n : map[i] = j
    BY DEF IsPermutation
  <1>2. RestoreOrder(run, lists) = [j \in DOMAIN run |-> run[back[j]]]
    BY DEF RestoreOrder
  <1>3. run = [i \in 1..n |-> h[map[i]]]
    BY <1>1 DEF Mapped
  <1>4. back = [j \in 1..n |-> CHOOSE i \in 1..n : map[i] = j]
    BY <1>1 DEF ReverseIndex
  <1> HIDE DEF map, back
  <1>5. \A j \in 1..n : back[j] \in 1..n /\ map[back[j]] = j
    <2> TAKE j \in 1..n
    <2>1. back[j] = CHOOSE i \in 1..n : map[i] = j
      BY <1>4
    <2> QED BY <1>1, <2>1
  <1>6. \A j \in 1..n : run[back[j]] = h[j]
    BY <1>3, <1>5
  <1>7. h = [j \in 1..n |-> h[j]] /\ DOMAIN run = 1..n
    BY <1>3
  <1> QED BY <1>2, <1>6, <1>7

LEMMA MappedByIdentity ==
    ASSUME NEW U, NEW n \in Nat, NEW h \in [1..n -> U]
    PROVE  Mapped(h, Identity(n)) = h
  BY DEF Mapped, Identity

LEMMA IdentityPermutes ==
    ASSUME NEW n \in Nat
    PROVE  IsPermutation(Identity(n), n)
  <1>1. Identity(n) \in [1..n -> 1..n] /\ \A i \in 1..n : Identity(n)[i] = i
    BY DEF Identity
  <1> QED BY <1>1 DEF IsPermutation

LEMMA IdentityGrows ==
    ASSUME NEW a \in Nat, NEW c \in Nat, NEW more, more = [i \in 1..c |-> a + i]
    PROVE  Identity(a) \o more = Identity(a + c)
  <1> DEFINE s == Identity(a)
             t == s \o more
  <1>1. s \in Seq(Nat) /\ Len(s) = a /\ \A i \in 1..a : s[i] = i
    BY DEF Identity
  <1>2. more \in Seq(Nat) /\ Len(more) = c /\ \A i \in 1..c : more[i] = a + i
    OBVIOUS
  <1> HIDE DEF s
  <1>3. /\ t \in Seq(Nat) /\ DOMAIN t = 1..(a + c)
        /\ \A p \in 1..a : t[p] = s[p]
        /\ \A p \in 1..c : t[a + p] = more[p]
    <2>1. s \in Seq(Nat) /\ more \in Seq(Nat)
      BY <1>1, <1>2
    <2>2. /\ s \o more \in Seq(Nat)
          /\ DOMAIN (s \o more) = 1..(Len(s) + Len(more))
          /\ \A p \in 1..Len(s) : (s \o more)[p] = s[p]
          /\ \A p \in 1..Len(more) : (s \o more)[Len(s) + p] = more[p]
      BY ONLY <2>1, Concatenated
    <2> QED BY <1>1, <1>2, <2>2
  <1>4. ASSUME NEW i \in 1..(a + c) PROVE t[i] = i
    <2>1. CASE i \in 1..a
      BY <1>1, <1>3, <2>1
    <2>2. CASE i \notin 1..a
      <3> DEFINE p == i - a
      <3>1. p \in 1..c /\ i = a + p
        BY <2>2
      <3> HIDE DEF p
      <3>2. t[a + p] = more[p] /\ more[p] = a + p
        BY <1>2, <1>3, <3>1
      <3> QED BY <3>1, <3>2
    <2> QED BY <2>1, <2>2
  <1> HIDE DEF t
  <1>5. t = [i \in 1..(a + c) |-> t[i]]
    BY <1>3
  <1>6. t = [i \in 1..(a + c) |-> i]
    BY <1>4, <1>5
  <1> QED BY <1>6 DEF Identity, t, s

=============================================================================
