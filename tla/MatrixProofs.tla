----------------------------- MODULE MatrixProofs -----------------------------
(***************************************************************************)
(* What is proved about the matrix for any events, actors, days, page and  *)
(* chunk sizes and any calendar: every rotated event is in one row, the    *)
(* summaries say what the chunks say, and the actives of any period are    *)
(* right.                                                                  *)
(***************************************************************************)
EXTENDS Matrix, FiniteSetTheorems, SequenceTheorems, WellFoundedInduction, TLAPS

-----------------------------------------------------------------------------
(* Numbers.                                                                *)

LEMMA LeastIsLeast ==
  ASSUME NEW S \in SUBSET Nat, S # {}
  PROVE  Least(S) \in S /\ \A x \in S : Least(S) <= x
<1>1. PICK x \in S : \A y \in S : ~ (<<y, x>> \in OpToRel(<, Nat))
  BY NatLessThanWellFounded, WFMin
<1>2. \A y \in S : ~ (y < x)
  BY <1>1 DEF OpToRel
<1>3. \A y \in S : x <= y
  BY <1>2
<1> QED  BY <1>3 DEF Least

LEMMA GreatestIsGreatest ==
  ASSUME NEW n \in Nat, NEW S \in SUBSET (1 .. n), S # {}
  PROVE  Greatest(S) \in S /\ \A x \in S : x <= Greatest(S)
<1> DEFINE T == {n - x : x \in S}
<1>1. T \in SUBSET Nat /\ T # {}
  <2>1. \A x \in S : x \in 1 .. n /\ n - x \in Nat
    OBVIOUS
  <2>2. T \subseteq Nat
    BY <2>1
  <2>3. T # {}
    <3>1. PICK x \in S : TRUE
      OBVIOUS
    <3>2. n - x \in T
      OBVIOUS
    <3> QED  BY <3>2
  <2> QED  BY <2>2, <2>3
<1> HIDE DEF T
<1>2. PICK t \in T : \A y \in T : ~ (<<y, t>> \in OpToRel(<, Nat))
  BY <1>1, NatLessThanWellFounded, WFMin
<1>3. \A y \in T : ~ (y < t)
  BY <1>1, <1>2 DEF OpToRel
<1>4. PICK x \in S : t = n - x
  BY DEF T
<1>5. \A y \in S : ~ (n - y < n - x)
  BY <1>3, <1>4 DEF T
<1>6. \A y \in S : x >= y
  BY <1>5
<1> QED  BY <1>6 DEF Greatest

LEMMA Quotient ==
  ASSUME NEW y \in Nat \ {0}, NEW d \in Nat
  PROVE  /\ d = (d \div y) * y + (d % y) /\ d % y \in 0 .. y - 1 /\ d \div y \in Nat
         /\ \A q \in Nat, r \in 0 .. y - 1 : d = q * y + r => q = d \div y /\ r = d % y
OBVIOUS

\* A number is in one of the stretches of y after the first, at one place.
Before(n, first, y) == (n - first) * y

LEMMA OneStretch ==
  ASSUME NEW y \in Nat \ {0}, NEW first \in Nat,
         NEW n \in Nat, NEW k \in Nat, n - first \in Nat, k - first \in Nat,
         NEW i \in 1 .. y, NEW j \in 1 .. y,
         Before(n, first, y) + i = Before(k, first, y) + j
  PROVE  n = k /\ i = j
<1>1. \A d \in Nat, q \in Nat, r \in 0 .. y - 1 : d = q * y + r => q = d \div y /\ r = d % y
  BY Quotient
<1> PICK d : d = (n - first) * y + (i - 1)
  OBVIOUS
<1>2. d \in Nat /\ i - 1 \in 0 .. y - 1 /\ j - 1 \in 0 .. y - 1
  OBVIOUS
<1>3. d = (k - first) * y + (j - 1)
  BY DEF Before
<1>4. n - first = d \div y /\ i - 1 = d % y
  BY <1>1, <1>2
<1>5. k - first = d \div y /\ j - 1 = d % y
  BY <1>1, <1>2, <1>3
<1> QED  BY <1>4, <1>5

LEMMA WithinSlice ==
  ASSUME NEW m \in Nat, NEW c \in Nat, NEW low \in Nat, NEW high \in Nat,
         high = m \/ high = low + c,
         NEW r \in Nat, r < c, NEW p \in Nat, p <= m, low + (r + 1) = p
  PROVE  r + 1 <= high - low /\ r + 1 \in Nat
OBVIOUS

LEMMA CountTo == ASSUME NEW n \in Nat PROVE IsFiniteSet(1 .. n) /\ Cardinality(1 .. n) = n
<1>1. /\ IsFiniteSet(1 .. n)
      /\ Cardinality(1 .. n) = IF 1 > n THEN 0 ELSE n - 1 + 1
  BY FS_Interval
<1> QED  BY <1>1

-----------------------------------------------------------------------------
(* Places in an order.                                                     *)

\* The places are strictly and totally ordered.
IsOrder(S, before) ==
  /\ before \in [S -> SUBSET S] /\ \A i \in S : i \notin before[i]
  /\ \A i, j \in S : i # j => i \in before[j] \/ j \in before[i]
  /\ \A i, j, k \in S : i \in before[j] /\ j \in before[k] => i \in before[k]

LEMMA OrderedPlaces ==
  ASSUME NEW S, IsFiniteSet(S), NEW before, IsOrder(S, before),
         NEW order, order = Ordered(S, before),
         NEW n, n = Cardinality(S)
  PROVE  /\ n \in Nat /\ order \in [1 .. n -> S]
         /\ \A i \in S : \E k \in 1 .. n : order[k] = i
         /\ \A k, l \in 1 .. n : k < l => order[k] \in before[order[l]]
<1> USE DEF IsOrder
<1> DEFINE rank == [i \in S |-> Cardinality(before[i]) + 1]
<1>1. n \in Nat
  BY FS_CardinalityType
<1>2. \A i \in S : IsFiniteSet(before[i]) /\ Cardinality(before[i]) \in Nat
  BY FS_Subset, FS_CardinalityType
<1>3. \A i, j \in S : i \in before[j] => rank[i] < rank[j]
  <2> SUFFICES ASSUME NEW i \in S, NEW j \in S, i \in before[j]
               PROVE  Cardinality(before[i]) < Cardinality(before[j])
    BY <1>2
  <2>1. before[i] \in SUBSET before[j]
    OBVIOUS
  <2>2. before[i] # before[j]
    OBVIOUS
  <2> QED  BY <1>2, <2>1, <2>2, FS_Subset
<1>4. \A i \in S : rank[i] \in 1 .. n
  <2> TAKE i \in S
  <2>1. before[i] \in SUBSET S /\ before[i] # S
    OBVIOUS
  <2>2. Cardinality(before[i]) <= n /\ Cardinality(before[i]) # n
    BY <2>1, FS_Subset
  <2> QED  BY <1>1, <1>2, <2>2
<1>5. rank \in Injection(S, 1 .. n)
  <2>1. \A i, j \in S : rank[i] = rank[j] => i = j
    <3> SUFFICES ASSUME NEW i \in S, NEW j \in S, i # j, rank[i] = rank[j]
                 PROVE  FALSE
      OBVIOUS
    <3>1. rank[i] < rank[j] \/ rank[j] < rank[i]
      BY <1>3
    <3> QED  BY <1>1, <1>4, <3>1
  <2> QED  BY <1>4, <2>1 DEF Injection, IsInjective
<1>6. rank \in Surjection(S, 1 .. n)
  <2>1. IsFiniteSet(1 .. n) /\ Cardinality(1 .. n) = n
    BY <1>1, FS_Interval
  <2> QED  BY <1>5, <2>1, FS_Injection
<1>7. \A k \in 1 .. n : order[k] \in S /\ rank[order[k]] = k
  <2> TAKE k \in 1 .. n
  <2>1. PICK i \in S : rank[i] = k
    BY <1>6 DEF Surjection
  <2>2. Cardinality(before[i]) = k - 1
    BY <1>1, <1>2, <2>1
  <2>3. order[k] \in S /\ Cardinality(before[order[k]]) = k - 1
    BY <2>2 DEF Ordered
  <2> QED  BY <1>1, <2>3
<1>8. order \in [1 .. n -> S]
  <2>1. order = [k \in 1 .. n |-> order[k]]
    BY DEF Ordered
  <2> QED  BY <1>7, <2>1
<1>9. \A i \in S : \E k \in 1 .. n : order[k] = i
  <2> TAKE i \in S
  <2>1. rank[i] \in 1 .. n /\ rank[order[rank[i]]] = rank[i] /\ order[rank[i]] \in S
    BY <1>4, <1>7
  <2>2. order[rank[i]] = i
    BY <1>5, <2>1 DEF Injection, IsInjective
  <2> QED  BY <2>1, <2>2
<1>10. \A k, l \in 1 .. n : k < l => order[k] \in before[order[l]]
  <2> SUFFICES ASSUME NEW k \in 1 .. n, NEW l \in 1 .. n, k < l
               PROVE  order[k] \in before[order[l]]
    OBVIOUS
  <2>1. /\ order[k] \in S /\ order[l] \in S /\ rank[order[k]] = k /\ rank[order[l]] = l
    BY <1>7
  <2>2. order[k] # order[l]
    BY <1>1, <2>1
  <2>3. ~ (order[l] \in before[order[k]])
    BY <1>1, <1>3, <2>1
  <2> QED  BY <2>1, <2>2, <2>3
<1> QED  BY <1>1, <1>8, <1>9, <1>10

\* In the order of the numbers.
Increasing(order, n, S) ==
  order \in [1 .. n -> S] /\ \A k, l \in 1 .. n : k < l => order[k] < order[l]

LEMMA AscendingFacts ==
  ASSUME NEW S \in SUBSET Int, IsFiniteSet(S)
  PROVE  /\ Cardinality(S) \in Nat /\ Increasing(Ascending(S), Cardinality(S), S)
         /\ S = {Ascending(S)[k] : k \in 1 .. Cardinality(S)}
<1> PICK n : n = Cardinality(S)
  OBVIOUS
<1> PICK order : order = Ascending(S)
  OBVIOUS
<1> DEFINE before == [i \in S |-> {j \in S : j < i}]
<1>1. IsOrder(S, before)
  BY DEF IsOrder
<1>2. order = Ordered(S, before)
  BY DEF Ascending
<1> HIDE DEF before
<1>3. /\ n \in Nat /\ order \in [1 .. n -> S]
      /\ \A i \in S : \E k \in 1 .. n : order[k] = i
      /\ \A k, l \in 1 .. n : k < l => order[k] \in before[order[l]]
  BY <1>1, <1>2, OrderedPlaces
<1>4. \A k, l \in 1 .. n : k < l => order[k] < order[l]
  BY <1>3 DEF before
<1>5. S = {order[k] : k \in 1 .. n}
  <2>1. \A i : i \in S <=> i \in {order[k] : k \in 1 .. n}
    <3>1. ASSUME NEW i \in S PROVE i \in {order[k] : k \in 1 .. n}
      BY <1>3
    <3>2. \A k \in 1 .. n : order[k] \in S
      BY <1>3
    <3> QED  BY <3>1, <3>2
  <2> QED  BY <2>1
<1> QED  BY <1>3, <1>4, <1>5 DEF Increasing

\* A list has the elements of another one at some places, each once.
Selects(list, S, n, order, other) ==
  /\ order \in [1 .. n -> S] /\ \A i \in S : \E k \in 1 .. n : order[k] = i
  /\ \A k, l \in 1 .. n : k < l => order[k] # order[l]
  /\ other = [k \in 1 .. n |-> list[order[k]]]

\* What is kept of a list is in the order of the list.
LEMMA KeptPlaces ==
  ASSUME NEW list, NEW m, m \in Nat, NEW S, S \subseteq 1 .. m, NEW other, other = Kept(list, S)
  PROVE  \E n \in Nat : \E order :
           /\ Selects(list, S, n, order, other)
           /\ \A k, l \in 1 .. n : k < l => order[k] < order[l]
<1> PICK order : order = Ascending(S)
  OBVIOUS
<1> PICK n : n = Cardinality(S)
  OBVIOUS
<1>1. IsFiniteSet(S) /\ S \in SUBSET Int
  <2>1. IsFiniteSet(1 .. m)
    BY FS_Interval
  <2>2. IsFiniteSet(S)
    BY <2>1, FS_Subset
  <2> QED  BY <2>2
<1>2. n \in Nat /\ Increasing(order, n, S) /\ S = {order[k] : k \in 1 .. n}
  BY <1>1, AscendingFacts
<1>3. /\ n \in Nat /\ order \in [1 .. n -> S]
      /\ \A i \in S : \E k \in 1 .. n : order[k] = i
      /\ \A k, l \in 1 .. n : k < l => order[k] < order[l]
  <2>1. \A i \in S : \E k \in 1 .. n : order[k] = i
    BY <1>2
  <2> QED  BY <1>2, <2>1 DEF Increasing
<1>4. DOMAIN order = 1 .. n
  BY <1>3
<1>5. other = [k \in 1 .. n |-> list[order[k]]]
  BY <1>4 DEF Kept
<1>6. \A k, l \in 1 .. n : k < l => order[k] # order[l]
  <2> TAKE k, l \in 1 .. n
  <2>1. \A i \in S : i \in Nat
    OBVIOUS
  <2>2. order[k] \in Nat /\ order[l] \in Nat
    BY <1>3, <2>1
  <2> QED  BY <1>3, <2>2
<1> QED  BY <1>3, <1>5, <1>6 DEF Selects

-----------------------------------------------------------------------------
(* Lists of rows.                                                          *)

Row == [message : Messages, actor : Nat \ {0}]

TimeOf(row) == MillisecondOf[row.message]

Sorted(rows) == \A i, j \in DOMAIN rows : i < j => TimeOf(rows[i]) <= TimeOf(rows[j])

Distinct(rows) == \A i, j \in DOMAIN rows : rows[i].message = rows[j].message => i = j

\* A list that has the elements of another one, each once.
LEMMA Rearranged ==
  ASSUME NEW T, NEW list \in Seq(T), NEW S \in SUBSET (DOMAIN list), NEW n \in Nat,
         NEW order, NEW other, Selects(list, S, n, order, other)
  PROVE  /\ other \in Seq(T)
         /\ \A x : x \in Range(other) <=> \E i \in S : x = list[i]
         /\ Distinct(list) => Distinct(other)
         /\ IsInjective(list) => IsInjective(other)
<1> USE DEF Selects
<1>1. \A k \in 1 .. n : order[k] \in S /\ order[k] \in DOMAIN list
  OBVIOUS
<1>2. \A i \in DOMAIN list : list[i] \in T
  OBVIOUS
<1>3. DOMAIN other = 1 .. n /\ \A k \in 1 .. n : other[k] = list[order[k]]
  OBVIOUS
<1>4. other \in [1 .. n -> T]
  BY <1>1, <1>2
<1>5. other \in Seq(T)
  BY <1>4
<1>6. \A x : x \in Range(other) <=> \E i \in S : x = list[i]
  <2>1. \A x \in Range(other) : \E i \in S : x = list[i]
    BY <1>1, <1>3 DEF Range
  <2>2. \A i \in S : \E k \in DOMAIN other : other[k] = list[i]
    BY <1>3
  <2> QED  BY <2>1, <2>2 DEF Range
<1>7. \A k, l \in 1 .. n : order[k] = order[l] => k = l
  <2> TAKE k, l \in 1 .. n
  <2>1. k < l \/ l < k \/ k = l
    OBVIOUS
  <2> QED  BY <2>1
<1>8. Distinct(list) => Distinct(other)
  <2> SUFFICES ASSUME Distinct(list), NEW k \in 1 .. n, NEW l \in 1 .. n,
                      other[k].message = other[l].message
               PROVE  k = l
    BY <1>3 DEF Distinct
  <2>1. order[k] = order[l]
    BY <1>1, <1>3 DEF Distinct
  <2> QED  BY <1>7, <2>1
<1>9. IsInjective(list) => IsInjective(other)
  <2> SUFFICES ASSUME IsInjective(list), NEW k \in 1 .. n, NEW l \in 1 .. n, other[k] = other[l]
               PROVE  k = l
    BY <1>3 DEF IsInjective
  <2>1. order[k] = order[l]
    BY <1>1, <1>3 DEF IsInjective
  <2> QED  BY <1>7, <2>1
<1> QED  BY <1>5, <1>6, <1>8, <1>9

LEMMA TimeOrder ==
  ASSUME NEW rows \in Seq(Row), NEW sorted, sorted = InTimeOrder(rows)
  PROVE  /\ sorted \in Seq(Row) /\ Len(sorted) = Len(rows) /\ Range(sorted) = Range(rows)
         /\ Sorted(sorted)
         /\ Distinct(rows) => Distinct(sorted)
         /\ Sorted(rows) => sorted = rows
<1> PICK n : n = Len(rows)
  OBVIOUS
<1> DEFINE before == [i \in 1 .. n |-> {j \in 1 .. n : \/ TimeOf(rows[j]) < TimeOf(rows[i])
                                                       \/ /\ TimeOf(rows[j]) = TimeOf(rows[i])
                                                          /\ j < i}]
<1>1. n \in Nat /\ DOMAIN rows = 1 .. n /\ \A i \in 1 .. n : rows[i] \in Row /\ TimeOf(rows[i]) \in Nat
  <2>1. n \in Nat /\ DOMAIN rows = 1 .. n /\ \A i \in 1 .. n : rows[i] \in Row
    OBVIOUS
  <2>2. \A row \in Row : TimeOf(row) \in Nat
    BY MatrixAssumption DEF TimeOf, Row
  <2> QED  BY <2>1, <2>2
<1>2. IsOrder(1 .. n, before)
  <2>1. before \in [1 .. n -> SUBSET (1 .. n)] /\ \A i \in 1 .. n : i \notin before[i]
    BY <1>1
  <2>2. \A i, j \in 1 .. n : i # j => i \in before[j] \/ j \in before[i]
    BY <1>1
  <2>3. \A i, j, k \in 1 .. n : i \in before[j] /\ j \in before[k] => i \in before[k]
    BY <1>1
  <2> QED  BY <2>1, <2>2, <2>3 DEF IsOrder
<1> PICK order : order = Ordered(1 .. n, before)
  OBVIOUS
<1>3. sorted = [k \in 1 .. n |-> rows[order[k]]]
  BY <1>1 DEF InTimeOrder, TimeOf
<1>4. IsFiniteSet(1 .. n) /\ Cardinality(1 .. n) = n
  BY <1>1, CountTo
<1>5. Sorted(rows) => \A i \in 1 .. n : before[i] = 1 .. i - 1
  <2> SUFFICES ASSUME Sorted(rows), NEW i \in 1 .. n
               PROVE  before[i] = 1 .. i - 1
    OBVIOUS
  <2>1. \A j \in 1 .. n : j < i => TimeOf(rows[j]) <= TimeOf(rows[i])
    BY <1>1 DEF Sorted
  <2>2. \A j \in 1 .. n : i < j => TimeOf(rows[i]) <= TimeOf(rows[j])
    BY <1>1 DEF Sorted
  <2>3. \A j \in 1 .. n : j \in before[i] <=> j < i
    BY <1>1, <2>1, <2>2
  <2> QED  BY <1>1, <2>3
<1> HIDE DEF before
<1>6. /\ order \in [1 .. n -> 1 .. n]
      /\ \A i \in 1 .. n : \E k \in 1 .. n : order[k] = i
      /\ \A k, l \in 1 .. n : k < l => order[k] \in before[order[l]]
  <2> PICK places : places = 1 .. n
    OBVIOUS
  <2>1. IsFiniteSet(places) /\ IsOrder(places, before) /\ order = Ordered(places, before)
        /\ n = Cardinality(places)
    BY <1>2, <1>4
  <2>2. /\ order \in [1 .. n -> places]
        /\ \A i \in places : \E k \in 1 .. n : order[k] = i
        /\ \A k, l \in 1 .. n : k < l => order[k] \in before[order[l]]
    BY <2>1, OrderedPlaces
  <2> QED  BY <2>2
<1>7. \A k, l \in 1 .. n : k < l => TimeOf(rows[order[k]]) <= TimeOf(rows[order[l]])
  <2> SUFFICES ASSUME NEW k \in 1 .. n, NEW l \in 1 .. n, k < l
               PROVE  TimeOf(rows[order[k]]) <= TimeOf(rows[order[l]])
    OBVIOUS
  <2>1. order[k] \in before[order[l]] /\ order[k] \in 1 .. n /\ order[l] \in 1 .. n
    BY <1>6
  <2>2. TimeOf(rows[order[k]]) \in Nat /\ TimeOf(rows[order[l]]) \in Nat
    BY <1>1, <2>1
  <2>3. \/ TimeOf(rows[order[k]]) < TimeOf(rows[order[l]])
        \/ TimeOf(rows[order[k]]) = TimeOf(rows[order[l]])
    BY <2>1 DEF before
  <2> QED  BY <2>2, <2>3
<1>8. \A k, l \in 1 .. n : k < l => order[k] # order[l]
  BY <1>2, <1>6 DEF IsOrder
<1>9. /\ sorted \in Seq(Row) /\ Len(sorted) = n /\ (Distinct(rows) => Distinct(sorted))
      /\ \A x : x \in Range(sorted) <=> \E i \in 1 .. n : x = rows[i]
  <2> PICK S : S = 1 .. n
    OBVIOUS
  <2>1. S \in SUBSET (DOMAIN rows) /\ Selects(rows, S, n, order, sorted)
    BY <1>1, <1>3, <1>6, <1>8 DEF Selects
  <2>2. sorted \in Seq(Row)
    BY <1>1, <2>1, Rearranged
  <2>3. DOMAIN sorted = 1 .. n
    BY <1>3
  <2>4. \A x : x \in Range(sorted) <=> \E i \in 1 .. n : x = rows[i]
    <3>1. \A k \in 1 .. n : sorted[k] = rows[order[k]] /\ order[k] \in 1 .. n
      <4>1. \A k \in 1 .. n : order[k] \in 1 .. n
        BY <1>6
      <4>2. \A k \in 1 .. n : sorted[k] = rows[order[k]]
        BY <1>3
      <4> QED  BY <4>1, <4>2
    <3>2. \A x \in Range(sorted) : \E i \in 1 .. n : x = rows[i]
      BY <2>3, <3>1 DEF Range
    <3>3. \A i \in 1 .. n : rows[i] \in Range(sorted)
      <4> TAKE i \in 1 .. n
      <4>1. PICK k \in 1 .. n : order[k] = i
        BY <1>6
      <4>2. k \in DOMAIN sorted /\ sorted[k] = rows[i]
        BY <2>3, <3>1, <4>1
      <4> QED  BY <4>2 DEF Range
    <3> QED  BY <3>2, <3>3
  <2>5. Distinct(rows) => Distinct(sorted)
    BY <1>1, <2>1, Rearranged
  <2> QED  BY <1>1, <2>2, <2>3, <2>4, <2>5
<1>10. Range(sorted) = Range(rows)
  <2>1. \A x : x \in Range(rows) <=> \E i \in 1 .. n : x = rows[i]
    BY <1>1 DEF Range
  <2> QED  BY <1>9, <2>1
<1>11. Sorted(sorted)
  <2> SUFFICES ASSUME NEW k \in 1 .. n, NEW l \in 1 .. n, k < l
               PROVE  TimeOf(sorted[k]) <= TimeOf(sorted[l])
    BY <1>9 DEF Sorted
  <2>1. sorted[k] = rows[order[k]] /\ sorted[l] = rows[order[l]]
    BY <1>3
  <2> QED  BY <1>7, <2>1
<1>12. Distinct(rows) => Distinct(sorted)
  BY <1>9
<1>13. Sorted(rows) => sorted = rows
  <2> SUFFICES ASSUME Sorted(rows), NEW k \in 1 .. n PROVE order[k] = k
    BY <1>1, <1>3
  <2>1. \A i \in 1 .. n : Cardinality(before[i]) = i - 1
    <3> TAKE i \in 1 .. n
    <3>1. 1 \in Int /\ i - 1 \in Int /\ (IF 1 > i - 1 THEN 0 ELSE i - 1 - 1 + 1) = i - 1
      BY <1>1
    <3>2. Cardinality(1 .. i - 1) = IF 1 > i - 1 THEN 0 ELSE i - 1 - 1 + 1
      BY <3>1, FS_Interval
    <3> QED  BY <1>5, <3>1, <3>2
  <2>2. order[k] = CHOOSE i \in 1 .. n : Cardinality(before[i]) = k - 1
    BY <1>4 DEF Ordered
  <2>3. k \in 1 .. n /\ Cardinality(before[k]) = k - 1
    BY <2>1
  <2>4. order[k] \in 1 .. n /\ Cardinality(before[order[k]]) = k - 1
    BY <2>2, <2>3
  <2> QED  BY <1>1, <2>1, <2>4
<1> QED  BY <1>9, <1>10, <1>11, <1>12, <1>13

\* What is kept of rows in order is in order.
LEMMA KeptRows ==
  ASSUME NEW T, NEW list \in Seq(T), NEW S \in SUBSET (DOMAIN list), NEW kept, kept = Kept(list, S)
  PROVE  /\ kept \in Seq(T) /\ Len(kept) <= Len(list)
         /\ \A x : x \in Range(kept) <=> \E i \in S : x = list[i]
         /\ Sorted(list) => Sorted(kept)
         /\ Distinct(list) => Distinct(kept)
         /\ IsInjective(list) => IsInjective(kept)
<1> PICK m : m = Len(list)
  OBVIOUS
<1>1. m \in Nat /\ DOMAIN list = 1 .. m /\ S \in SUBSET (1 .. m)
  OBVIOUS
<1> PICK n \in Nat :
      \E order : /\ Selects(list, S, n, order, kept)
                 /\ \A k, l \in 1 .. n : k < l => order[k] < order[l]
  BY <1>1, KeptPlaces
<1>2. PICK order : /\ Selects(list, S, n, order, kept)
                   /\ \A k, l \in 1 .. n : k < l => order[k] < order[l]
  OBVIOUS
<1>3. \A k, l \in 1 .. n : k < l => order[k] # order[l]
  BY <1>2 DEF Selects
<1>4. /\ kept \in Seq(T) /\ Len(kept) = n
      /\ \A x : x \in Range(kept) <=> \E i \in S : x = list[i]
      /\ Distinct(list) => Distinct(kept)
      /\ IsInjective(list) => IsInjective(kept)
  <2>1. kept \in Seq(T)
    BY <1>2, Rearranged
  <2>2. DOMAIN kept = 1 .. n
    BY <1>2 DEF Selects
  <2>3. \A x : x \in Range(kept) <=> \E i \in S : x = list[i]
    BY <1>2, Rearranged
  <2>4. Distinct(list) => Distinct(kept)
    BY <1>2, Rearranged
  <2>5. IsInjective(list) => IsInjective(kept)
    BY <1>2, Rearranged
  <2> QED  BY <2>1, <2>2, <2>3, <2>4, <2>5
<1>5. n <= m
  <2>1. /\ IsFiniteSet(1 .. m) /\ Cardinality(1 .. m) = m
        /\ IsFiniteSet(1 .. n) /\ Cardinality(1 .. n) = n
    BY <1>1, CountTo
  <2>2. \A k, l \in 1 .. n : order[k] = order[l] => k = l
    <3> TAKE k, l \in 1 .. n
    <3>1. k < l \/ l < k \/ k = l
      OBVIOUS
    <3> QED  BY <1>3, <3>1
  <2>3. order \in Injection(1 .. n, 1 .. m)
    BY <1>1, <1>2, <2>2 DEF Injection, IsInjective, Selects
  <2> QED  BY <2>1, <2>3, FS_Injection
<1>6. Sorted(list) => Sorted(kept)
  <2> SUFFICES ASSUME Sorted(list), NEW k \in 1 .. n, NEW l \in 1 .. n, k < l
               PROVE  TimeOf(kept[k]) <= TimeOf(kept[l])
    BY <1>4 DEF Sorted
  <2>1. order[k] < order[l] /\ order[k] \in DOMAIN list /\ order[l] \in DOMAIN list
    BY <1>1, <1>2 DEF Selects
  <2>2. kept[k] = list[order[k]] /\ kept[l] = list[order[l]]
    BY <1>2 DEF Selects
  <2> QED  BY <2>1, <2>2 DEF Sorted
<1> QED  BY <1>4, <1>5, <1>6

-----------------------------------------------------------------------------
(* Chunks.                                                                 *)

IsChunk(rows) == rows \in Seq(Row) /\ Len(rows) \in 1 .. CHUNK_EVENTS /\ Sorted(rows)

\* The chunks of a day and name, and no message in two rows of them.
AreChunks(stored) ==
  /\ \E n \in Nat : DOMAIN stored \subseteq 1 .. n
  /\ \A n \in DOMAIN stored : IsChunk(stored[n])

Once(stored) ==
  \A n, k \in DOMAIN stored : \A i \in DOMAIN stored[n], j \in DOMAIN stored[k] :
    stored[n][i].message = stored[k][j].message => n = k /\ i = j

LEMMA RowsOfChunks ==
  ASSUME NEW stored, NEW row
  PROVE  row \in RowsIn(stored) <=> \E n \in DOMAIN stored : \E i \in DOMAIN stored[n] : row = stored[n][i]
<1>1. \A place : place \in Places(stored) <=>
        \E n \in DOMAIN stored : \E i \in DOMAIN stored[n] : place = <<n, i>>
  <2>1. \A n \in DOMAIN stored : \A place :
          place \in {n} \X DOMAIN stored[n] <=> \E i \in DOMAIN stored[n] : place = <<n, i>>
    OBVIOUS
  <2> QED  BY <2>1 DEF Places
<1>2. row \in RowsIn(stored) <=> \E place \in Places(stored) : row = stored[place[1]][place[2]]
  BY DEF RowsIn, RowAt
<1>3. ASSUME row \in RowsIn(stored)
      PROVE  \E n \in DOMAIN stored : \E i \in DOMAIN stored[n] : row = stored[n][i]
  <2>1. PICK place \in Places(stored) : row = stored[place[1]][place[2]]
    BY <1>2, <1>3
  <2>2. PICK n \in DOMAIN stored : \E i \in DOMAIN stored[n] : place = <<n, i>>
    BY <1>1
  <2> QED  BY <2>1, <2>2
<1>4. ASSUME NEW n \in DOMAIN stored, NEW i \in DOMAIN stored[n], row = stored[n][i]
      PROVE  row \in RowsIn(stored)
  <2>1. <<n, i>> \in Places(stored)
    BY <1>1
  <2>2. row = stored[<<n, i>>[1]][<<n, i>>[2]]
    BY <1>4
  <2> QED  BY <1>2, <2>1, <2>2
<1> QED  BY <1>3, <1>4

\* each_slice and with_index: no row is lost, and none is in two slices.
LEMMA SlicesFacts ==
  ASSUME NEW rows \in Seq(Row), Len(rows) > 0, Sorted(rows), Distinct(rows),
         NEW seq \in Nat \ {0}, NEW slices, slices = Slices(rows, seq)
  PROVE  /\ AreChunks(slices) /\ Once(slices)
         /\ seq \in DOMAIN slices /\ \A n \in DOMAIN slices : n >= seq
         /\ \A x : x \in RowsIn(slices) <=> x \in Range(rows)
<1> PICK m : m = Len(rows)
  OBVIOUS
<1> PICK c : c = CHUNK_EVENTS
  OBVIOUS
<1>1. m \in Nat \ {0} /\ c \in Nat \ {0} /\ DOMAIN rows = 1 .. m /\ m - 1 \in Nat
  BY MatrixAssumption
<1> PICK last : last = (m - 1) \div c
  OBVIOUS
<1>2. last \in Nat /\ last * c <= m - 1
  <2>1. last \in Nat /\ (m - 1) % c \in 0 .. c - 1 /\ m - 1 = last * c + ((m - 1) % c)
    BY <1>1, Quotient
  <2>2. last * c \in Int
    BY <1>1, <2>1
  <2> QED  BY <1>1, <2>1, <2>2
<1>3. DOMAIN slices = seq .. seq + last
  BY DEF Slices
<1> DEFINE before(n) == Before(n, seq, c)
           end(n) == Least({before(n) + c, m})
<1>4. \A n \in DOMAIN slices :
        /\ n \in Nat \ {0} /\ before(n) \in Nat /\ before(n) < m
        /\ end(n) \in Nat /\ end(n) <= m /\ before(n) < end(n) /\ end(n) <= before(n) + c
        /\ end(n) = m \/ end(n) = before(n) + c
        /\ slices[n] = SubSeq(rows, before(n) + 1, end(n))
  <2> TAKE n \in DOMAIN slices
  <2>1. n \in Nat \ {0} /\ n - seq \in 0 .. last
    BY <1>2, <1>3
  <2>2. before(n) \in Nat /\ before(n) <= last * c
    BY <1>1, <1>2, <2>1 DEF Before
  <2>3. before(n) < m /\ last * c \in Int
    BY <1>1, <1>2, <2>2
  <2>4. {before(n) + c, m} \in SUBSET Nat /\ {before(n) + c, m} # {}
    BY <1>1, <2>2
  <2>5. end(n) \in {before(n) + c, m} /\ end(n) <= before(n) + c /\ end(n) <= m
    <3> HIDE DEF before
    <3> QED  BY <2>4, LeastIsLeast
  <2>6. slices[n] = SubSeq(rows, before(n) + 1, end(n))
    BY <1>3 DEF Slices, Before
  <2> HIDE DEF before
  <2> QED  BY <1>1, <2>1, <2>2, <2>3, <2>5, <2>6
<1> HIDE DEF before, end
<1>5. \A n \in DOMAIN slices :
        /\ slices[n] \in Seq(Row) /\ Len(slices[n]) = end(n) - before(n)
        /\ DOMAIN slices[n] = 1 .. end(n) - before(n)
        /\ \A i \in DOMAIN slices[n] : before(n) + i \in 1 .. m /\ slices[n][i] = rows[before(n) + i]
  <2> TAKE n \in DOMAIN slices
  <2> PICK low : low = before(n)
    OBVIOUS
  <2> PICK high : high = end(n)
    OBVIOUS
  <2>1. low \in Nat /\ high \in Nat /\ low < high /\ high <= m /\ slices[n] = SubSeq(rows, low + 1, high)
    BY <1>4
  <2>2. \A i \in low + 1 .. high : i \in 1 .. Len(rows)
    BY <2>1
  <2>3. slices[n] \in Seq(Row) /\ Len(slices[n]) = high - low
        /\ \A i \in 1 .. high - low : slices[n][i] = rows[low + i]
    BY <1>1, <2>1
  <2>4. DOMAIN slices[n] = 1 .. high - low
    BY <2>1, <2>3
  <2>5. \A i \in 1 .. high - low : low + i \in 1 .. m
    BY <1>1, <2>1
  <2> QED  BY <2>3, <2>4, <2>5
<1>a. \A n \in DOMAIN slices :
        /\ n - seq \in Nat /\ n \in Nat /\ before(n) \in Nat
        /\ \A i \in DOMAIN slices[n] : i \in 1 .. c /\ i - 1 \in 0 .. c - 1
  <2> TAKE n \in DOMAIN slices
  <2> PICK low : low = before(n)
    OBVIOUS
  <2> PICK high : high = end(n)
    OBVIOUS
  <2>1. low \in Nat /\ high \in Nat /\ high <= low + c /\ DOMAIN slices[n] = 1 .. high - low
    BY <1>4, <1>5
  <2>2. \A i \in 1 .. high - low : i \in 1 .. c /\ i - 1 \in 0 .. c - 1
    BY <1>1, <2>1
  <2>3. n - seq \in Nat /\ n \in Nat
    BY <1>2, <1>3
  <2> QED  BY <2>1, <2>2, <2>3
<1>6. AreChunks(slices)
  <2>1. DOMAIN slices \subseteq 1 .. seq + last
    BY <1>2, <1>3
  <2>2. \A n \in DOMAIN slices : Len(slices[n]) \in 1 .. CHUNK_EVENTS
    BY <1>1, <1>4, <1>5
  <2>3. \A n \in DOMAIN slices : Sorted(slices[n])
    <3> SUFFICES ASSUME NEW n \in DOMAIN slices, NEW i \in DOMAIN slices[n],
                        NEW j \in DOMAIN slices[n], i < j
                 PROVE  TimeOf(slices[n][i]) <= TimeOf(slices[n][j])
      BY DEF Sorted
    <3>1. before(n) + i \in 1 .. m /\ before(n) + j \in 1 .. m /\ before(n) + i < before(n) + j
      <4>1. before(n) + i \in 1 .. m /\ before(n) + j \in 1 .. m
        BY <1>5
      <4>2. before(n) \in Nat
        BY <1>4
      <4>3. DOMAIN slices[n] = 1 .. end(n) - before(n)
        BY <1>5
      <4>4. i \in Int /\ j \in Int
        BY <4>3
      <4> QED  BY <4>1, <4>2, <4>4
    <3>2. TimeOf(rows[before(n) + i]) <= TimeOf(rows[before(n) + j])
      BY <1>1, <3>1 DEF Sorted
    <3> QED  BY <1>5, <3>2
  <2>4. seq + last \in Nat
    BY <1>2
  <2> QED  BY <1>5, <2>1, <2>2, <2>3, <2>4 DEF AreChunks, IsChunk
<1>7. Once(slices)
  <2> SUFFICES ASSUME NEW n \in DOMAIN slices, NEW k \in DOMAIN slices,
                      NEW i \in DOMAIN slices[n], NEW j \in DOMAIN slices[k],
                      slices[n][i].message = slices[k][j].message
               PROVE  n = k /\ i = j
    BY DEF Once
  <2>1. before(n) + i = before(k) + j
    BY <1>1, <1>5 DEF Distinct
  <2>2. n \in Nat /\ k \in Nat /\ n - seq \in Nat /\ k - seq \in Nat
    BY <1>a
  <2>3. i \in 1 .. c /\ j \in 1 .. c
    BY <1>a
  <2>4. Before(n, seq, c) + i = Before(k, seq, c) + j
    BY <2>1 DEF before
  <2> QED  BY <1>1, <2>2, <2>3, <2>4, OneStretch
<1>8. \A x \in RowsIn(slices) : x \in Range(rows)
  <2> TAKE x \in RowsIn(slices)
  <2>1. PICK n \in DOMAIN slices : \E i \in DOMAIN slices[n] : x = slices[n][i]
    BY RowsOfChunks
  <2>2. PICK i \in DOMAIN slices[n] : x = slices[n][i]
    BY <2>1
  <2>3. before(n) + i \in DOMAIN rows /\ x = rows[before(n) + i]
    BY <1>1, <1>5, <2>2
  <2> QED  BY <2>3 DEF Range
<1>9. \A x \in Range(rows) : x \in RowsIn(slices)
  <2> TAKE x \in Range(rows)
  <2>1. PICK p \in 1 .. m : x = rows[p]
    BY <1>1 DEF Range
  <2> PICK q : q = (p - 1) \div c
    OBVIOUS
  <2> PICK r : r = (p - 1) % c
    OBVIOUS
  <2>a. p - 1 \in Nat
    BY <1>1
  <2>2. q \in Nat /\ r \in 0 .. c - 1 /\ p - 1 = q * c + r /\ p - 1 \in Nat
    BY <1>1, <2>a, Quotient
  <2>3. q <= last
    <3>1. q * c <= m - 1 /\ q * c \in Int
      BY <1>1, <2>2
    <3>2. q <= (m - 1) \div c
      BY <1>1, <2>2, <3>1
    <3> QED  BY <3>2
  <2>4. seq + q \in DOMAIN slices /\ before(seq + q) = q * c
    BY <1>2, <1>3, <2>2, <2>3 DEF before, Before
  <2>5. r + 1 \in DOMAIN slices[seq + q]
    <3>1. before(seq + q) + (r + 1) = p
      BY <1>1, <2>2, <2>4
    <3> PICK low : low = before(seq + q)
      OBVIOUS
    <3> PICK high : high = end(seq + q)
      OBVIOUS
    <3>2. /\ low \in Nat /\ high \in Nat /\ (high = m \/ high = low + c)
          /\ DOMAIN slices[seq + q] = 1 .. high - low
      BY <1>4, <1>5, <2>4
    <3>3. r + 1 <= high - low /\ r + 1 \in Nat
      <4>1. /\ r \in Nat /\ r < c /\ c \in Nat /\ m \in Nat /\ p \in Nat /\ p <= m
            /\ low + (r + 1) = p
        BY <1>1, <2>2, <3>1
      <4> QED  BY <3>2, <4>1, WithinSlice
    <3> QED  BY <2>2, <3>2, <3>3
  <2>6. slices[seq + q][r + 1] = rows[p]
    <3>1. before(seq + q) + (r + 1) = p
      BY <1>1, <2>2, <2>4
    <3> QED  BY <1>5, <2>4, <2>5, <3>1
  <2> QED  BY <2>1, <2>4, <2>5, <2>6, RowsOfChunks
<1>10. seq \in DOMAIN slices /\ \A n \in DOMAIN slices : n >= seq
  BY <1>2, <1>3
<1> QED  BY <1>6, <1>7, <1>8, <1>9, <1>10

\* upsert_all: chunks that are written anew take the places of old ones.
LEMMA UpsertedFacts ==
  ASSUME NEW stored, AreChunks(stored), Once(stored),
         NEW slices, AreChunks(slices), Once(slices),
         \A n \in DOMAIN stored \ DOMAIN slices : \A i \in DOMAIN stored[n], x \in RowsIn(slices) :
           stored[n][i].message # x.message,
         NEW all, all = Upserted(stored, slices)
  PROVE  /\ AreChunks(all) /\ Once(all)
         /\ \A x : x \in RowsIn(all) <=>
              \/ x \in RowsIn(slices)
              \/ \E n \in DOMAIN stored \ DOMAIN slices : \E i \in DOMAIN stored[n] : x = stored[n][i]
<1>1. /\ DOMAIN all = DOMAIN stored \union DOMAIN slices
      /\ \A n \in DOMAIN all : \/ n \in DOMAIN slices /\ all[n] = slices[n]
                               \/ n \in DOMAIN stored \ DOMAIN slices /\ all[n] = stored[n]
      /\ \A n \in DOMAIN slices : n \in DOMAIN all /\ all[n] = slices[n]
      /\ \A n \in DOMAIN stored \ DOMAIN slices : n \in DOMAIN all /\ all[n] = stored[n]
  BY DEF Upserted
<1>2. AreChunks(all)
  <2>1. PICK n \in Nat : DOMAIN stored \subseteq 1 .. n
    BY DEF AreChunks
  <2>2. PICK k \in Nat : DOMAIN slices \subseteq 1 .. k
    BY DEF AreChunks
  <2>3. DOMAIN all \subseteq 1 .. n + k /\ n + k \in Nat
    BY <1>1, <2>1, <2>2
  <2>4. \A l \in DOMAIN all : IsChunk(all[l])
    BY <1>1 DEF AreChunks
  <2> QED  BY <2>3, <2>4 DEF AreChunks
<1>3. \A n \in DOMAIN slices : \A i \in DOMAIN slices[n] : slices[n][i] \in RowsIn(slices)
  BY RowsOfChunks
<1>4. Once(all)
  <2> SUFFICES ASSUME NEW n \in DOMAIN all, NEW k \in DOMAIN all,
                      NEW i \in DOMAIN all[n], NEW j \in DOMAIN all[k],
                      all[n][i].message = all[k][j].message
               PROVE  n = k /\ i = j
    BY DEF Once
  <2>1. CASE n \in DOMAIN slices /\ k \in DOMAIN slices
    BY <1>1, <2>1 DEF Once
  <2>2. CASE n \in DOMAIN stored \ DOMAIN slices /\ k \in DOMAIN stored \ DOMAIN slices
    BY <1>1, <2>2 DEF Once
  <2>3. CASE n \in DOMAIN stored \ DOMAIN slices /\ k \in DOMAIN slices
    BY <1>1, <1>3, <2>3
  <2>4. CASE n \in DOMAIN slices /\ k \in DOMAIN stored \ DOMAIN slices
    BY <1>1, <1>3, <2>4
  <2> QED  BY <1>1, <2>1, <2>2, <2>3, <2>4
<1>5. ASSUME NEW x, x \in RowsIn(all)
      PROVE  \/ x \in RowsIn(slices)
             \/ \E n \in DOMAIN stored \ DOMAIN slices : \E i \in DOMAIN stored[n] : x = stored[n][i]
  <2>1. PICK n \in DOMAIN all : \E i \in DOMAIN all[n] : x = all[n][i]
    BY <1>5, RowsOfChunks
  <2>2. CASE n \in DOMAIN slices
    BY <1>1, <1>3, <2>1, <2>2
  <2>3. CASE n \in DOMAIN stored \ DOMAIN slices
    BY <1>1, <2>1, <2>3
  <2> QED  BY <1>1, <2>2, <2>3
<1>6. ASSUME NEW x, x \in RowsIn(slices)
      PROVE  x \in RowsIn(all)
  <2>1. PICK n \in DOMAIN slices : \E i \in DOMAIN slices[n] : x = slices[n][i]
    BY <1>6, RowsOfChunks
  <2>2. n \in DOMAIN all /\ \E i \in DOMAIN all[n] : x = all[n][i]
    BY <1>1, <2>1
  <2> QED  BY <2>2, RowsOfChunks
<1>7. ASSUME NEW n \in DOMAIN stored \ DOMAIN slices, NEW i \in DOMAIN stored[n]
      PROVE  stored[n][i] \in RowsIn(all)
  <2>1. n \in DOMAIN all /\ i \in DOMAIN all[n] /\ stored[n][i] = all[n][i]
    BY <1>1
  <2> QED  BY <2>1, RowsOfChunks
<1> QED  BY <1>2, <1>4, <1>5, <1>6, <1>7

LEMMA Concatenated ==
  ASSUME NEW rows \in Seq(Row), NEW more \in Seq(Row), Distinct(rows), Distinct(more),
         \A x \in Range(rows), y \in Range(more) : x.message # y.message,
         NEW both, both = rows \o more
  PROVE  /\ both \in Seq(Row) /\ Len(both) = Len(rows) + Len(more) /\ Distinct(both)
         /\ \A x : x \in Range(both) <=> x \in Range(rows) \/ x \in Range(more)
<1> PICK n : n = Len(rows)
  OBVIOUS
<1> PICK m : m = Len(more)
  OBVIOUS
<1>1. /\ n \in Nat /\ m \in Nat /\ DOMAIN rows = 1 .. n /\ DOMAIN more = 1 .. m
      /\ both \in Seq(Row) /\ Len(both) = n + m /\ DOMAIN both = 1 .. n + m
  OBVIOUS
<1>2. \A i \in 1 .. n + m : both[i] = IF i <= n THEN rows[i] ELSE more[i - n]
  BY <1>1
<1>3. \A i \in 1 .. n : i \in 1 .. n + m /\ both[i] = rows[i] /\ rows[i] \in Range(rows)
  <2> TAKE i \in 1 .. n
  <2>1. i \in 1 .. n + m /\ i <= n
    BY <1>1
  <2>2. both[i] = rows[i]
    BY <1>2, <2>1
  <2>3. rows[i] \in Range(rows)
    BY <1>1 DEF Range
  <2> QED  BY <2>1, <2>2, <2>3
<1>4. \A i \in 1 .. m : n + i \in 1 .. n + m /\ both[n + i] = more[i] /\ more[i] \in Range(more)
  <2> TAKE i \in 1 .. m
  <2>1. n + i \in 1 .. n + m /\ ~ (n + i <= n) /\ (n + i) - n = i
    BY <1>1
  <2>2. both[n + i] = more[i]
    BY <1>2, <2>1
  <2>3. more[i] \in Range(more)
    BY <1>1 DEF Range
  <2> QED  BY <2>1, <2>2, <2>3
<1>5. \A i \in 1 .. n + m : i \in 1 .. n \/ \E k \in 1 .. m : i = n + k
  <2> TAKE i \in 1 .. n + m
  <2>1. CASE i <= n
    BY <1>1, <2>1
  <2>2. CASE i > n
    <3>1. i - n \in 1 .. m /\ i = n + (i - n)
      BY <1>1, <2>2
    <3> QED  BY <3>1
  <2> QED  BY <1>1, <2>1, <2>2
<1>6. Distinct(both)
  <2> SUFFICES ASSUME NEW i \in 1 .. n + m, NEW j \in 1 .. n + m, both[i].message = both[j].message
               PROVE  i = j
    BY <1>1 DEF Distinct
  <2>1. CASE i \in 1 .. n /\ j \in 1 .. n
    BY <1>1, <1>3, <2>1 DEF Distinct
  <2>2. ASSUME NEW k \in 1 .. m, i = n + k, NEW l \in 1 .. m, j = n + l
        PROVE  i = j
    <3>1. more[k].message = more[l].message
      BY <1>4, <2>2
    <3>2. k = l
      BY <1>1, <3>1 DEF Distinct
    <3> QED  BY <2>2, <3>2
  <2>3. ASSUME NEW k \in 1 .. m, i = n + k, j \in 1 .. n
        PROVE  FALSE
    BY <1>3, <1>4, <2>3
  <2>4. ASSUME NEW k \in 1 .. m, j = n + k, i \in 1 .. n
        PROVE  FALSE
    BY <1>3, <1>4, <2>4
  <2> QED  BY <1>5, <2>1, <2>2, <2>3, <2>4
<1>7. \A x \in Range(both) : x \in Range(rows) \/ x \in Range(more)
  <2> TAKE x \in Range(both)
  <2>1. PICK i \in 1 .. n + m : x = both[i]
    BY <1>1 DEF Range
  <2> QED  BY <1>3, <1>4, <1>5, <2>1
<1>8. \A x \in Range(rows) : x \in Range(both)
  BY <1>1, <1>3 DEF Range
<1>9. \A x \in Range(more) : x \in Range(both)
  <2> TAKE x \in Range(more)
  <2>1. PICK i \in 1 .. m : x = more[i]
    BY <1>1 DEF Range
  <2>2. n + i \in DOMAIN both /\ both[n + i] = x
    BY <1>1, <1>4, <2>1
  <2> QED  BY <2>2 DEF Range
<1> QED  BY <1>1, <1>6, <1>7, <1>8, <1>9

\* The chunks of a list of rows, in order of time.
LEMMA SlicesInOrder ==
  ASSUME NEW rows \in Seq(Row), Len(rows) > 0, Distinct(rows), NEW seq \in Nat \ {0},
         NEW slices, slices = Slices(InTimeOrder(rows), seq)
  PROVE  /\ AreChunks(slices) /\ Once(slices)
         /\ seq \in DOMAIN slices /\ \A n \in DOMAIN slices : n >= seq
         /\ \A x : x \in RowsIn(slices) <=> x \in Range(rows)
<1> PICK sorted : sorted = InTimeOrder(rows)
  OBVIOUS
<1>1. sorted \in Seq(Row) /\ Len(sorted) = Len(rows) /\ Range(sorted) = Range(rows)
  BY TimeOrder
<1>2. Sorted(sorted) /\ Distinct(sorted)
  BY TimeOrder
<1>3. slices = Slices(sorted, seq) /\ Len(sorted) > 0
  BY <1>1
<1>4. AreChunks(slices) /\ Once(slices)
  BY <1>1, <1>2, <1>3, SlicesFacts
<1>5. seq \in DOMAIN slices /\ \A n \in DOMAIN slices : n >= seq
  BY <1>1, <1>2, <1>3, SlicesFacts
<1>6. \A x : x \in RowsIn(slices) <=> x \in Range(sorted)
  BY <1>1, <1>2, <1>3, SlicesFacts
<1> QED  BY <1>1, <1>4, <1>5, <1>6

\* A group of rows is appended: to a last chunk that is not full, or after it.
LEMMA AppendedFacts ==
  ASSUME NEW stored, AreChunks(stored), Once(stored),
         NEW rows \in Seq(Row), Len(rows) > 0, Distinct(rows),
         \A x \in RowsIn(stored), y \in Range(rows) : x.message # y.message,
         NEW appended, appended = Appended(stored, rows)
  PROVE  /\ AreChunks(appended) /\ Once(appended)
         /\ \A x : x \in RowsIn(appended) <=> x \in RowsIn(stored) \/ x \in Range(rows)
<1>1. CASE DOMAIN stored = {}
  <2>1. appended = Slices(InTimeOrder(rows), 1)
    BY <1>1 DEF Appended
  <2>2. \A x : x \notin RowsIn(stored)
    BY <1>1, RowsOfChunks
  <2>3. AreChunks(appended) /\ Once(appended)
    BY <2>1, SlicesInOrder
  <2>4. \A x : x \in RowsIn(appended) <=> x \in Range(rows)
    BY <2>1, SlicesInOrder
  <2> QED  BY <2>2, <2>3, <2>4
<1>2. CASE DOMAIN stored # {}
  <2> PICK last : last = Greatest(DOMAIN stored)
    OBVIOUS
  <2>1. last \in Nat \ {0} /\ last \in DOMAIN stored /\ \A n \in DOMAIN stored : n \in Nat /\ n <= last
    <3>1. PICK n \in Nat : DOMAIN stored \subseteq 1 .. n
      BY DEF AreChunks
    <3>2. last \in DOMAIN stored /\ \A k \in DOMAIN stored : k <= last
      BY <1>2, <3>1, GreatestIsGreatest
    <3> QED  BY <3>1, <3>2
  <2>2. \A n \in DOMAIN stored : \A i \in DOMAIN stored[n] : stored[n][i] \in RowsIn(stored)
    BY RowsOfChunks
  <2>3. CASE Len(stored[last]) < CHUNK_EVENTS
    <3> PICK old : old = stored[last]
      OBVIOUS
    <3> PICK both : both = old \o rows
      OBVIOUS
    <3> PICK slices : slices = Slices(InTimeOrder(both), last)
      OBVIOUS
    <3>1. appended = Upserted(stored, slices)
      BY <1>2, <2>3 DEF Appended
    <3>2. old \in Seq(Row) /\ Len(old) >= 1
      BY <2>1 DEF AreChunks, IsChunk
    <3>3. Distinct(old) /\ \A x \in Range(old) : x \in RowsIn(stored)
      BY <2>1, <2>2 DEF Once, Distinct, Range
    <3>4. both \in Seq(Row) /\ Len(both) = Len(old) + Len(rows) /\ Distinct(both)
      BY <3>2, <3>3, Concatenated
    <3>5. \A x : x \in Range(both) <=> x \in Range(old) \/ x \in Range(rows)
      BY <3>2, <3>3, Concatenated
    <3>6. Len(both) > 0
      BY <3>2, <3>4
    <3>7. AreChunks(slices) /\ Once(slices)
      BY <2>1, <3>4, <3>6, SlicesInOrder
    <3>8. last \in DOMAIN slices /\ \A n \in DOMAIN slices : n >= last
      BY <2>1, <3>4, <3>6, SlicesInOrder
    <3>9. \A x : x \in RowsIn(slices) <=> x \in Range(both)
      BY <2>1, <3>4, <3>6, SlicesInOrder
    <3>10. \A n \in DOMAIN stored : n \in DOMAIN slices <=> n = last
      <4> TAKE n \in DOMAIN stored
      <4>1. n \in DOMAIN slices => n >= last /\ n <= last /\ n \in Nat /\ last \in Nat
        BY <2>1, <3>8
      <4> QED  BY <3>8, <4>1
    <3>11. \A n \in DOMAIN stored \ DOMAIN slices : \A i \in DOMAIN stored[n], x \in RowsIn(slices) :
             stored[n][i].message # x.message
      <4> TAKE n \in DOMAIN stored \ DOMAIN slices
      <4> TAKE i \in DOMAIN stored[n], x \in RowsIn(slices)
      <4>1. n # last
        BY <3>10
      <4>2. CASE x \in Range(rows)
        BY <2>2, <4>2
      <4>3. CASE x \in Range(old)
        <5>1. PICK j \in DOMAIN stored[last] : x = stored[last][j]
          BY <4>3 DEF Range
        <5> QED  BY <2>1, <4>1, <5>1 DEF Once
      <4> QED  BY <3>5, <3>9, <4>2, <4>3
    <3>12. AreChunks(appended) /\ Once(appended)
      BY <3>1, <3>7, <3>11, UpsertedFacts
    <3>13. \A x : x \in RowsIn(appended) <=>
             \/ x \in RowsIn(slices)
             \/ \E n \in DOMAIN stored \ DOMAIN slices : \E i \in DOMAIN stored[n] : x = stored[n][i]
      BY <3>1, <3>7, <3>11, UpsertedFacts
    <3>14. ASSUME NEW x, x \in RowsIn(stored)
           PROVE  x \in RowsIn(appended)
      <4>1. PICK n \in DOMAIN stored : \E i \in DOMAIN stored[n] : x = stored[n][i]
        BY <3>14, RowsOfChunks
      <4>2. CASE n = last
        BY <3>5, <3>9, <3>13, <4>1, <4>2 DEF Range
      <4>3. CASE n # last
        BY <3>10, <3>13, <4>1, <4>3
      <4> QED  BY <4>2, <4>3
    <3>15. \A x \in RowsIn(appended) : x \in RowsIn(stored) \/ x \in Range(rows)
      BY <2>2, <3>3, <3>5, <3>9, <3>13
    <3>16. \A x \in Range(rows) : x \in RowsIn(appended)
      BY <3>5, <3>9, <3>13
    <3> QED  BY <3>12, <3>14, <3>15, <3>16
  <2>4. CASE ~ (Len(stored[last]) < CHUNK_EVENTS)
    <3> PICK slices : slices = Slices(InTimeOrder(rows), last + 1)
      OBVIOUS
    <3>1. appended = Upserted(stored, slices) /\ last + 1 \in Nat \ {0}
      BY <1>2, <2>1, <2>4 DEF Appended
    <3>2. AreChunks(slices) /\ Once(slices)
      BY <3>1, SlicesInOrder
    <3>3. \A n \in DOMAIN slices : n >= last + 1
      BY <3>1, SlicesInOrder
    <3>4. \A x : x \in RowsIn(slices) <=> x \in Range(rows)
      BY <3>1, SlicesInOrder
    <3>5. \A n \in DOMAIN stored : n \notin DOMAIN slices
      <4> TAKE n \in DOMAIN stored
      <4>1. n <= last /\ n \in Nat /\ last \in Nat
        BY <2>1
      <4>2. n \in DOMAIN slices => n >= last + 1
        BY <3>3
      <4> QED  BY <4>1, <4>2
    <3>6. \A n \in DOMAIN stored \ DOMAIN slices : \A i \in DOMAIN stored[n], x \in RowsIn(slices) :
            stored[n][i].message # x.message
      BY <2>2, <3>4
    <3>7. AreChunks(appended) /\ Once(appended)
      BY <3>1, <3>2, <3>6, UpsertedFacts
    <3>8. \A x : x \in RowsIn(appended) <=>
             \/ x \in RowsIn(slices)
             \/ \E n \in DOMAIN stored \ DOMAIN slices : \E i \in DOMAIN stored[n] : x = stored[n][i]
      BY <3>1, <3>2, <3>6, UpsertedFacts
    <3>9. ASSUME NEW x, x \in RowsIn(stored)
          PROVE  x \in RowsIn(appended)
      <4>1. PICK n \in DOMAIN stored : \E i \in DOMAIN stored[n] : x = stored[n][i]
        BY <3>9, RowsOfChunks
      <4> QED  BY <3>5, <3>8, <4>1
    <3> QED  BY <2>2, <3>4, <3>7, <3>8, <3>9
  <2> QED  BY <2>3, <2>4
<1> QED  BY <1>1, <1>2

\* The rows of a chunk without those of an actor.
LEMMA WithoutFacts ==
  ASSUME NEW rows \in Seq(Row), NEW i, NEW kept, kept = Without(rows, i)
  PROVE  /\ kept \in Seq(Row) /\ Len(kept) <= Len(rows)
         /\ Sorted(rows) => Sorted(kept)
         /\ Distinct(rows) => Distinct(kept)
         /\ \A x : x \in Range(kept) <=> x \in Range(rows) /\ x.actor # i
<1> PICK S : S = {n \in DOMAIN rows : rows[n].actor # i}
  OBVIOUS
<1>1. S \in SUBSET (DOMAIN rows) /\ kept = Kept(rows, S)
  BY DEF Without
<1>2. kept \in Seq(Row)
  BY <1>1, KeptRows
<1>3. Len(kept) <= Len(rows)
  BY <1>1, KeptRows
<1>4. Sorted(rows) => Sorted(kept)
  BY <1>1, KeptRows
<1>5. Distinct(rows) => Distinct(kept)
  BY <1>1, KeptRows
<1>6. \A x : x \in Range(kept) <=> \E n \in S : x = rows[n]
  BY <1>1, KeptRows
<1>7. \A x : (\E n \in S : x = rows[n]) <=> x \in Range(rows) /\ x.actor # i
  BY DEF Range
<1> QED  BY <1>2, <1>3, <1>4, <1>5, <1>6, <1>7

\* Once says of one chunk that it is Distinct, and of two that they share no
\* message.
LEMMA OnceByRange ==
  ASSUME NEW stored
  PROVE  Once(stored) <=>
           /\ \A n \in DOMAIN stored : Distinct(stored[n])
           /\ \A n, k \in DOMAIN stored : n # k =>
                \A x \in Range(stored[n]), y \in Range(stored[k]) : x.message # y.message
<1>1. ASSUME Once(stored)
      PROVE  \A n \in DOMAIN stored : Distinct(stored[n])
  BY <1>1 DEF Once, Distinct
<1>2. ASSUME Once(stored), NEW n \in DOMAIN stored, NEW k \in DOMAIN stored, n # k,
             NEW x \in Range(stored[n]), NEW y \in Range(stored[k])
      PROVE  x.message # y.message
  <2>1. PICK i \in DOMAIN stored[n] : x = stored[n][i]
    BY DEF Range
  <2>2. PICK j \in DOMAIN stored[k] : y = stored[k][j]
    BY DEF Range
  <2> QED  BY <1>2, <2>1, <2>2 DEF Once
<1>3. ASSUME \A n \in DOMAIN stored : Distinct(stored[n]),
             \A n, k \in DOMAIN stored : n # k =>
               \A x \in Range(stored[n]), y \in Range(stored[k]) : x.message # y.message
      PROVE  Once(stored)
  <2> SUFFICES ASSUME NEW n \in DOMAIN stored, NEW k \in DOMAIN stored,
                      NEW i \in DOMAIN stored[n], NEW j \in DOMAIN stored[k],
                      stored[n][i].message = stored[k][j].message
               PROVE  n = k /\ i = j
    BY DEF Once
  <2>1. stored[n][i] \in Range(stored[n]) /\ stored[k][j] \in Range(stored[k])
    BY DEF Range
  <2>2. n = k
    BY <1>3, <2>1
  <2> QED  BY <1>3, <2>2 DEF Distinct
<1> QED  BY <1>1, <1>2, <1>3

LEMMA RowsByRange ==
  ASSUME NEW stored
  PROVE  \A x : x \in RowsIn(stored) <=> \E n \in DOMAIN stored : x \in Range(stored[n])
BY RowsOfChunks DEF Range

\* Erasure takes the rows of one actor, and the chunks that are left empty.
LEMMA ForgottenFacts ==
  ASSUME NEW stored, AreChunks(stored), Once(stored), NEW i,
         NEW left, left = Forgotten(stored, i)
  PROVE  /\ AreChunks(left) /\ Once(left)
         /\ \A x : x \in RowsIn(left) <=> x \in RowsIn(stored) /\ x.actor # i
<1>1. /\ \A n : n \in DOMAIN left <=> n \in DOMAIN stored /\ Without(stored[n], i) # << >>
      /\ \A n \in DOMAIN left : left[n] = Without(stored[n], i)
  BY DEF Forgotten
<1>2. \A n \in DOMAIN stored : stored[n] \in Seq(Row) /\ Len(stored[n]) \in 1 .. CHUNK_EVENTS
                               /\ Sorted(stored[n])
  BY DEF AreChunks, IsChunk
<1>3. ASSUME NEW n \in DOMAIN stored, NEW kept, kept = Without(stored[n], i)
      PROVE  /\ kept \in Seq(Row) /\ Len(kept) <= Len(stored[n]) /\ Sorted(kept)
             /\ \A x : x \in Range(kept) <=> x \in Range(stored[n]) /\ x.actor # i
  <2>1. kept \in Seq(Row)
    BY <1>2, <1>3, WithoutFacts
  <2>2. Len(kept) <= Len(stored[n])
    BY <1>2, <1>3, WithoutFacts
  <2>3. Sorted(kept)
    BY <1>2, <1>3, WithoutFacts
  <2>4. \A x : x \in Range(kept) <=> x \in Range(stored[n]) /\ x.actor # i
    BY <1>2, <1>3, WithoutFacts
  <2> QED  BY <2>1, <2>2, <2>3, <2>4
<1>4. AreChunks(left)
  <2>1. PICK n \in Nat : DOMAIN stored \subseteq 1 .. n
    BY DEF AreChunks
  <2>2. DOMAIN left \subseteq 1 .. n
    BY <1>1, <2>1
  <2>3. ASSUME NEW k \in DOMAIN left
        PROVE  IsChunk(left[k])
    <3>1. k \in DOMAIN stored /\ left[k] = Without(stored[k], i) /\ left[k] # << >>
      BY <1>1
    <3>2. left[k] \in Seq(Row) /\ Len(left[k]) <= Len(stored[k]) /\ Sorted(left[k])
      BY <1>3, <3>1
    <3>3. Len(left[k]) \in 1 .. CHUNK_EVENTS
      <4>1. Len(left[k]) \in Nat /\ Len(left[k]) # 0
        BY <3>1, <3>2, EmptySeq
      <4>2. Len(stored[k]) \in 1 .. CHUNK_EVENTS /\ CHUNK_EVENTS \in Nat
        BY <1>2, <3>1, MatrixAssumption
      <4> QED  BY <3>2, <4>1, <4>2
    <3> QED  BY <3>2, <3>3 DEF IsChunk
  <2> QED  BY <2>1, <2>2, <2>3 DEF AreChunks
<1>5. Once(left)
  <2>1. /\ \A n \in DOMAIN stored : Distinct(stored[n])
        /\ \A n, k \in DOMAIN stored : n # k =>
             \A x \in Range(stored[n]), y \in Range(stored[k]) : x.message # y.message
    BY OnceByRange
  <2>2. ASSUME NEW n \in DOMAIN left
        PROVE  Distinct(left[n])
    <3>1. n \in DOMAIN stored /\ left[n] = Without(stored[n], i)
      BY <1>1
    <3> QED  BY <1>2, <2>1, <3>1, WithoutFacts
  <2>3. \A n \in DOMAIN left : n \in DOMAIN stored /\ \A x \in Range(left[n]) : x \in Range(stored[n])
    BY <1>1, <1>3
  <2> QED  BY <2>1, <2>2, <2>3, OnceByRange
<1>6. ASSUME NEW x, x \in RowsIn(left)
      PROVE  x \in RowsIn(stored) /\ x.actor # i
  <2>1. PICK n \in DOMAIN left : x \in Range(left[n])
    BY <1>6, RowsByRange
  <2>2. n \in DOMAIN stored /\ x \in Range(stored[n]) /\ x.actor # i
    BY <1>1, <1>3, <2>1
  <2> QED  BY <2>2, RowsByRange
<1>7. ASSUME NEW x, x \in RowsIn(stored), x.actor # i
      PROVE  x \in RowsIn(left)
  <2>1. PICK n \in DOMAIN stored : x \in Range(stored[n])
    BY <1>7, RowsByRange
  <2>2. x \in Range(Without(stored[n], i))
    BY <1>3, <1>7, <2>1
  <2>3. Without(stored[n], i) # << >>
    BY <2>2 DEF Range
  <2>4. n \in DOMAIN left /\ x \in Range(left[n])
    BY <1>1, <2>2, <2>3
  <2> QED  BY <2>4, RowsByRange
<1> QED  BY <1>4, <1>5, <1>6, <1>7

-----------------------------------------------------------------------------
(* The calendar.                                                           *)

LEMMA Associative == ASSUME NEW q \in Nat, NEW a \in Nat, NEW b \in Nat
                     PROVE  (q * a) * b = q * (a * b)
OBVIOUS

LEMMA Products == \A p, q, y \in Nat : q * y \in Nat /\ (p < q => q * y >= p * y + y)
<1> TAKE p, q, y \in Nat
<1>1. q * y \in Nat
  OBVIOUS
<1>2. ASSUME p < q
      PROVE  q * y >= p * y + y
  <2>1. PICK k \in Nat : q = p + 1 + k
    <3>1. q - p - 1 \in Nat /\ q = p + 1 + (q - p - 1)
      BY <1>2
    <3> QED  BY <3>1
  <2>2. q * y = p * y + y + k * y
    BY <2>1
  <2>3. k * y \in Nat /\ p * y \in Nat
    OBVIOUS
  <2> QED  BY <2>2, <2>3
<1> QED  BY <1>1, <1>2

LEMMA Calendar ==
  ASSUME NEW d \in Nat
  PROVE  /\ DayAt(BitOf(d)) = d
         /\ BitOf(d)[1] = YearOf(d) /\ BitOf(d)[2] = YearDay(d)
<1> PICK y : y = MonthDays * YearMonths
  OBVIOUS
<1>1. MonthDays \in Nat \ {0} /\ YearMonths \in Nat \ {0} /\ y \in Nat \ {0}
  BY MatrixAssumption
<1> PICK q : q = d \div y
  OBVIOUS
<1> PICK r : r = d % y
  OBVIOUS
<1>2. q \in Nat /\ r \in 0 .. y - 1 /\ d = q * y + r
  BY <1>1, Quotient
<1>3. BitOf(d) = <<q, r + 1>> /\ YearOf(d) = q /\ YearDay(d) = r + 1
  BY DEF BitOf, YearOf, YearDay
<1>4. (q * MonthDays) * YearMonths = q * (MonthDays * YearMonths)
  <2>1. MonthDays \in Nat /\ YearMonths \in Nat /\ q \in Nat
    BY <1>1, <1>2
  <2> QED  BY <2>1, Associative, Zenon
<1>5. DayAt(BitOf(d)) = (q * MonthDays) * YearMonths + (r + 1) - 1
  BY <1>3 DEF DayAt, NewYear
<1>6. q * y \in Nat
  BY <1>1, <1>2, Products
<1> PICK start : start = q * y
  OBVIOUS
<1>7. start \in Nat /\ d = start + r /\ DayAt(BitOf(d)) = start + (r + 1) - 1
  BY <1>2, <1>4, <1>5, <1>6
<1>8. DayAt(BitOf(d)) = d
  BY <1>2, <1>7
<1> QED  BY <1>3, <1>8

LEMMA SameStart ==
  \A n, r, s, d, e \in Nat : d = n + r /\ e = n + s => (d >= e <=> r >= s)
OBVIOUS

\* Years are compared first, then days of a year.
LEMMA LaterDay ==
  ASSUME NEW d \in Nat, NEW e \in Nat
  PROVE  (YearOf(d) > YearOf(e) \/ (YearOf(d) = YearOf(e) /\ YearDay(d) >= YearDay(e))) <=> d >= e
<1> PICK y : y = MonthDays * YearMonths
  OBVIOUS
<1>1. y \in Nat \ {0}
  BY MatrixAssumption
<1> PICK q : q = d \div y
  OBVIOUS
<1> PICK r : r = d % y
  OBVIOUS
<1> PICK p : p = e \div y
  OBVIOUS
<1> PICK s : s = e % y
  OBVIOUS
<1>2. q \in Nat /\ r \in 0 .. y - 1 /\ d = q * y + r
  BY <1>1, Quotient
<1>3. p \in Nat /\ s \in 0 .. y - 1 /\ e = p * y + s
  BY <1>1, Quotient
<1>4. YearOf(d) = q /\ YearDay(d) = r + 1 /\ YearOf(e) = p /\ YearDay(e) = s + 1
  BY DEF YearOf, YearDay
<1> PICK start : start = q * y
  OBVIOUS
<1> PICK other : other = p * y
  OBVIOUS
<1>5. start \in Nat /\ other \in Nat /\ d = start + r /\ e = other + s
  BY <1>1, <1>2, <1>3, Products
<1>9. q \in Nat /\ p \in Nat /\ r \in 0 .. y - 1 /\ s \in 0 .. y - 1
  BY <1>2, <1>3
<1>6. CASE q = p
  <2>1. start = other
    BY <1>6
  <2>2. d >= e <=> r >= s
    <3>1. start \in Nat /\ r \in Nat /\ s \in Nat /\ d = start + r /\ e = start + s /\ d \in Nat /\ e \in Nat
      BY <1>1, <1>5, <1>9, <2>1
    <3> QED  BY <3>1, SameStart
  <2> QED  BY <1>4, <1>6, <1>9, <2>2
<1>7. CASE q > p
  <2>1. start >= other + y
    BY <1>1, <1>2, <1>3, <1>7, Products
  <2>2. d >= e
    BY <1>1, <1>5, <1>9, <2>1
  <2> QED  BY <1>4, <1>7, <2>2
<1>8. CASE p > q
  <2>1. other >= start + y
    BY <1>1, <1>2, <1>3, <1>8, Products
  <2>2. ~ (d >= e)
    BY <1>1, <1>5, <1>9, <2>1
  <2>3. ~ (q > p) /\ q # p
    BY <1>8, <1>9
  <2> QED  BY <1>4, <2>2, <2>3
<1> QED  BY <1>6, <1>7, <1>8, <1>9

LEMMA MonthStarts ==
  ASSUME NEW d \in Nat, NEW month \in Nat
  PROVE  FirstDay(month) \in Nat /\ (MonthOf(d) >= month <=> d >= FirstDay(month))
<1> PICK y : y = MonthDays
  OBVIOUS
<1>1. y \in Nat \ {0}
  BY MatrixAssumption
<1> PICK q : q = d \div y
  OBVIOUS
<1> PICK r : r = d % y
  OBVIOUS
<1>2. q \in Nat /\ r \in 0 .. y - 1 /\ d = q * y + r
  BY <1>1, Quotient
<1>3. MonthOf(d) = q /\ FirstDay(month) = month * y
  BY DEF MonthOf, FirstDay
<1>4. month * y \in Nat /\ q * y \in Nat
  BY <1>1, <1>2
<1>5. CASE q >= month
  <2>1. q * y >= month * y
    BY <1>1, <1>2, <1>5
  <2> QED  BY <1>1, <1>2, <1>3, <1>4, <1>5, <2>1
<1>6. CASE q < month
  <2>1. month * y >= q * y + y
    BY <1>1, <1>2, <1>6
  <2> QED  BY <1>1, <1>2, <1>3, <1>4, <1>6, <2>1
<1> QED  BY <1>2, <1>5, <1>6

-----------------------------------------------------------------------------
(* The dictionary of actors.                                               *)

Actor == [external : Range(ExternalOf) \union {Erased}, first : Nat]

\* Only erased actors share a name.
OneName(as) ==
  \A i, k \in DOMAIN as : as[i].external = as[k].external /\ as[i].external # Erased => i = k

LEMMA EventFacts ==
  /\ \A m \in Messages : ExternalOf[m] \in Range(ExternalOf) /\ ExternalOf[m] # Erased
                         /\ DayOf[m] \in Nat /\ PairOf(m) \in Pairs /\ PairOf(m)[1] = DayOf[m]
  /\ ANONYMOUS # Erased
<1>1. ASSUME NEW m \in Messages
      PROVE  ExternalOf[m] \in Range(ExternalOf) /\ ExternalOf[m] # Erased
  BY MatrixAssumption DEF Range
<1>2. ASSUME NEW m \in Messages
      PROVE  DayOf[m] \in Nat /\ PairOf(m) \in Pairs /\ PairOf(m)[1] = DayOf[m]
  BY MatrixAssumption DEF PairOf, Pairs
<1> QED  BY <1>1, <1>2 DEF ANONYMOUS, Erased

LEMMA IdIsUnique ==
  ASSUME NEW as, OneName(as), NEW i \in DOMAIN as, as[i].external # Erased
  PROVE  IdOf(as, as[i].external) = i
BY DEF OneName, IdOf

\* SetToSeq lists a finite set.
LEMMA Listed ==
  ASSUME NEW S, IsFiniteSet(S), NEW list, list = SetToSeq(S)
  PROVE  /\ list \in Seq(S) /\ \A i, k \in DOMAIN list : list[i] = list[k] => i = k
         /\ \A x : x \in S => \E i \in DOMAIN list : list[i] = x
<1> PICK n : n = Cardinality(S)
  OBVIOUS
<1>1. n \in Nat /\ ExistsBijection(1 .. n, S)
  BY FS_CardinalityType
<1>2. \E f \in [1 .. n -> S] : IsInjective(f)
  BY <1>1 DEF ExistsBijection, Bijection, Injection, IsInjective
<1>3. list \in [1 .. n -> S] /\ IsInjective(list)
  BY <1>2 DEF SetToSeq
<1>4. list \in Injection(1 .. n, S)
  BY <1>3 DEF Injection
<1>5. IsFiniteSet(1 .. n) /\ Cardinality(1 .. n) = n
  BY <1>1, CountTo
<1>6. list \in Surjection(1 .. n, S)
  BY <1>4, <1>5, FS_Injection
<1>7. list \in Seq(S)
  BY <1>1, <1>3
<1> QED  BY <1>3, <1>6, <1>7 DEF IsInjective, Surjection

LEMMA Externals ==
  ASSUME NEW page \in Seq(Messages), NEW present, present = {ExternalOf[m] : m \in Range(page)}
  PROVE  IsFiniteSet(present)
<1> PICK n : n = Len(page)
  OBVIOUS
<1>1. n \in Nat /\ page \in [1 .. n -> Messages]
  OBVIOUS
<1>2. IsFiniteSet(1 .. n)
  BY <1>1, CountTo
<1> DEFINE f == [i \in 1 .. n |-> ExternalOf[page[i]]]
<1>3. f \in [1 .. n -> present]
  BY <1>1 DEF Range
<1>4. \A e \in present : \E i \in 1 .. n : f[i] = e
  BY <1>1 DEF Range
<1>5. f \in Surjection(1 .. n, present)
  BY <1>3, <1>4 DEF Surjection
<1> QED  BY <1>2, <1>5, FS_Surjection

\* What registering the actors of a page makes of the dictionary.
Registers(as, page) ==
  /\ as \in Seq(Actor) /\ OneName(as)
  /\ \A i \in DOMAIN actors : /\ i \in DOMAIN as /\ as[i].external = actors[i].external
                              /\ as[i].first <= actors[i].first
  /\ \A i \in DOMAIN as \ DOMAIN actors : as[i].external # Erased /\ as[i].external \notin Known(actors)
  /\ \A m \in Range(page) : as[IdOf(as, ExternalOf[m])].external = ExternalOf[m]
                            /\ IdOf(as, ExternalOf[m]) \in DOMAIN as
  /\ \A m \in Range(page), i \in DOMAIN as :
       as[i].external = ExternalOf[m] => as[i].first <= DayOf[m]

LEMMA RegisteredFacts ==
  ASSUME actors \in Seq(Actor), OneName(actors), NEW page \in Seq(Messages),
         NEW as, as = Registered(page)
  PROVE  Registers(as, page)
<1>a. PICK present : present = {ExternalOf[m] : m \in Range(page)}
  OBVIOUS
<1>b. PICK missing : missing = SetToSeq(present \ Known(actors))
  OBVIOUS
<1> DEFINE first(e) == Least({DayOf[m] : m \in {k \in Range(page) : ExternalOf[k] = e}})
           old == [i \in DOMAIN actors |->
                     IF actors[i].external \in present
                     THEN [actors[i] EXCEPT !.first = Least({@, first(actors[i].external)})]
                     ELSE actors[i]]
           new == [n \in DOMAIN missing |-> [external |-> missing[n], first |-> first(missing[n])]]
<1>c. PICK n : n = Len(actors)
  OBVIOUS
<1>d. PICK k : k = Len(missing)
  OBVIOUS
<1>1. as = old \o new
  BY <1>a, <1>b DEF Registered
<1>2. \A m \in Range(page) : m \in Messages
  BY DEF Range
<1>3. \A e \in present : /\ first(e) \in Nat /\ e \in Range(ExternalOf) /\ e # Erased
                         /\ \A m \in Range(page) : ExternalOf[m] = e => first(e) <= DayOf[m]
  <2> TAKE e \in present
  <2> DEFINE days == {DayOf[m] : m \in {l \in Range(page) : ExternalOf[l] = e}}
  <2>1. days \in SUBSET Nat /\ days # {} /\ e \in Range(ExternalOf) /\ e # Erased
    BY <1>2, <1>a, EventFacts
  <2>2. first(e) \in days /\ \A d \in days : first(e) <= d
    <3> HIDE DEF days
    <3>1. Least(days) \in days /\ \A d \in days : Least(days) <= d
      BY <2>1, LeastIsLeast
    <3> QED  BY <3>1 DEF days
  <2> QED  BY <2>1, <2>2
<1>4. /\ missing \in Seq(present \ Known(actors)) /\ k \in Nat /\ DOMAIN missing = 1 .. k
      /\ \A i, l \in 1 .. k : missing[i] = missing[l] => i = l
      /\ \A x : x \in present \ Known(actors) => \E i \in 1 .. k : missing[i] = x
  <2>1. IsFiniteSet(present)
    BY <1>a, Externals
  <2>a. PICK S : S = present \ Known(actors)
    OBVIOUS
  <2>2. IsFiniteSet(S)
    BY <2>1, <2>a, FS_Subset
  <2>3. missing \in Seq(S)
    BY <1>b, <2>a, <2>2, Listed
  <2>4. \A i, l \in DOMAIN missing : missing[i] = missing[l] => i = l
    BY <1>b, <2>a, <2>2, Listed
  <2>5. \A x : x \in S => \E i \in DOMAIN missing : missing[i] = x
    BY <1>b, <2>a, <2>2, Listed
  <2>6. k \in Nat /\ DOMAIN missing = 1 .. k
    BY <1>d, <2>3
  <2> QED  BY <2>a, <2>3, <2>4, <2>5, <2>6
<1>5. \A i \in 1 .. k : missing[i] \in present /\ missing[i] \notin Known(actors)
  BY <1>4
<1> HIDE DEF first
<1>6. n \in Nat /\ DOMAIN actors = 1 .. n /\ \A i \in 1 .. n : actors[i] \in Actor
  BY <1>c
<1>7. \A i \in 1 .. n : /\ old[i] \in Actor /\ old[i].external = actors[i].external
                        /\ old[i].first <= actors[i].first
                        /\ actors[i].external \in present => old[i].first <= first(actors[i].external)
  <2> TAKE i \in 1 .. n
  <2>1. /\ actors[i] = [external |-> actors[i].external, first |-> actors[i].first]
        /\ actors[i].external \in Range(ExternalOf) \union {Erased} /\ actors[i].first \in Nat
    BY <1>6 DEF Actor
  <2>2. CASE actors[i].external \in present
    <3> PICK both : both = {actors[i].first, first(actors[i].external)}
      OBVIOUS
    <3>1. both \in SUBSET Nat /\ both # {}
      BY <1>3, <2>1, <2>2
    <3>2. Least(both) \in both /\ \A d \in both : Least(both) <= d
      BY <3>1, LeastIsLeast
    <3>3. old[i] = [external |-> actors[i].external, first |-> Least(both)]
      BY <1>6, <2>1, <2>2
    <3>4. Least(both) \in Nat /\ Least(both) <= actors[i].first
          /\ Least(both) <= first(actors[i].external)
      BY <3>1, <3>2
    <3> QED  BY <2>1, <3>3, <3>4 DEF Actor
  <2>3. CASE actors[i].external \notin present
    BY <1>6, <2>1, <2>3
  <2> QED  BY <2>2, <2>3
<1>8. \A i \in 1 .. k : /\ new[i] \in Actor /\ new[i].external = missing[i]
                        /\ new[i].first = first(missing[i])
  BY <1>3, <1>4, <1>5 DEF Actor
<1>9. old \in Seq(Actor) /\ Len(old) = n /\ new \in Seq(Actor) /\ Len(new) = k
  <2>1. old \in [1 .. n -> Actor]
    <3>1. old = [i \in 1 .. n |-> old[i]]
      BY <1>6
    <3> QED  BY <1>7, <3>1
  <2>2. new \in [1 .. k -> Actor]
    <3>1. new = [i \in 1 .. k |-> new[i]]
      BY <1>4
    <3> QED  BY <1>8, <3>1
  <2> HIDE DEF old, new
  <2>3. n \in Nat /\ k \in Nat
    BY <1>4, <1>6
  <2>4. old \in Seq(Actor) /\ Len(old) = n
    BY <2>1, <2>3
  <2>5. new \in Seq(Actor) /\ Len(new) = k
    BY <2>2, <2>3
  <2> QED  BY <2>4, <2>5
<1> HIDE DEF old, new
<1>10. as \in Seq(Actor) /\ DOMAIN as = 1 .. n + k /\ (\A i \in 1 .. n + k : as[i] \in Actor)
       /\ \A i \in 1 .. n + k : as[i] = IF i <= n THEN old[i] ELSE new[i - n]
  <2>1. n \in Nat /\ k \in Nat
    BY <1>4, <1>6
  <2>2. as \in Seq(Actor) /\ Len(as) = n + k
    <3>1. as \in Seq(Actor) /\ Len(as) = Len(old) + Len(new)
      BY <1>1, <1>9, ConcatProperties
    <3> QED  BY <1>9, <3>1
  <2>3. DOMAIN as = 1 .. n + k
    BY <2>1, <2>2
  <2>4. \A i \in 1 .. n + k : as[i] = IF i <= n THEN old[i] ELSE new[i - n]
    BY <1>1, <1>9, <2>1
  <2>5. \A i \in 1 .. n + k : as[i] \in Actor
    BY <2>2, <2>3
  <2> QED  BY <2>2, <2>3, <2>4, <2>5
<1>11. \A i \in 1 .. n : i \in 1 .. n + k /\ as[i] = old[i]
  BY <1>4, <1>6, <1>10
<1>12. \A i \in 1 .. k : n + i \in 1 .. n + k /\ n + i \notin 1 .. n /\ as[n + i] = new[i]
  <2> TAKE i \in 1 .. k
  <2>1. n + i \in 1 .. n + k /\ ~ (n + i <= n) /\ (n + i) - n = i
    BY <1>4, <1>6
  <2> QED  BY <1>6, <1>10, <2>1
<1>13. \A i \in 1 .. n + k : i \in 1 .. n \/ \E l \in 1 .. k : i = n + l
  <2> TAKE i \in 1 .. n + k
  <2>1. CASE i <= n
    BY <1>4, <1>6, <2>1
  <2>2. CASE i > n
    <3>1. i - n \in 1 .. k /\ i = n + (i - n)
      BY <1>4, <1>6, <2>2
    <3> QED  BY <3>1
  <2> QED  BY <1>4, <1>6, <2>1, <2>2
<1>14. OneName(as)
  <2> SUFFICES ASSUME NEW i \in 1 .. n + k, NEW j \in 1 .. n + k,
                      as[i].external = as[j].external, as[i].external # Erased
               PROVE  i = j
    BY <1>10 DEF OneName
  <2>1. CASE i \in 1 .. n /\ j \in 1 .. n
    BY <1>6, <1>7, <1>11, <2>1 DEF OneName
  <2>2. \A a \in 1 .. n : as[a].external \in Known(actors)
    BY <1>6, <1>7, <1>11 DEF Known
  <2>3. \A a \in 1 .. k : as[n + a].external = missing[a] /\ as[n + a].external \notin Known(actors)
    BY <1>5, <1>8, <1>12
  <2>4. ASSUME NEW a \in 1 .. k, i = n + a, NEW b \in 1 .. k, j = n + b
        PROVE  i = j
    <3>1. missing[a] = missing[b]
      BY <2>3, <2>4
    <3>2. a = b
      BY <1>4, <3>1
    <3> QED  BY <2>4, <3>2
  <2> QED  BY <1>13, <2>1, <2>2, <2>3, <2>4
<1>15. \A i \in DOMAIN actors : /\ i \in DOMAIN as /\ as[i].external = actors[i].external
                                /\ as[i].first <= actors[i].first
  BY <1>6, <1>7, <1>10, <1>11
<1>16. \A i \in DOMAIN as \ DOMAIN actors :
         as[i].external # Erased /\ as[i].external \notin Known(actors)
  BY <1>3, <1>5, <1>6, <1>8, <1>10, <1>12, <1>13
<1>17. ASSUME NEW m \in Range(page)
       PROVE  as[IdOf(as, ExternalOf[m])].external = ExternalOf[m]
              /\ IdOf(as, ExternalOf[m]) \in DOMAIN as
  <2>1. \E i \in DOMAIN as : as[i].external = ExternalOf[m]
    <3>a. ExternalOf[m] \in present
      BY <1>a
    <3>1. CASE ExternalOf[m] \in Known(actors)
      BY <1>15, <3>1 DEF Known
    <3>2. CASE ExternalOf[m] \notin Known(actors)
      <4>1. PICK i \in 1 .. k : missing[i] = ExternalOf[m]
        BY <1>4, <3>2, <3>a
      <4> QED  BY <1>8, <1>10, <1>12, <4>1
    <3> QED  BY <3>1, <3>2
  <2> QED  BY <2>1 DEF IdOf
<1>18. ASSUME NEW m \in Range(page), NEW i \in 1 .. n + k, as[i].external = ExternalOf[m]
       PROVE  as[i].first <= DayOf[m]
  <2>1. as[i].external \in present /\ first(as[i].external) <= DayOf[m]
        /\ first(as[i].external) \in Nat /\ DayOf[m] \in Nat
    BY <1>a, <1>2, <1>3, <1>18, EventFacts
  <2>2. as[i].first \in Nat
    <3>1. as[i] \in Actor
      BY <1>10
    <3> QED  BY <3>1 DEF Actor
  <2>3. CASE i \in 1 .. n
    <3>1. as[i].first <= first(as[i].external)
      BY <1>7, <1>11, <2>1, <2>3
    <3> QED  BY <2>1, <2>2, <3>1
  <2>4. ASSUME NEW l \in 1 .. k, i = n + l
        PROVE  as[i].first <= first(as[i].external)
    <3>1. as[i].external = missing[l] /\ as[i].first = first(missing[l])
      BY <1>8, <1>12, <2>4
    <3> QED  BY <2>1, <3>1
  <2> QED  BY <1>13, <2>1, <2>2, <2>3, <2>4
<1> QED  BY <1>10, <1>14, <1>15, <1>16, <1>17, <1>18 DEF Registers

-----------------------------------------------------------------------------
(* A page.                                                                 *)

LEMMA Listing ==
  ASSUME NEW T, NEW n \in Nat, NEW list \in [1 .. n -> T]
  PROVE  list \in Seq(T)
OBVIOUS

LEMMA PageFacts ==
  ASSUME waiting \in Seq(Messages), IsInjective(waiting), NEW page, page = Page,
         NEW rest, rest = SubSeq(waiting, Len(page) + 1, Len(waiting))
  PROVE  /\ page \in Seq(Messages) /\ IsInjective(page)
         /\ rest \in Seq(Messages) /\ IsInjective(rest)
         /\ \A m : m \in Range(page) => m \in Range(waiting)
         /\ \A m : m \in Range(rest) => m \in Range(waiting) /\ m \notin Range(page)
<1> PICK n : n = Len(waiting)
  OBVIOUS
<1>a. PICK k : k = Least({ROTATION_PAGE, n})
  OBVIOUS
<1>1. n \in Nat /\ DOMAIN waiting = 1 .. n /\ k \in Nat /\ k <= n
  <2>1. {ROTATION_PAGE, n} \in SUBSET Nat /\ {ROTATION_PAGE, n} # {}
    BY MatrixAssumption
  <2>2. k \in {ROTATION_PAGE, n} /\ k <= n
    BY <1>a, <2>1, LeastIsLeast
  <2> QED  BY <2>1, <2>2
<1>2. page = SubSeq(waiting, 1, k)
  BY <1>a DEF Page
<1>3. page \in Seq(Messages) /\ Len(page) = k /\ \A i \in 1 .. k : page[i] = waiting[i]
  BY <1>1, <1>2
<1>4. rest \in Seq(Messages) /\ Len(rest) = n - k /\ \A i \in 1 .. n - k : rest[i] = waiting[k + i]
  BY <1>1, <1>3
<1>5. DOMAIN page = 1 .. k /\ DOMAIN rest = 1 .. n - k
  BY <1>1, <1>3, <1>4
<1>6. \A i \in 1 .. k : i \in 1 .. n
  BY <1>1
<1>7. \A i \in 1 .. n - k : k + i \in 1 .. n /\ k + i \notin 1 .. k
  BY <1>1
<1>8. \A i, j \in 1 .. n : waiting[i] = waiting[j] => i = j
  BY <1>1 DEF IsInjective
<1>9. IsInjective(page)
  BY <1>3, <1>5, <1>6, <1>8 DEF IsInjective
<1>10. IsInjective(rest)
  <2> SUFFICES ASSUME NEW i \in 1 .. n - k, NEW j \in 1 .. n - k, rest[i] = rest[j]
               PROVE  i = j
    BY <1>5 DEF IsInjective
  <2>1. k + i = k + j
    BY <1>4, <1>7, <1>8
  <2> QED  BY <1>1, <2>1
<1>11. \A m \in Range(page) : \E i \in 1 .. k : m = waiting[i]
  BY <1>3, <1>5 DEF Range
<1>12. \A m \in Range(rest) : \E i \in 1 .. n : i \notin 1 .. k /\ m = waiting[i]
  BY <1>4, <1>5, <1>7 DEF Range
<1>13. \A m \in Range(page) : m \in Range(waiting)
  BY <1>1, <1>6, <1>11 DEF Range
<1>14. \A m \in Range(rest) : m \in Range(waiting)
  BY <1>1, <1>12 DEF Range
<1>15. \A m \in Range(rest) : m \notin Range(page)
  BY <1>6, <1>8, <1>11, <1>12
<1> QED  BY <1>3, <1>4, <1>9, <1>10, <1>13, <1>14, <1>15

\* Rows are those of the events of a page for a day and name.
AreRowsFor(rows, page, as, p) ==
  \A x : x \in Range(rows) <=>
    \E m \in Range(page) : PairOf(m) = p /\ x = [message |-> m, actor |-> IdOf(as, ExternalOf[m])]

LEMMA RowsForFacts ==
  ASSUME NEW page \in Seq(Messages), IsInjective(page), NEW as, NEW p,
         \A m \in Range(page) : IdOf(as, ExternalOf[m]) \in Nat \ {0},
         NEW rows, rows = RowsFor(page, as, p)
  PROVE  rows \in Seq(Row) /\ Distinct(rows) /\ AreRowsFor(rows, page, as, p)
<1>a. PICK S : S = {i \in DOMAIN page : PairOf(page[i]) = p}
  OBVIOUS
<1>b. PICK group : group = Kept(page, S)
  OBVIOUS
<1>1. S \in SUBSET (DOMAIN page)
  BY <1>a
<1>2. group \in Seq(Messages)
  BY <1>1, <1>b, KeptRows
<1>3. \A m : m \in Range(group) <=> \E i \in S : m = page[i]
  BY <1>1, <1>b, KeptRows
<1>4. IsInjective(group)
  BY <1>1, <1>b, KeptRows
<1>5. \A m : m \in Range(group) <=> m \in Range(page) /\ PairOf(m) = p
  BY <1>a, <1>3 DEF Range
<1> DEFINE row(m) == [message |-> m, actor |-> IdOf(as, ExternalOf[m])]
<1>6. rows = [n \in DOMAIN group |-> row(group[n])]
  BY <1>a, <1>b DEF RowsFor
<1>7. \A n \in DOMAIN group : /\ group[n] \in Range(group) /\ group[n] \in Messages
                              /\ row(group[n]) \in Row /\ row(group[n]).message = group[n]
  <2> TAKE n \in DOMAIN group
  <2>1. group[n] \in Range(group) /\ group[n] \in Messages
    BY <1>2 DEF Range
  <2>2. IdOf(as, ExternalOf[group[n]]) \in Nat \ {0}
    BY <1>5, <2>1
  <2> QED  BY <2>1, <2>2 DEF Row
<1> HIDE DEF row
<1>8. rows \in Seq(Row)
  <2>1. PICK n \in Nat : DOMAIN group = 1 .. n
    BY <1>2
  <2>2. rows \in [1 .. n -> Row]
    BY <1>6, <1>7, <2>1
  <2> QED  BY <2>2, Listing
<1>9. DOMAIN rows = DOMAIN group /\ \A n \in DOMAIN group : rows[n] = row(group[n])
  BY <1>6
<1>10. Distinct(rows)
  <2> SUFFICES ASSUME NEW n \in DOMAIN group, NEW k \in DOMAIN group, rows[n].message = rows[k].message
               PROVE  n = k
    BY <1>9 DEF Distinct
  <2>1. group[n] = group[k]
    BY <1>7, <1>9
  <2> QED  BY <1>4, <2>1 DEF IsInjective
<1>11. \A x : x \in Range(rows) <=> \E m \in Range(group) : x = row(m)
  BY <1>9 DEF Range
<1>12. \A x : x \in Range(rows) <=> \E m \in Range(page) : PairOf(m) = p /\ x = row(m)
  BY <1>5, <1>11
<1> QED  BY <1>8, <1>10, <1>12 DEF row, AreRowsFor

\* A message is in one row of the chunks it is in.
LEMMA Copies ==
  ASSUME NEW stored, Once(stored), NEW m
  PROVE  Cardinality({place \in Places(stored) : RowAt(stored, place).message = m})
           = IF \E r \in RowsIn(stored) : r.message = m THEN 1 ELSE 0
<1> DEFINE places == {place \in Places(stored) : RowAt(stored, place).message = m}
<1>1. \A place : place \in Places(stored) <=>
        \E n \in DOMAIN stored : \E i \in DOMAIN stored[n] : place = <<n, i>>
  <2>1. \A n \in DOMAIN stored : \A place :
          place \in {n} \X DOMAIN stored[n] <=> \E i \in DOMAIN stored[n] : place = <<n, i>>
    OBVIOUS
  <2> QED  BY <2>1 DEF Places
<1>2. \A n, i : RowAt(stored, <<n, i>>) = stored[n][i]
  BY DEF RowAt
<1>3. CASE \E r \in RowsIn(stored) : r.message = m
  <2>1. PICK n \in DOMAIN stored : \E i \in DOMAIN stored[n] : stored[n][i].message = m
    BY <1>3, RowsOfChunks
  <2>2. PICK i \in DOMAIN stored[n] : stored[n][i].message = m
    BY <2>1
  <2>3. <<n, i>> \in places
    BY <1>1, <1>2, <2>2
  <2>4. ASSUME NEW place \in places
        PROVE  place = <<n, i>>
    <3>1. PICK k \in DOMAIN stored : \E j \in DOMAIN stored[k] : place = <<k, j>>
      BY <1>1
    <3>2. PICK j \in DOMAIN stored[k] : place = <<k, j>>
      BY <3>1
    <3>3. stored[k][j].message = stored[n][i].message
      BY <1>2, <2>2, <3>2
    <3>4. k = n /\ j = i
      BY <3>3 DEF Once
    <3> QED  BY <3>2, <3>4
  <2>5. places = {<<n, i>>}
    BY <2>3, <2>4
  <2> QED  BY <1>3, <2>5, FS_Singleton
<1>4. CASE ~ \E r \in RowsIn(stored) : r.message = m
  <2>1. places = {}
    BY <1>4 DEF RowsIn
  <2> QED  BY <1>4, <2>1, FS_EmptySet
<1> QED  BY <1>3, <1>4

\* A recount asks of an actor only whether it is the anonymous one.
LEMMA SameRecount ==
  ASSUME NEW stored, NEW as, NEW others,
         \A r \in RowsIn(stored) :
           (as[r.actor].external # ANONYMOUS) <=> (others[r.actor].external # ANONYMOUS)
  PROVE  Recounted(stored, as) = Recounted(stored, others)
<1>1. {row \in RowsIn(stored) : as[row.actor].external # ANONYMOUS}
        = {row \in RowsIn(stored) : others[row.actor].external # ANONYMOUS}
  OBVIOUS
<1> QED  BY <1>1 DEF Recounted

-----------------------------------------------------------------------------
(* The invariant: everything is said of the events held.                   *)

\* An event waits once, and not when it is held.
QueueRight ==
  /\ arrived \subseteq Messages /\ held \subseteq arrived
  /\ waiting \in Seq(Messages) /\ IsInjective(waiting)
  /\ \A m \in Range(waiting) : m \in arrived /\ m \notin held

HeldOf(p, messages) == {m \in messages : PairOf(m) = p}

\* Chunks have one row of each of these messages, for its actor.
Holds(stored, as, messages) ==
  /\ AreChunks(stored) /\ Once(stored)
  /\ \A r \in RowsIn(stored) : r.message \in messages /\ r.actor \in DOMAIN as
                               /\ as[r.actor].external = ExternalOf[r.message]
  /\ \A m \in messages : \E r \in RowsIn(stored) : r.message = m

ChunksRight ==
  /\ DOMAIN chunks = Pairs
  /\ \A p \in Pairs : Holds(chunks[p], actors, HeldOf(p, held))

ActorsRight ==
  /\ actors \in Seq(Actor) /\ OneName(actors)
  /\ \A m \in held, i \in DOMAIN actors :
       actors[i].external = ExternalOf[m] => actors[i].first <= DayOf[m]

\* An actor has a bit for each day of its events, but the anonymous one.
BitsRight ==
  /\ DOMAIN bits = DOMAIN actors
  /\ \A i \in DOMAIN actors : \A b :
       b \in bits[i] <=> /\ actors[i].external # ANONYMOUS
                         /\ \E m \in held : ExternalOf[m] = actors[i].external /\ b = BitOf(DayOf[m])

CountsRight == \A p \in Pairs : counts[p] = Recounted(chunks[p], actors)

MatrixInv == QueueRight /\ ChunksRight /\ ActorsRight /\ BitsRight /\ CountsRight

LEMMA EmptyChunks ==
  ASSUME NEW as, NEW messages, messages = {}
  PROVE  Holds(<< >>, as, messages) /\ Recounted(<< >>, as) = NoCount
<1>1. DOMAIN << >> = {} /\ \A x : x \notin RowsIn(<< >>)
  <2>1. DOMAIN << >> = {}
    OBVIOUS
  <2> QED  BY <2>1, RowsOfChunks
<1>2. AreChunks(<< >>)
  <2>1. 0 \in Nat /\ DOMAIN << >> \subseteq 1 .. 0
    BY <1>1
  <2> QED  BY <1>1, <2>1 DEF AreChunks
<1>3. Once(<< >>)
  BY <1>1 DEF Once
<1>4. Holds(<< >>, as, messages)
  BY <1>1, <1>2, <1>3 DEF Holds
<1>5. Places(<< >>) = {} /\ RowsIn(<< >>) = {}
  BY <1>1 DEF Places, RowsIn
<1>6. Recounted(<< >>, as) = [events |-> 0, actors |-> 0]
  <2>1. {r.actor : r \in {row \in RowsIn(<< >>) : as[row.actor].external # ANONYMOUS}} = {}
    BY <1>5
  <2> QED  BY <1>5, <2>1, FS_EmptySet DEF Recounted
<1> QED  BY <1>4, <1>6 DEF NoCount

LEMMA MatrixStarts == MatrixInit => MatrixInv
<1> SUFFICES ASSUME MatrixInit PROVE MatrixInv
  OBVIOUS
<1> USE DEF MatrixInit
<1>1. QueueRight
  BY DEF QueueRight, IsInjective, Range
<1>2. ChunksRight
  <2>1. \A p \in Pairs : HeldOf(p, held) = {}
    BY DEF HeldOf
  <2> QED  BY <2>1, EmptyChunks DEF ChunksRight
<1>3. ActorsRight
  BY DEF ActorsRight, OneName
<1>4. BitsRight
  BY DEF BitsRight
<1>5. CountsRight
  BY EmptyChunks DEF CountsRight
<1> QED  BY <1>1, <1>2, <1>3, <1>4, <1>5 DEF MatrixInv

LEMMA IngestKeeps == ASSUME MatrixInv, NEW m \in Messages, Ingest(m) PROVE MatrixInv'
<1> PICK n : n = Len(waiting)
  OBVIOUS
<1>1. /\ m \notin arrived /\ arrived' = arrived \union {m} /\ waiting' = Append(waiting, m)
      /\ UNCHANGED <<chunks, counts, actors, bits, held>>
  BY DEF Ingest
<1>2. QueueRight'
  <2>1. /\ n \in Nat /\ waiting' \in Seq(Messages) /\ DOMAIN waiting = 1 .. n
        /\ DOMAIN waiting' = 1 .. n + 1 /\ waiting'[n + 1] = m
        /\ \A i \in 1 .. n : waiting'[i] = waiting[i]
    BY <1>1 DEF MatrixInv, QueueRight
  <2>2. \A i \in 1 .. n + 1 : i \in 1 .. n \/ i = n + 1
    BY <2>1
  <2>3. \A i \in 1 .. n : waiting[i] \in arrived /\ waiting[i] \notin held /\ waiting[i] # m
    BY <1>1, <2>1 DEF MatrixInv, QueueRight, Range
  <2>4. \A i, j \in 1 .. n : waiting[i] = waiting[j] => i = j
    BY <2>1 DEF MatrixInv, QueueRight, IsInjective
  <2>5. IsInjective(waiting)'
    <3> SUFFICES ASSUME NEW i \in 1 .. n + 1, NEW j \in 1 .. n + 1, waiting'[i] = waiting'[j]
                 PROVE  i = j
      BY <2>1 DEF IsInjective
    <3> QED  BY <2>1, <2>2, <2>3, <2>4
  <2>6. \A x \in Range(waiting)' : x \in arrived' /\ x \notin held'
    <3>1. m \notin held
      BY <1>1 DEF MatrixInv, QueueRight
    <3>2. \A i \in 1 .. n + 1 : waiting'[i] \in arrived' /\ waiting'[i] \notin held'
      BY <1>1, <2>1, <2>2, <2>3, <3>1
    <3> QED  BY <2>1, <3>2 DEF Range
  <2>7. arrived' \subseteq Messages /\ held' \subseteq arrived'
    BY <1>1 DEF MatrixInv, QueueRight
  <2> QED  BY <2>1, <2>5, <2>6, <2>7 DEF QueueRight
<1>3. (ChunksRight /\ ActorsRight /\ BitsRight /\ CountsRight)'
  BY <1>1 DEF MatrixInv, ChunksRight, ActorsRight, BitsRight, CountsRight
<1> QED  BY <1>2, <1>3 DEF MatrixInv

\* What moves neither events nor summaries.
LEMMA JobsKeep ==
  ASSUME MatrixInv, UNCHANGED <<arrived, waiting, chunks, counts, actors, bits, held>>
  PROVE  MatrixInv'
BY DEF MatrixInv, QueueRight, ChunksRight, ActorsRight, BitsRight, CountsRight

\* The days an actor has rows of are those of its events.
LEMMA DaysOfActor ==
  ASSUME MatrixInv, NEW i \in DOMAIN actors
  PROVE  /\ \A p \in Pairs : (\E r \in RowsIn(chunks[p]) : r.actor = i) <=>
              \E m \in HeldOf(p, held) : ExternalOf[m] = actors[i].external
         /\ \A d : d \in DaysIn(i) <=>
              \E m \in held : ExternalOf[m] = actors[i].external /\ DayOf[m] = d
<1>1. \A m \in held : m \in Messages
  BY DEF MatrixInv, QueueRight
<1>2. ASSUME NEW p \in Pairs, NEW r \in RowsIn(chunks[p]), r.actor = i
      PROVE  r.message \in HeldOf(p, held) /\ ExternalOf[r.message] = actors[i].external
  BY <1>2 DEF MatrixInv, ChunksRight, Holds
<1>3. ASSUME NEW p \in Pairs, NEW m \in HeldOf(p, held), ExternalOf[m] = actors[i].external
      PROVE  \E r \in RowsIn(chunks[p]) : r.actor = i
  <2>1. PICK r \in RowsIn(chunks[p]) : r.message = m
    BY DEF MatrixInv, ChunksRight, Holds
  <2>2. r.actor \in DOMAIN actors /\ actors[r.actor].external = ExternalOf[m]
    BY <2>1 DEF MatrixInv, ChunksRight, Holds
  <2>3. ExternalOf[m] # Erased
    BY <1>1, EventFacts DEF HeldOf
  <2>4. r.actor = i
    BY <1>3, <2>2, <2>3 DEF MatrixInv, ActorsRight, OneName
  <2> QED  BY <2>4
<1>4. \A p \in Pairs : (\E r \in RowsIn(chunks[p]) : r.actor = i) <=>
        \E m \in HeldOf(p, held) : ExternalOf[m] = actors[i].external
  BY <1>2, <1>3
<1>5. ASSUME NEW d, d \in DaysIn(i)
      PROVE  \E m \in held : ExternalOf[m] = actors[i].external /\ DayOf[m] = d
  <2>1. PICK p \in Pairs : (\E r \in RowsIn(chunks[p]) : r.actor = i) /\ d = p[1]
    BY <1>5 DEF DaysIn
  <2>2. PICK m \in HeldOf(p, held) : ExternalOf[m] = actors[i].external
    BY <1>4, <2>1
  <2> QED  BY <1>1, <2>1, <2>2, EventFacts DEF HeldOf
<1>6. ASSUME NEW m \in held, ExternalOf[m] = actors[i].external
      PROVE  DayOf[m] \in DaysIn(i)
  <2>1. PairOf(m) \in Pairs /\ PairOf(m)[1] = DayOf[m] /\ m \in HeldOf(PairOf(m), held)
    BY <1>1, EventFacts DEF HeldOf
  <2>2. \E r \in RowsIn(chunks[PairOf(m)]) : r.actor = i
    BY <1>4, <1>6, <2>1
  <2> QED  BY <2>1, <2>2 DEF DaysIn
<1> QED  BY <1>4, <1>5, <1>6

LEMMA ActiveDaysOf ==
  ASSUME MatrixInv, NEW i \in DOMAIN actors
  PROVE  ActiveDays(i) = IF actors[i].external = ANONYMOUS THEN {} ELSE DaysIn(i)
<1>1. \A m \in held : DayOf[m] \in Nat
  BY EventFacts DEF MatrixInv, QueueRight
<1>2. \A b : b \in bits[i] <=> /\ actors[i].external # ANONYMOUS
                               /\ \E m \in held : /\ ExternalOf[m] = actors[i].external
                                                  /\ b = BitOf(DayOf[m])
  BY DEF MatrixInv, BitsRight
<1>3. \A m \in held : DayAt(BitOf(DayOf[m])) = DayOf[m]
  BY <1>1, Calendar
<1>4. \A d : d \in ActiveDays(i) <=> /\ actors[i].external # ANONYMOUS
                                     /\ \E m \in held : ExternalOf[m] = actors[i].external /\ DayOf[m] = d
  <2>1. ASSUME NEW d, d \in ActiveDays(i)
        PROVE  /\ actors[i].external # ANONYMOUS
               /\ \E m \in held : ExternalOf[m] = actors[i].external /\ DayOf[m] = d
    <3>1. PICK b \in bits[i] : d = DayAt(b)
      BY <2>1 DEF ActiveDays
    <3> QED  BY <1>2, <1>3, <3>1
  <2>2. ASSUME actors[i].external # ANONYMOUS, NEW m \in held, ExternalOf[m] = actors[i].external
        PROVE  DayOf[m] \in ActiveDays(i)
    <3>1. BitOf(DayOf[m]) \in bits[i]
      BY <1>2, <2>2
    <3> QED  BY <1>3, <3>1 DEF ActiveDays
  <2> QED  BY <2>1, <2>2
<1>5. \A d : d \in DaysIn(i) <=>
        \E m \in held : ExternalOf[m] = actors[i].external /\ DayOf[m] = d
  BY DaysOfActor
<1> QED  BY <1>4, <1>5

LEMMA Elements ==
  ASSUME NEW T, NEW list \in Seq(T)
  PROVE  \A i \in DOMAIN list : list[i] \in T /\ i \in Nat \ {0}
OBVIOUS

LEMMA AtMost == \A a, b, c \in Nat : a <= b /\ b <= c => a <= c
OBVIOUS

LEMMA RotationKeeps == ASSUME MatrixInv, NEW j \in Jobs, RotatePage(j) PROVE MatrixInv'
<1>a. PICK page : page = Page
  OBVIOUS
<1>b. PICK as : as = Registered(page)
  OBVIOUS
<1>c. PICK touched : touched = {PairOf(m) : m \in Range(page)}
  OBVIOUS
<1>1. /\ chunks' = [p \in Pairs |->
            IF p \in touched THEN Appended(chunks[p], RowsFor(page, as, p)) ELSE chunks[p]]
      /\ actors' = as /\ bits' = Marked(page, as)
      /\ counts' = [p \in Pairs |-> IF p \in touched THEN Recounted(chunks'[p], as) ELSE counts[p]]
      /\ held' = held \union Range(page)
      /\ waiting' = SubSeq(waiting, Len(page) + 1, Len(waiting)) /\ arrived' = arrived
  BY <1>a, <1>b, <1>c DEF RotatePage
<1>2. /\ page \in Seq(Messages) /\ IsInjective(page)
      /\ waiting' \in Seq(Messages) /\ IsInjective(waiting)'
      /\ \A m : m \in Range(page) => m \in Range(waiting)
      /\ \A m : m \in Range(waiting)' => m \in Range(waiting) /\ m \notin Range(page)
  <2>1. waiting \in Seq(Messages) /\ IsInjective(waiting)
    BY DEF MatrixInv, QueueRight
  <2>2. PICK rest : rest = waiting'
    OBVIOUS
  <2>3. page \in Seq(Messages) /\ IsInjective(page)
    BY <1>a, <2>1, PageFacts
  <2>4. rest \in Seq(Messages) /\ IsInjective(rest)
    BY <1>1, <1>a, <2>1, <2>2, PageFacts
  <2>5. \A m : m \in Range(page) => m \in Range(waiting)
    BY <1>a, <2>1, PageFacts
  <2>6. \A m : m \in Range(rest) => m \in Range(waiting) /\ m \notin Range(page)
    BY <1>1, <1>a, <2>1, <2>2, PageFacts
  <2>7. IsInjective(waiting)' /\ \A m : m \in Range(waiting)' => m \in Range(rest)
    BY <2>2, <2>4 DEF IsInjective, Range
  <2> QED  BY <2>2, <2>3, <2>4, <2>5, <2>6, <2>7
<1>3. \A m \in Range(page) : m \in Messages /\ m \in arrived /\ m \notin held
  BY <1>2 DEF MatrixInv, QueueRight
<1>4. Registers(as, page)
  BY <1>2, <1>b, RegisteredFacts DEF MatrixInv, ActorsRight
<1>14. /\ \A i \in DOMAIN as : as[i] \in Actor /\ i \in Nat \ {0}
       /\ \A i \in DOMAIN actors : actors[i] \in Actor
  <2>1. as \in Seq(Actor) /\ actors \in Seq(Actor)
    BY <1>4 DEF Registers, MatrixInv, ActorsRight
  <2>2. \A i \in DOMAIN as : as[i] \in Actor /\ i \in Nat \ {0}
    BY <2>1, Elements
  <2>3. \A i \in DOMAIN actors : actors[i] \in Actor
    BY <2>1, Elements
  <2> QED  BY <2>2, <2>3
<1>15. \A i \in DOMAIN actors : i \in DOMAIN as /\ as[i].external = actors[i].external
  BY <1>4 DEF Registers
<1>5. QueueRight'
  <2>1. held' \subseteq arrived' /\ arrived' \subseteq Messages
    BY <1>1, <1>3 DEF MatrixInv, QueueRight
  <2>2. \A m \in Range(waiting)' : m \in arrived' /\ m \notin held'
    BY <1>1, <1>2 DEF MatrixInv, QueueRight
  <2> QED  BY <1>2, <2>1, <2>2 DEF QueueRight
<1>6. \A m \in held : ExternalOf[m] \in Known(actors) /\ m \in Messages
  <2> TAKE m \in held
  <2>1. m \in Messages
    BY DEF MatrixInv, QueueRight
  <2>2. PICK r \in RowsIn(chunks[PairOf(m)]) : r.message = m
    BY <2>1, EventFacts DEF MatrixInv, ChunksRight, Holds, HeldOf
  <2>3. r.actor \in DOMAIN actors /\ actors[r.actor].external = ExternalOf[m]
    BY <2>1, <2>2, EventFacts DEF MatrixInv, ChunksRight, Holds
  <2> QED  BY <2>1, <2>3 DEF Known
<1>7. ActorsRight'
  <2>1. ASSUME NEW m \in held, NEW i \in DOMAIN as, as[i].external = ExternalOf[m]
        PROVE  as[i].first <= DayOf[m]
    <3>1. i \in DOMAIN actors
      BY <1>4, <1>6, <2>1 DEF Registers
    <3>2. as[i].first <= actors[i].first /\ actors[i].first <= DayOf[m]
      BY <1>4, <2>1, <3>1 DEF Registers, MatrixInv, ActorsRight
    <3>3. as[i].first \in Nat /\ actors[i].first \in Nat /\ DayOf[m] \in Nat
      <4>1. as[i] \in Actor /\ actors[i] \in Actor
        BY <1>14, <2>1, <3>1
      <4> QED  BY <1>6, <4>1, EventFacts DEF Actor
    <3> QED  BY <3>2, <3>3, AtMost
  <2>2. \A m \in held', i \in DOMAIN as : as[i].external = ExternalOf[m] => as[i].first <= DayOf[m]
    BY <1>1, <1>4, <2>1 DEF Registers
  <2> QED  BY <1>1, <1>4, <2>2 DEF Registers, ActorsRight
<1>8. BitsRight'
  <2>1. /\ DOMAIN bits' = DOMAIN as
        /\ \A i \in DOMAIN as : \A b : b \in bits'[i] <=>
             \/ i \in DOMAIN bits /\ b \in bits[i]
             \/ \E m \in Range(page) : /\ ExternalOf[m] = as[i].external /\ ExternalOf[m] # ANONYMOUS
                                       /\ b = BitOf(DayOf[m])
    BY <1>1 DEF Marked
  <2>2. ASSUME NEW i \in DOMAIN as, NEW b
        PROVE  (i \in DOMAIN bits /\ b \in bits[i]) <=>
                 /\ as[i].external # ANONYMOUS
                 /\ \E m \in held : ExternalOf[m] = as[i].external /\ b = BitOf(DayOf[m])
    <3>1. CASE i \in DOMAIN actors
      <4>1. as[i].external = actors[i].external
        BY <1>15, <3>1
      <4>2. i \in DOMAIN bits /\ (b \in bits[i] <=>
              /\ actors[i].external # ANONYMOUS
              /\ \E m \in held : ExternalOf[m] = actors[i].external /\ b = BitOf(DayOf[m]))
        BY <3>1 DEF MatrixInv, BitsRight
      <4> QED  BY <4>1, <4>2
    <3>2. CASE i \notin DOMAIN actors
      <4>1. as[i].external \notin Known(actors)
        BY <1>4, <3>2 DEF Registers
      <4> QED  BY <1>6, <3>2, <4>1 DEF MatrixInv, BitsRight
    <3> QED  BY <3>1, <3>2
  <2>3. \A i \in DOMAIN as : \A b : b \in bits'[i] <=>
          /\ as[i].external # ANONYMOUS
          /\ \E m \in held' : ExternalOf[m] = as[i].external /\ b = BitOf(DayOf[m])
    <3>1. \A m : m \in held' <=> m \in held \/ m \in Range(page)
      BY <1>1
    <3>2. ASSUME NEW i \in DOMAIN as, NEW b, b \in bits'[i]
          PROVE  /\ as[i].external # ANONYMOUS
                 /\ \E m \in held' : ExternalOf[m] = as[i].external /\ b = BitOf(DayOf[m])
      <4>1. CASE i \in DOMAIN bits /\ b \in bits[i]
        <5>1. as[i].external # ANONYMOUS
              /\ \E m \in held : ExternalOf[m] = as[i].external /\ b = BitOf(DayOf[m])
          BY <2>2, <4>1
        <5> QED  BY <3>1, <5>1
      <4>2. CASE \E m \in Range(page) : /\ ExternalOf[m] = as[i].external
                                         /\ ExternalOf[m] # ANONYMOUS /\ b = BitOf(DayOf[m])
        BY <3>1, <4>2
      <4> QED  BY <2>1, <3>2, <4>1, <4>2
    <3>3. ASSUME NEW i \in DOMAIN as, as[i].external # ANONYMOUS, NEW m \in held',
                 ExternalOf[m] = as[i].external
          PROVE  BitOf(DayOf[m]) \in bits'[i]
      <4>1. CASE m \in held
        BY <2>1, <2>2, <3>3, <4>1
      <4>2. CASE m \in Range(page)
        BY <2>1, <3>3, <4>2
      <4> QED  BY <3>1, <4>1, <4>2
    <3> QED  BY <3>2, <3>3
  <2>4. actors' = as /\ DOMAIN bits' = DOMAIN actors'
    BY <1>1, <2>1
  <2>5. \A i \in DOMAIN actors' : \A b : b \in bits'[i] <=>
          /\ actors'[i].external # ANONYMOUS
          /\ \E m \in held' : ExternalOf[m] = actors'[i].external /\ b = BitOf(DayOf[m])
    BY <2>3, <2>4
  <2> QED  BY <2>4, <2>5 DEF BitsRight
<1>9. ASSUME NEW p \in Pairs
      PROVE  Holds(chunks[p], as, HeldOf(p, held))
  <2>1. Holds(chunks[p], actors, HeldOf(p, held))
    BY DEF MatrixInv, ChunksRight
  <2>2. \A i \in DOMAIN actors : i \in DOMAIN as /\ as[i].external = actors[i].external
    BY <1>4 DEF Registers
  <2> QED  BY <2>1, <2>2 DEF Holds
<1>10. ASSUME NEW p \in Pairs, p \in touched
       PROVE  Holds(Appended(chunks[p], RowsFor(page, as, p)), as, HeldOf(p, held'))
  <2>a. PICK rows : rows = RowsFor(page, as, p)
    OBVIOUS
  <2>b. PICK stored : stored = chunks[p]
    OBVIOUS
  <2>c. PICK appended : appended = Appended(stored, rows)
    OBVIOUS
  <2>1. \A m \in Range(page) : IdOf(as, ExternalOf[m]) \in DOMAIN as
                               /\ as[IdOf(as, ExternalOf[m])].external = ExternalOf[m]
    BY <1>4 DEF Registers
  <2>2. \A m \in Range(page) : IdOf(as, ExternalOf[m]) \in Nat \ {0}
    BY <1>14, <2>1
  <2>3. rows \in Seq(Row) /\ Distinct(rows)
    BY <1>2, <2>2, <2>a, RowsForFacts
  <2>4. \A x : x \in Range(rows) <=>
          \E m \in Range(page) : PairOf(m) = p /\ x = [message |-> m, actor |-> IdOf(as, ExternalOf[m])]
    <3>1. AreRowsFor(rows, page, as, p)
      BY <1>2, <2>2, <2>a, RowsForFacts
    <3> QED  BY <3>1 DEF AreRowsFor
  <2>5. Len(rows) > 0
    <3>1. PICK m \in Range(page) : PairOf(m) = p
      BY <1>10, <1>c
    <3>2. PICK x : x \in Range(rows)
      BY <2>4, <3>1
    <3>3. rows # << >>
      BY <3>2 DEF Range
    <3> QED  BY <2>3, <3>3
  <2>6. Holds(stored, as, HeldOf(p, held))
    BY <1>9, <2>b
  <2>7. \A x \in RowsIn(stored), y \in Range(rows) : x.message # y.message
    <3> TAKE x \in RowsIn(stored), y \in Range(rows)
    <3>1. x.message \in held
      BY <2>6 DEF Holds, HeldOf
    <3>2. y.message \in Range(page)
      <4>1. PICK m \in Range(page) : y = [message |-> m, actor |-> IdOf(as, ExternalOf[m])]
        BY <2>4
      <4> QED  BY <4>1
    <3> QED  BY <1>3, <3>1, <3>2
  <2>8. AreChunks(appended) /\ Once(appended)
    BY <2>3, <2>5, <2>6, <2>7, <2>c, AppendedFacts DEF Holds
  <2>9. \A x : x \in RowsIn(appended) <=> x \in RowsIn(stored) \/ x \in Range(rows)
    BY <2>3, <2>5, <2>6, <2>7, <2>c, AppendedFacts DEF Holds
  <2>10. ASSUME NEW r \in RowsIn(appended)
         PROVE  r.message \in HeldOf(p, held') /\ r.actor \in DOMAIN as
                /\ as[r.actor].external = ExternalOf[r.message]
    <3>1. CASE r \in RowsIn(stored)
      BY <1>1, <2>6, <3>1 DEF Holds, HeldOf
    <3>2. CASE r \in Range(rows)
      <4>1. PICK m \in Range(page) : /\ PairOf(m) = p
                                     /\ r = [message |-> m, actor |-> IdOf(as, ExternalOf[m])]
        BY <2>4, <3>2
      <4>2. r.message = m /\ r.actor = IdOf(as, ExternalOf[m])
        BY <4>1
      <4> QED  BY <1>1, <2>1, <4>1, <4>2 DEF HeldOf
    <3> QED  BY <2>9, <3>1, <3>2
  <2>11. ASSUME NEW m \in HeldOf(p, held')
         PROVE  \E r \in RowsIn(appended) : r.message = m
    <3>1. CASE m \in held
      BY <2>6, <2>9, <3>1 DEF Holds, HeldOf
    <3>2. CASE m \in Range(page)
      <4>1. [message |-> m, actor |-> IdOf(as, ExternalOf[m])] \in Range(rows)
        BY <2>4, <3>2 DEF HeldOf
      <4>2. [message |-> m, actor |-> IdOf(as, ExternalOf[m])].message = m
        OBVIOUS
      <4> QED  BY <2>9, <4>1, <4>2
    <3> QED  BY <1>1, <3>1, <3>2 DEF HeldOf
  <2>12. Holds(appended, as, HeldOf(p, held'))
    BY <2>8, <2>10, <2>11 DEF Holds
  <2> QED  BY <2>12, <2>a, <2>b, <2>c
<1>11. ASSUME NEW p \in Pairs, p \notin touched
       PROVE  Holds(chunks[p], as, HeldOf(p, held'))
  <2>1. HeldOf(p, held') = HeldOf(p, held)
    BY <1>1, <1>11, <1>c DEF HeldOf
  <2> QED  BY <1>9, <2>1
<1>12. ChunksRight'
  <2>1. DOMAIN chunks' = Pairs
    BY <1>1
  <2>2. ASSUME NEW p \in Pairs
        PROVE  Holds(chunks'[p], actors', HeldOf(p, held'))
    BY <1>1, <1>10, <1>11
  <2>3. \A p \in Pairs : Holds(chunks'[p], actors', HeldOf(p, held'))
    BY <2>2
  <2> QED  BY <2>1, <2>3 DEF ChunksRight, Holds, HeldOf
<1>13. CountsRight'
  <2>1. ASSUME NEW p \in Pairs
        PROVE  counts'[p] = Recounted(chunks'[p], as)
    <3>1. CASE p \in touched
      BY <1>1, <3>1
    <3>2. CASE p \notin touched
      <4>1. counts'[p] = counts[p] /\ chunks'[p] = chunks[p] /\ counts[p] = Recounted(chunks[p], actors)
        BY <1>1, <3>2 DEF MatrixInv, CountsRight
      <4>2. \A r \in RowsIn(chunks[p]) : as[r.actor].external = actors[r.actor].external
        BY <1>4 DEF Registers, MatrixInv, ChunksRight, Holds
      <4>3. Recounted(chunks[p], actors) = Recounted(chunks[p], as)
        BY <4>2, SameRecount
      <4> QED  BY <4>1, <4>3
    <3> QED  BY <3>1, <3>2
  <2> QED  BY <1>1, <2>1 DEF CountsRight
<1> QED  BY <1>5, <1>7, <1>8, <1>12, <1>13 DEF MatrixInv

\* The raw events of an actor are erased.
LEMMA QueueErased ==
  ASSUME QueueRight, NEW external,
         waiting' = Kept(waiting, {n \in DOMAIN waiting : ExternalOf[waiting[n]] # external}),
         held' \subseteq held, arrived' = arrived
  PROVE  QueueRight'
<1>a. PICK S : S = {n \in DOMAIN waiting : ExternalOf[waiting[n]] # external}
  OBVIOUS
<1>b. PICK left : left = waiting'
  OBVIOUS
<1>1. waiting \in Seq(Messages) /\ IsInjective(waiting) /\ S \in SUBSET (DOMAIN waiting)
      /\ left = Kept(waiting, S)
  BY <1>a, <1>b DEF QueueRight
<1>2. left \in Seq(Messages)
  BY <1>1, KeptRows
<1>3. IsInjective(left)
  BY <1>1, KeptRows
<1>4. \A m : m \in Range(left) <=> \E n \in S : m = waiting[n]
  BY <1>1, KeptRows
<1>5. \A m \in Range(left) : m \in arrived /\ m \notin held
  BY <1>1, <1>4 DEF QueueRight, Range
<1>6. IsInjective(waiting)' /\ \A m : m \in Range(waiting)' => m \in Range(left)
  BY <1>b, <1>3 DEF IsInjective, Range
<1> QED  BY <1>b, <1>2, <1>5, <1>6 DEF QueueRight

LEMMA EraseKeeps == ASSUME MatrixInv, NEW external \in Range(ExternalOf), Erase(external) PROVE MatrixInv'
<1>1. /\ external # ANONYMOUS
      /\ waiting' = Kept(waiting, {n \in DOMAIN waiting : ExternalOf[waiting[n]] # external})
      /\ held' = {m \in held : ExternalOf[m] # external} /\ arrived' = arrived
  BY DEF Erase
<1>2. QueueRight'
  BY <1>1, QueueErased DEF MatrixInv
<1>3. external # Erased
  BY MatrixAssumption
<1>4. \A m \in held : m \in Messages /\ ExternalOf[m] # Erased /\ PairOf(m) \in Pairs
  BY EventFacts DEF MatrixInv, QueueRight
<1>5. \A p \in Pairs : Holds(chunks[p], actors, HeldOf(p, held))
  BY DEF MatrixInv, ChunksRight
<1>6. CASE external \notin Known(actors)
  <2>1. UNCHANGED <<chunks, counts, bits, actors>>
    BY <1>6 DEF Erase
  <2>2. \A m \in held : ExternalOf[m] # external
    <3> TAKE m \in held
    <3>1. PICK r \in RowsIn(chunks[PairOf(m)]) : r.message = m
      BY <1>4, <1>5 DEF Holds, HeldOf
    <3>2. r.actor \in DOMAIN actors /\ actors[r.actor].external = ExternalOf[m]
      BY <1>4, <1>5, <3>1 DEF Holds
    <3> QED  BY <1>6, <3>2 DEF Known
  <2>3. held' = held
    BY <1>1, <2>2
  <2>4. (ChunksRight /\ ActorsRight /\ BitsRight /\ CountsRight)'
    BY <2>1, <2>3 DEF MatrixInv, ChunksRight, ActorsRight, BitsRight, CountsRight
  <2> QED  BY <1>2, <2>4 DEF MatrixInv
<1>7. CASE external \in Known(actors)
  <2>a. PICK i : i = IdOf(actors, external)
    OBVIOUS
  <2>b. PICK touched : touched = {p \in Pairs : /\ p[1] \in ActiveDays(i)
                                                /\ \E r \in RowsIn(chunks[p]) : r.actor = i}
    OBVIOUS
  <2>1. /\ chunks' = [p \in Pairs |-> IF p \in touched THEN Forgotten(chunks[p], i) ELSE chunks[p]]
        /\ counts' = CountsAfter(touched, chunks')
        /\ bits' = [bits EXCEPT ![i] = {}]
        /\ actors' = [actors EXCEPT ![i].external = Erased]
    BY <1>7, <2>a, <2>b DEF Erase
  <2>2. i \in DOMAIN actors /\ actors[i].external = external
    BY <1>7, <2>a DEF Known, IdOf
  <2>3. \A k \in DOMAIN actors : actors[k].external = external => k = i
    BY <1>3, <2>2 DEF MatrixInv, ActorsRight, OneName
  <2>4. /\ actors \in Seq(Actor) /\ \A k \in DOMAIN actors : actors[k] \in Actor
    BY Elements DEF MatrixInv, ActorsRight
  <2>5. /\ DOMAIN actors' = DOMAIN actors /\ actors'[i] = [actors[i] EXCEPT !.external = Erased]
        /\ \A k \in DOMAIN actors : k # i => actors'[k] = actors[k]
    BY <2>1, <2>2
  <2>6. actors'[i].external = Erased /\ actors'[i].first = actors[i].first /\ actors'[i] \in Actor
    <3>1. actors[i] = [external |-> actors[i].external, first |-> actors[i].first]
          /\ actors[i].first \in Nat
      BY <2>2, <2>4 DEF Actor
    <3>2. actors'[i] = [external |-> Erased, first |-> actors[i].first]
      BY <2>5, <3>1
    <3> QED  BY <3>1, <3>2 DEF Actor
  <2>7. \A m \in held' : m \in held /\ ExternalOf[m] # external /\ ExternalOf[m] # Erased
    BY <1>1, <1>4
  <2>8. \A p \in Pairs : \A r \in RowsIn(chunks[p]) :
          /\ r.actor \in DOMAIN actors /\ r.message \in HeldOf(p, held)
          /\ r.actor = i <=> ExternalOf[r.message] = external
    BY <1>5, <2>2, <2>3 DEF Holds
  <2>9. \A p \in Pairs : p \in touched <=> \E r \in RowsIn(chunks[p]) : r.actor = i
    <3> TAKE p \in Pairs
    <3>1. ASSUME NEW r \in RowsIn(chunks[p]), r.actor = i
          PROVE  p[1] \in ActiveDays(i)
      <4>1. r.message \in held /\ ExternalOf[r.message] = actors[i].external /\ PairOf(r.message) = p
        BY <2>2, <2>8, <3>1 DEF HeldOf
      <4>2. DayOf[r.message] = p[1]
        BY <1>4, <4>1, EventFacts
      <4>3. p[1] \in DaysIn(i)
        BY <2>2, <4>1, <4>2, DaysOfActor
      <4>4. ActiveDays(i) = IF actors[i].external = ANONYMOUS THEN {} ELSE DaysIn(i)
        BY <2>2, ActiveDaysOf
      <4> QED  BY <1>1, <2>2, <4>3, <4>4
    <3> QED  BY <2>b, <3>1
  <2>10. ASSUME NEW k \in DOMAIN actors, k # i
         PROVE  k \in DOMAIN actors' /\ actors'[k].external = actors[k].external
    BY <2>5, <2>10
  <2>11. ASSUME NEW p \in Pairs, NEW stored,
                AreChunks(stored), Once(stored),
                \A r : r \in RowsIn(stored) <=> r \in RowsIn(chunks[p]) /\ r.actor # i
         PROVE  /\ Holds(stored, actors', HeldOf(p, held'))
                /\ Recounted(stored, actors) = Recounted(stored, actors')
    <3>1. ASSUME NEW r \in RowsIn(stored)
          PROVE  r.message \in HeldOf(p, held') /\ r.actor \in DOMAIN actors'
                 /\ actors'[r.actor].external = ExternalOf[r.message]
      <4>1. r \in RowsIn(chunks[p]) /\ r.actor # i
        BY <2>11
      <4>2. r.message \in HeldOf(p, held) /\ r.actor \in DOMAIN actors
            /\ actors[r.actor].external = ExternalOf[r.message]
        BY <1>5, <4>1 DEF Holds
      <4>3. ExternalOf[r.message] # external
        BY <2>8, <4>1
      <4> QED  BY <1>1, <2>10, <4>1, <4>2, <4>3 DEF HeldOf
    <3>2. ASSUME NEW m \in HeldOf(p, held')
          PROVE  \E r \in RowsIn(stored) : r.message = m
      <4>1. m \in HeldOf(p, held) /\ ExternalOf[m] # external
        BY <2>7 DEF HeldOf
      <4>2. PICK r \in RowsIn(chunks[p]) : r.message = m
        BY <1>5, <4>1 DEF Holds
      <4>3. r.actor # i
        BY <2>8, <4>1, <4>2
      <4> QED  BY <2>11, <4>2, <4>3
    <3>3. \A r \in RowsIn(stored) :
            (actors[r.actor].external # ANONYMOUS) <=> (actors'[r.actor].external # ANONYMOUS)
      <4> TAKE r \in RowsIn(stored)
      <4>1. r.actor \in DOMAIN actors /\ r.actor # i
        BY <2>8, <2>11
      <4> QED  BY <2>10, <4>1
    <3>4. Recounted(stored, actors) = Recounted(stored, actors')
      BY <3>3, SameRecount
    <3>5. Holds(stored, actors', HeldOf(p, held'))
      BY <2>11, <3>1, <3>2 DEF Holds
    <3> QED  BY <3>4, <3>5
  <2>12. ASSUME NEW p \in Pairs
         PROVE  /\ Holds(chunks'[p], actors', HeldOf(p, held'))
                /\ Recounted(chunks'[p], actors) = Recounted(chunks'[p], actors')
    <3>a. PICK stored : stored = chunks'[p]
      OBVIOUS
    <3>1. AreChunks(chunks[p]) /\ Once(chunks[p])
      BY <1>5 DEF Holds
    <3>2. CASE p \in touched
      <4>1. stored = Forgotten(chunks[p], i)
        BY <2>1, <3>2, <3>a
      <4>2. AreChunks(stored) /\ Once(stored)
        BY <3>1, <4>1, ForgottenFacts
      <4>3. \A r : r \in RowsIn(stored) <=> r \in RowsIn(chunks[p]) /\ r.actor # i
        BY <3>1, <4>1, ForgottenFacts
      <4> QED  BY <2>11, <3>a, <4>2, <4>3
    <3>3. CASE p \notin touched
      <4>1. stored = chunks[p]
        BY <2>1, <3>3, <3>a
      <4>2. \A r : r \in RowsIn(stored) <=> r \in RowsIn(chunks[p]) /\ r.actor # i
        BY <2>9, <3>3, <4>1
      <4> QED  BY <2>11, <3>1, <3>a, <4>1, <4>2
    <3> QED  BY <3>2, <3>3
  <2>13. ChunksRight'
    <3>1. DOMAIN chunks' = Pairs
      BY <2>1
    <3>2. \A p \in Pairs : Holds(chunks'[p], actors', HeldOf(p, held'))
      BY <2>12
    <3> QED  BY <3>1, <3>2 DEF ChunksRight, Holds, HeldOf
  <2>14. ActorsRight'
    <3>1. actors' \in Seq(Actor)
      <4>1. PICK n \in Nat : DOMAIN actors = 1 .. n
        BY <2>4
      <4>2. actors' = [k \in 1 .. n |-> actors'[k]]
        BY <2>1, <4>1
      <4>3. \A k \in 1 .. n : actors'[k] \in Actor
        BY <2>4, <2>5, <2>6, <4>1
      <4>4. actors' \in [1 .. n -> Actor]
        BY <4>2, <4>3
      <4> QED  BY <4>4, Listing
    <3>2. ASSUME NEW k \in DOMAIN actors, NEW l \in DOMAIN actors,
                 actors'[k].external = actors'[l].external, actors'[k].external # Erased
          PROVE  k = l
      <4>1. k # i /\ l # i
        BY <2>6, <3>2
      <4>2. actors[k].external = actors[l].external /\ actors[k].external # Erased
        BY <2>10, <3>2, <4>1
      <4> QED  BY <4>2 DEF MatrixInv, ActorsRight, OneName
    <3>3. OneName(actors')
      BY <2>5, <3>2 DEF OneName
    <3>4. ASSUME NEW m \in held', NEW k \in DOMAIN actors, actors'[k].external = ExternalOf[m]
          PROVE  actors'[k].first <= DayOf[m]
      <4>1. k # i
        BY <2>6, <2>7, <3>4
      <4>2. actors'[k] = actors[k] /\ m \in held
        BY <2>5, <2>7, <4>1
      <4> QED  BY <3>4, <4>2 DEF MatrixInv, ActorsRight
    <3>5. \A m \in held', k \in DOMAIN actors' :
            actors'[k].external = ExternalOf[m] => actors'[k].first <= DayOf[m]
      BY <2>5, <3>4
    <3> QED  BY <3>1, <3>3, <3>5 DEF ActorsRight, OneName
  <2>15. BitsRight'
    <3>1. DOMAIN bits = DOMAIN actors
      BY DEF MatrixInv, BitsRight
    <3>2. /\ DOMAIN bits' = DOMAIN actors' /\ bits'[i] = {}
          /\ \A k \in DOMAIN actors : k # i => bits'[k] = bits[k]
      BY <2>1, <2>2, <2>5, <3>1
    <3>3. ASSUME NEW k \in DOMAIN actors, NEW b
          PROVE  b \in bits'[k] <=>
                   /\ actors'[k].external # ANONYMOUS
                   /\ \E m \in held' : ExternalOf[m] = actors'[k].external /\ b = BitOf(DayOf[m])
      <4>1. CASE k = i
        BY <2>6, <2>7, <3>2, <4>1
      <4>2. CASE k # i
        <5>1. actors[k].external # external /\ actors'[k].external = actors[k].external
          BY <2>3, <2>10, <4>2
        <5>2. \A m : (m \in held' /\ ExternalOf[m] = actors[k].external)
                       <=> (m \in held /\ ExternalOf[m] = actors[k].external)
          BY <1>1, <5>1
        <5>3. b \in bits[k] <=>
                /\ actors[k].external # ANONYMOUS
                /\ \E m \in held : ExternalOf[m] = actors[k].external /\ b = BitOf(DayOf[m])
          BY DEF MatrixInv, BitsRight
        <5> QED  BY <3>2, <4>2, <5>1, <5>2, <5>3
      <4> QED  BY <4>1, <4>2
    <3>4. \A k \in DOMAIN actors' : \A b : b \in bits'[k] <=>
            /\ actors'[k].external # ANONYMOUS
            /\ \E m \in held' : ExternalOf[m] = actors'[k].external /\ b = BitOf(DayOf[m])
      BY <2>5, <3>3
    <3> QED  BY <3>2, <3>4 DEF BitsRight
  <2>16. CountsRight'
    <3>1. ASSUME NEW p \in Pairs
          PROVE  counts'[p] = Recounted(chunks'[p], actors')
      <4>1. CASE p \in touched
        <5>1. counts'[p] = Recounted(chunks'[p], actors)
          BY <2>1, <4>1 DEF CountsAfter
        <5> QED  BY <2>12, <5>1
      <4>2. CASE p \notin touched
        <5>1. counts'[p] = counts[p] /\ chunks'[p] = chunks[p]
          BY <2>1, <4>2 DEF CountsAfter
        <5>2. counts[p] = Recounted(chunks[p], actors)
          BY DEF MatrixInv, CountsRight
        <5> QED  BY <2>12, <5>1, <5>2
      <4> QED  BY <4>1, <4>2
    <3> QED  BY <3>1 DEF CountsRight, Recounted
  <2> QED  BY <1>2, <2>13, <2>14, <2>15, <2>16 DEF MatrixInv
<1> QED  BY <1>6, <1>7

\* A month's days, marks and events go together.
LEMMA DropKeeps ==
  ASSUME MatrixInv, NEW month \in {MonthOf(d) : d \in Days}, DropMonths(month)
  PROVE  MatrixInv'
<1>a. PICK start : start = FirstDay(month)
  OBVIOUS
<1>b. PICK gone : gone = {p \in Pairs : p[1] < start}
  OBVIOUS
<1>1. /\ chunks' = [p \in Pairs |-> IF p \in gone THEN << >> ELSE chunks[p]]
      /\ counts' = [p \in Pairs |-> IF p \in gone THEN NoCount ELSE counts[p]]
      /\ bits' = [i \in DOMAIN bits |-> Masked(i, month)]
      /\ held' = {m \in held : MonthOf(DayOf[m]) >= month}
      /\ UNCHANGED <<arrived, waiting, jobs, actors>>
  BY <1>a, <1>b DEF DropMonths
<1>2. month \in Nat
  <2>1. PICK d \in Days : month = MonthOf(d)
    OBVIOUS
  <2>2. d \in Nat /\ MonthDays \in Nat \ {0}
    BY MatrixAssumption
  <2> QED  BY <2>1, <2>2, Quotient DEF MonthOf
<1>3. start \in Nat /\ \A d \in Nat : MonthOf(d) >= month <=> d >= start
  <2>1. ASSUME NEW d \in Nat
        PROVE  FirstDay(month) \in Nat /\ (MonthOf(d) >= month <=> d >= FirstDay(month))
    BY <1>2, MonthStarts
  <2>2. 0 \in Nat
    OBVIOUS
  <2> QED  BY <1>a, <2>1, <2>2
<1>4. \A m \in held : /\ m \in Messages /\ DayOf[m] \in Nat
                      /\ PairOf(m) \in Pairs /\ PairOf(m)[1] = DayOf[m]
  BY EventFacts DEF MatrixInv, QueueRight
<1>5. \A m : m \in held' <=> m \in held /\ DayOf[m] >= start
  BY <1>1, <1>3, <1>4
<1>6. \A p \in Pairs : p[1] \in Nat
  BY MatrixAssumption DEF Pairs
<1>7. QueueRight'
  BY <1>1, <1>5 DEF MatrixInv, QueueRight, IsInjective, Range
<1>8. ASSUME NEW p \in Pairs, p \in gone
      PROVE  HeldOf(p, held') = {} /\ chunks'[p] = << >> /\ counts'[p] = NoCount
  <2>1. p[1] < start /\ p[1] \in Nat
    BY <1>6, <1>8, <1>b
  <2>2. ASSUME NEW m \in HeldOf(p, held')
        PROVE  FALSE
    <3>1. m \in held /\ DayOf[m] >= start /\ DayOf[m] = p[1]
      BY <1>4, <1>5 DEF HeldOf
    <3> QED  BY <1>3, <2>1, <3>1
  <2> QED  BY <1>1, <1>8, <2>2
<1>9. ASSUME NEW p \in Pairs, p \notin gone
      PROVE  HeldOf(p, held') = HeldOf(p, held) /\ chunks'[p] = chunks[p] /\ counts'[p] = counts[p]
  <2>1. ~ (p[1] < start) /\ p[1] \in Nat
    BY <1>6, <1>9, <1>b
  <2>2. ASSUME NEW m \in HeldOf(p, held)
        PROVE  m \in HeldOf(p, held')
    <3>1. m \in held /\ DayOf[m] = p[1] /\ DayOf[m] >= start
      BY <1>3, <1>4, <2>1 DEF HeldOf
    <3> QED  BY <1>5, <3>1 DEF HeldOf
  <2>3. \A m \in HeldOf(p, held') : m \in HeldOf(p, held)
    BY <1>5 DEF HeldOf
  <2> QED  BY <1>1, <1>9, <2>2, <2>3
<1>10. ChunksRight'
  <2>1. ASSUME NEW p \in Pairs
        PROVE  Holds(chunks'[p], actors, HeldOf(p, held'))
    <3>1. Holds(chunks[p], actors, HeldOf(p, held))
      BY DEF MatrixInv, ChunksRight
    <3>2. Holds(<< >>, actors, {})
      BY EmptyChunks
    <3> QED  BY <1>8, <1>9, <3>1, <3>2
  <2>2. DOMAIN chunks' = Pairs /\ actors' = actors
    BY <1>1
  <2>3. \A p \in Pairs : Holds(chunks'[p], actors', HeldOf(p, held'))
    BY <2>1, <2>2
  <2> QED  BY <2>2, <2>3 DEF ChunksRight, Holds, HeldOf
<1>11. CountsRight'
  <2>1. ASSUME NEW p \in Pairs
        PROVE  counts'[p] = Recounted(chunks'[p], actors)
    <3>1. counts[p] = Recounted(chunks[p], actors)
      BY DEF MatrixInv, CountsRight
    <3>2. Recounted(<< >>, actors) = NoCount
      BY EmptyChunks
    <3> QED  BY <1>8, <1>9, <3>1, <3>2
  <2> QED  BY <1>1, <2>1 DEF CountsRight, Recounted
<1>12. ActorsRight'
  <2>1. actors' = actors /\ \A m \in held' : m \in held
    BY <1>1, <1>5
  <2> QED  BY <2>1 DEF MatrixInv, ActorsRight
<1>13. BitsRight'
  <2>1. \A d \in Nat : (\/ BitOf(d)[1] > YearOf(start)
                        \/ BitOf(d)[1] = YearOf(start) /\ BitOf(d)[2] >= YearDay(start))
                       <=> d >= start
    <3> TAKE d \in Nat
    <3>1. BitOf(d)[1] = YearOf(d) /\ BitOf(d)[2] = YearDay(d)
      BY Calendar
    <3> QED  BY <1>3, <3>1, LaterDay
  <2>2. ASSUME NEW i \in DOMAIN actors, NEW b
        PROVE  b \in bits'[i] <=>
                 /\ actors[i].external # ANONYMOUS
                 /\ \E m \in held' : ExternalOf[m] = actors[i].external /\ b = BitOf(DayOf[m])
    <3>1. b \in bits[i] <=>
            /\ actors[i].external # ANONYMOUS
            /\ \E m \in held : ExternalOf[m] = actors[i].external /\ b = BitOf(DayOf[m])
      BY DEF MatrixInv, BitsRight
    <3>2. i \in DOMAIN bits
      BY DEF MatrixInv, BitsRight
    <3>3. b \in bits'[i] <=>
            b \in bits[i] /\ (b[1] > YearOf(start) \/ (b[1] = YearOf(start) /\ b[2] >= YearDay(start)))
      BY <1>1, <1>a, <3>2 DEF Masked
    <3>4. \A m \in held : (\/ BitOf(DayOf[m])[1] > YearOf(start)
                           \/ /\ BitOf(DayOf[m])[1] = YearOf(start)
                              /\ BitOf(DayOf[m])[2] >= YearDay(start))
                          <=> m \in held'
      BY <1>4, <1>5, <2>1
    <3> QED  BY <1>5, <3>1, <3>3, <3>4
  <2>3. DOMAIN bits' = DOMAIN actors' /\ actors' = actors
    BY <1>1 DEF MatrixInv, BitsRight
  <2>4. \A i \in DOMAIN actors' : \A b : b \in bits'[i] <=>
          /\ actors'[i].external # ANONYMOUS
          /\ \E m \in held' : ExternalOf[m] = actors'[i].external /\ b = BitOf(DayOf[m])
    BY <2>2, <2>3
  <2> QED  BY <2>3, <2>4 DEF BitsRight
<1> QED  BY <1>7, <1>10, <1>11, <1>12, <1>13 DEF MatrixInv

LEMMA MatrixStep == MatrixInv /\ [MatrixNext]_matrixVars => MatrixInv'
<1> SUFFICES ASSUME MatrixInv, [MatrixNext]_matrixVars PROVE MatrixInv'
  OBVIOUS
<1>1. ASSUME NEW m \in Messages, Ingest(m) PROVE MatrixInv'
  BY <1>1, IngestKeeps
<1>2. ASSUME NEW j \in Jobs, StartRotation(j) \/ PageFails(j) \/ StopRotation(j) PROVE MatrixInv'
  BY <1>2, JobsKeep DEF StartRotation, PageFails, StopRotation
<1>3. ASSUME NEW j \in Jobs, RotatePage(j) PROVE MatrixInv'
  BY <1>3, RotationKeeps
<1>4. ASSUME NEW external \in Range(ExternalOf), Erase(external) PROVE MatrixInv'
  BY <1>4, EraseKeeps
<1>5. ASSUME NEW month \in {MonthOf(d) : d \in Days}, DropMonths(month) PROVE MatrixInv'
  BY <1>5, DropKeeps
<1>6. CASE UNCHANGED matrixVars
  BY <1>6, JobsKeep DEF matrixVars
<1> QED  BY <1>1, <1>2, <1>3, <1>4, <1>5, <1>6 DEF MatrixNext

-----------------------------------------------------------------------------
(* The theorems.                                                           *)

LEMMA HeldOnce == ASSUME MatrixInv PROVE RotatedOnce
<1>1. ASSUME NEW m \in Messages, NEW p \in Pairs
      PROVE  CopiesOf(m, p) = IF m \in held /\ p = PairOf(m) THEN 1 ELSE 0
  <2>1. Holds(chunks[p], actors, HeldOf(p, held))
    BY DEF MatrixInv, ChunksRight
  <2>2. CopiesOf(m, p) = IF \E r \in RowsIn(chunks[p]) : r.message = m THEN 1 ELSE 0
    <3>a. PICK stored : stored = chunks[p]
      OBVIOUS
    <3>1. Once(stored)
      BY <2>1, <3>a DEF Holds
    <3>2. CopiesOf(m, p) = Cardinality({place \in Places(stored) : RowAt(stored, place).message = m})
      BY <3>a DEF CopiesOf
    <3> QED  BY <3>1, <3>2, <3>a, Copies
  <2>3. (\E r \in RowsIn(chunks[p]) : r.message = m) <=> m \in held /\ p = PairOf(m)
    BY <2>1 DEF Holds, HeldOf
  <2> QED  BY <2>2, <2>3
<1>2. ASSUME NEW p \in Pairs, NEW n \in DOMAIN chunks[p]
      PROVE  Len(chunks[p][n]) \in 1 .. CHUNK_EVENTS /\ chunks[p][n] = InTimeOrder(chunks[p][n])
  <2>1. IsChunk(chunks[p][n])
    BY DEF MatrixInv, ChunksRight, Holds, AreChunks
  <2>2. chunks[p][n] \in Seq(Row) /\ Sorted(chunks[p][n])
    BY <2>1 DEF IsChunk
  <2>3. InTimeOrder(chunks[p][n]) = chunks[p][n]
    BY <2>2, TimeOrder
  <2> QED  BY <2>1, <2>3 DEF IsChunk
<1> QED  BY <1>1, <1>2 DEF RotatedOnce

LEMMA SummariesFollow == ASSUME MatrixInv PROVE SummariesAgree
<1>1. \A p \in Pairs : counts[p] = Recounted(chunks[p], actors)
  BY DEF MatrixInv, CountsRight
<1>2. ASSUME NEW i \in DOMAIN actors
      PROVE  ActiveDays(i) = IF actors[i].external = ANONYMOUS THEN {} ELSE DaysIn(i)
  BY ActiveDaysOf
<1>3. ASSUME NEW i \in DOMAIN actors, NEW day \in DaysIn(i)
      PROVE  actors[i].first <= day
  <2>1. PICK m \in held : ExternalOf[m] = actors[i].external /\ DayOf[m] = day
    BY DaysOfActor
  <2> QED  BY <2>1 DEF MatrixInv, ActorsRight
<1> QED  BY <1>1, <1>2, <1>3 DEF SummariesAgree

LEMMA MatrixInvariance == MatrixSpec => []MatrixInv
<1> QED  BY MatrixStarts, MatrixStep, PTL DEF MatrixSpec

\* "Every event is in the matrix once": whatever rotations, erasures and
\* retention do, in any order and for any sizes of pages and chunks, a rotated
\* event is in one row of a chunk that is neither empty nor too long and in
\* order of time, and an erased or dropped one is in none.
THEOREM EveryEventIsHeldOnce == MatrixSpec => []RotatedOnce
<1> QED  BY MatrixInvariance, HeldOnce, PTL

\* The counts, the actors' days and their first days say what the chunks say,
\* so that erasure, which looks at no other chunks, finds every row.
THEOREM SummariesSayTheChunks == MatrixSpec => []SummariesAgree
<1> QED  BY MatrixInvariance, SummariesFollow, PTL

Months == {MonthOf(d) : d \in Days}

JobsRight ==
  /\ jobs \in [Jobs -> [running : BOOLEAN, memo : SUBSET Months]]
  /\ partitions \subseteq Months

Job == [running : BOOLEAN, memo : SUBSET Months]

LEMMA JobEdits ==
  ASSUME NEW js \in [Jobs -> Job], NEW j \in Jobs, NEW months \in SUBSET Months, NEW after,
         \/ after = [js EXCEPT ![j].running = TRUE]
         \/ after = [js EXCEPT ![j] = Idle]
         \/ after = [js EXCEPT ![j].memo = @ \union months]
  PROVE  after \in [Jobs -> Job]
<1>1. js[j] \in Job
  OBVIOUS
<1>2. js[j] = [running |-> js[j].running, memo |-> js[j].memo]
      /\ js[j].running \in BOOLEAN /\ js[j].memo \subseteq Months
  BY <1>1 DEF Job
<1>3. [js[j] EXCEPT !.running = TRUE] \in Job
  BY <1>2 DEF Job
<1>4. [js[j] EXCEPT !.memo = @ \union months] \in Job
  BY <1>2 DEF Job
<1>5. Idle \in Job
  BY DEF Idle, Job
<1> QED  BY <1>3, <1>4, <1>5

LEMMA JobsStep == MatrixInv /\ JobsRight /\ [MatrixNext]_matrixVars => JobsRight'
<1> SUFFICES ASSUME MatrixInv, JobsRight, [MatrixNext]_matrixVars PROVE JobsRight'
  OBVIOUS
<1>1. ASSUME NEW j \in Jobs, StartRotation(j) \/ PageFails(j) \/ StopRotation(j) PROVE JobsRight'
  <2>1. partitions' = partitions
    BY <1>1 DEF StartRotation, PageFails, StopRotation
  <2>2. jobs' = [jobs EXCEPT ![j].running = TRUE] \/ jobs' = [jobs EXCEPT ![j] = Idle]
    BY <1>1 DEF StartRotation, PageFails, StopRotation, Ended
  <2>3. jobs \in [Jobs -> Job] /\ {} \in SUBSET Months
    BY DEF JobsRight, Job
  <2>4. jobs' \in [Jobs -> Job]
    BY <2>2, <2>3, JobEdits
  <2> QED  BY <2>1, <2>4 DEF JobsRight, Job
<1>2. ASSUME NEW j \in Jobs, RotatePage(j) PROVE JobsRight'
  <2>a. PICK page : page = Page
    OBVIOUS
  <2>1. /\ partitions' = partitions \union MonthsOf(page)
        /\ \/ jobs' = [jobs EXCEPT ![j] = Idle]
           \/ jobs' = [jobs EXCEPT ![j].memo = @ \union MonthsOf(page)]
    BY <1>2, <2>a DEF RotatePage, Ended
  <2>2. page \in Seq(Messages)
    BY <2>a, PageFacts DEF MatrixInv, QueueRight
  <2>3. MonthsOf(page) \subseteq Months
    <3>1. \A m \in Range(page) : DayOf[m] \in Days
      BY <2>2, MatrixAssumption DEF Range
    <3> QED  BY <3>1 DEF MonthsOf, Months
  <2>4. jobs \in [Jobs -> Job]
    BY DEF JobsRight, Job
  <2>5. jobs' \in [Jobs -> Job]
    BY <2>1, <2>3, <2>4, JobEdits
  <2> QED  BY <2>1, <2>3, <2>5 DEF JobsRight, Job
<1>3. ASSUME NEW month, DropMonths(month) PROVE JobsRight'
  BY <1>3 DEF DropMonths, JobsRight
<1>4. CASE \/ \E m \in Messages : Ingest(m)
           \/ \E external \in Range(ExternalOf) : Erase(external)
           \/ UNCHANGED matrixVars
  BY <1>4 DEF Ingest, Erase, matrixVars, JobsRight
<1> QED  BY <1>1, <1>2, <1>3, <1>4 DEF MatrixNext

\* Every variable has the type its table has: a row names an event and an
\* actor that are there.
THEOREM MatrixTypeCorrect == MatrixSpec => []MatrixTypeOK
<1>1. MatrixInit => JobsRight
  BY DEF MatrixInit, JobsRight, Idle
<1>2. MatrixInv /\ JobsRight => MatrixTypeOK
  <2> SUFFICES ASSUME MatrixInv, JobsRight PROVE MatrixTypeOK
    OBVIOUS
  <2>1. arrived \subseteq Messages /\ held \subseteq arrived /\ Range(waiting) \subseteq arrived
    BY DEF MatrixInv, QueueRight
  <2>2. \A p \in Pairs : \A r \in RowsIn(chunks[p]) : r.message \in Messages /\ r.actor \in DOMAIN actors
    BY <2>1 DEF MatrixInv, ChunksRight, Holds, HeldOf
  <2>3. DOMAIN actors = DOMAIN bits
    BY DEF MatrixInv, BitsRight
  <2> QED  BY <2>1, <2>2, <2>3 DEF JobsRight, Months, MatrixTypeOK
<1> QED  BY <1>1, <1>2, MatrixInvariance, JobsStep, PTL DEF MatrixSpec

-----------------------------------------------------------------------------
(* Loops.                                                                  *)

LEMMA Upwards ==
  ASSUME NEW n \in Nat, NEW S, 0 \in S, \A k \in 1 .. n : k - 1 \in S => k \in S
  PROVE  \A k \in 0 .. n : k \in S
<1> DEFINE bad == {k \in 0 .. n : k \notin S}
<1>1. SUFFICES ASSUME bad # {} PROVE FALSE
  OBVIOUS
<1>2. bad \in SUBSET Nat
  OBVIOUS
<1> HIDE DEF bad
<1>3. PICK m \in bad : \A k \in bad : m <= k
  BY <1>1, <1>2, LeastIsLeast
<1> USE DEF bad
<1>4. m \in 1 .. n /\ m - 1 \in 0 .. n /\ ~ (m <= m - 1)
  BY <1>3
<1> QED  BY <1>3, <1>4

\* The states of a loop: it starts with `base` and takes the steps F[1], F[2]..
IsRun(g, n, V, base, F) ==
  g \in [0 .. n -> V] /\ g[0] = base /\ \A k \in 1 .. n : g[k] = F[k][g[k - 1]]

LEMMA LoopRuns ==
  ASSUME NEW n \in Nat, NEW V, NEW base \in V, NEW F \in [1 .. n -> [V -> V]]
  PROVE  \E g : IsRun(g, n, V, base, F)
<1> USE DEF IsRun
<1> DEFINE S == {m \in 0 .. n : \E g \in [0 .. m -> V] :
                    g[0] = base /\ \A k \in 1 .. m : g[k] = F[k][g[k - 1]]}
<1>1. 0 \in S
  <2> DEFINE h == [k \in 0 .. 0 |-> base]
  <2>1. h \in [0 .. 0 -> V] /\ h[0] = base /\ \A k \in 1 .. 0 : h[k] = F[k][h[k - 1]]
    OBVIOUS
  <2> HIDE DEF h
  <2> QED  BY <2>1
<1>2. ASSUME NEW m \in 1 .. n, m - 1 \in S
      PROVE  m \in S
  <2>1. PICK g \in [0 .. m - 1 -> V] : g[0] = base /\ \A k \in 1 .. m - 1 : g[k] = F[k][g[k - 1]]
    BY <1>2
  <2> DEFINE h == [k \in 0 .. m |-> IF k = m THEN F[m][g[m - 1]] ELSE g[k]]
  <2>2. m - 1 \in 0 .. m - 1 /\ g[m - 1] \in V
    OBVIOUS
  <2>3. h \in [0 .. m -> V]
    BY <2>2
  <2>4. h[0] = base /\ \A k \in 1 .. m : h[k] = F[k][h[k - 1]]
    BY <2>1, <2>2
  <2> HIDE DEF h
  <2>5. m \in 0 .. n
    OBVIOUS
  <2> QED  BY <2>3, <2>4, <2>5
<1>3. n \in S
  <2> HIDE DEF S
  <2>1. \A k \in 0 .. n : k \in S
    BY <1>1, <1>2, Upwards
  <2> QED  BY <2>1
<1> QED  BY <1>3

\* A recursive function that takes these steps from what is in V stays in V.
LEMMA LoopStays ==
  ASSUME NEW n \in Nat, NEW V, NEW base \in V, NEW F \in [1 .. n -> [V -> V]],
         NEW g, g = [k \in 0 .. n |-> g[k]], g[0] = base,
         \A k \in 1 .. n : g[k - 1] \in V => g[k] = F[k][g[k - 1]]
  PROVE  IsRun(g, n, V, base, F)
<1> DEFINE S == {k \in 0 .. n : g[k] \in V}
<1>1. 0 \in S
  OBVIOUS
<1>2. ASSUME NEW m \in 1 .. n, m - 1 \in S
      PROVE  m \in S
  <2>1. g[m] = F[m][g[m - 1]] /\ F[m] \in [V -> V]
    BY <1>2
  <2> QED  BY <1>2, <2>1
<1> HIDE DEF S
<1>3. \A k \in 0 .. n : k \in S
  BY <1>1, <1>2, Upwards
<1> USE DEF S
<1>4. g \in [0 .. n -> V]
  BY <1>3
<1>5. ASSUME NEW k \in 1 .. n PROVE g[k] = F[k][g[k - 1]]
  <2>1. k - 1 \in 0 .. n
    OBVIOUS
  <2> QED  BY <1>3, <2>1
<1> QED  BY <1>4, <1>5 DEF IsRun

AreSums(total, d, size) ==
  /\ total \in [0 .. size -> Int] /\ total[0] = d[0]
  /\ \A k \in 1 .. size : total[k] = total[k - 1] + d[k]

LEMMA SumsFacts ==
  ASSUME NEW size \in Nat, NEW d \in [0 .. size -> Int]
  PROVE  AreSums(RunningSums(d, size), d, size)
<1> PICK total : total = RunningSums(d, size)
  OBVIOUS
<1> DEFINE F == [k \in 1 .. size |-> [v \in Int |-> v + d[k]]]
<1>1. F \in [1 .. size -> [Int -> Int]] /\ d[0] \in Int
  OBVIOUS
<1>2. PICK g : IsRun(g, size, Int, d[0], F)
  <2> HIDE DEF F
  <2> QED  BY <1>1, LoopRuns
<1>3. g = [k \in 0 .. size |-> IF k = 0 THEN d[0] ELSE g[k - 1] + d[k]]
  <2>1. \A k \in 0 .. size : g[k] = IF k = 0 THEN d[0] ELSE g[k - 1] + d[k]
    <3> TAKE k \in 0 .. size
    <3>1. CASE k = 0
      BY <1>2, <3>1 DEF IsRun
    <3>2. CASE k # 0
      <4>1. k \in 1 .. size /\ k - 1 \in 0 .. size
        BY <3>2
      <4>2. g[k - 1] \in Int /\ g[k] = F[k][g[k - 1]]
        BY <1>2, <4>1 DEF IsRun
      <4> QED  BY <3>2, <4>1, <4>2
    <3> QED  BY <3>1, <3>2
  <2> QED  BY <1>2, <2>1 DEF IsRun
<1>4. total = [k \in 0 .. size |-> IF k = 0 THEN d[0] ELSE total[k - 1] + d[k]]
  BY <1>3, Zenon DEF RunningSums
<1>5. total = [k \in 0 .. size |-> total[k]] /\ total[0] = d[0]
      /\ \A k \in 1 .. size : total[k] = total[k - 1] + d[k]
  BY <1>4
<1>6. IsRun(total, size, Int, d[0], F)
  <2>1. \A k \in 1 .. size : total[k - 1] \in Int => total[k] = F[k][total[k - 1]]
    BY <1>5
  <2> HIDE DEF F
  <2> QED  BY <1>1, <1>5, <2>1, LoopStays
<1> QED  BY <1>5, <1>6 DEF IsRun, AreSums

\* Marks at the ends of an interval add one to the sums in it.
One(holds) == IF holds THEN 1 ELSE 0

AddsOne(d, e, size, first, last) ==
  \A k \in 0 .. size :
    RunningSums(e, size)[k] = RunningSums(d, size)[k] + One(Between(first, k, last))

LEMMA MarksAdd ==
  ASSUME NEW size \in Nat, NEW d \in [0 .. size -> Int],
         NEW first \in Nat, NEW last \in Nat, first <= last, last < size
  PROVE  /\ MarkedEnds(d, first, last) \in [0 .. size -> Int]
         /\ AddsOne(d, MarkedEnds(d, first, last), size, first, last)
<1> PICK e : e = MarkedEnds(d, first, last)
  OBVIOUS
<1> PICK before : before = RunningSums(d, size)
  OBVIOUS
<1> PICK after : after = RunningSums(e, size)
  OBVIOUS
<1>1. first \in 0 .. size /\ last + 1 \in 0 .. size /\ first # last + 1
  OBVIOUS
<1>2. e \in [0 .. size -> Int]
  BY <1>1 DEF MarkedEnds
<1>3. \A k \in 0 .. size : e[k] = IF k = first THEN d[k] + 1
                                  ELSE IF k = last + 1 THEN d[k] - 1 ELSE d[k]
  BY <1>1 DEF MarkedEnds
<1>4. /\ before \in [0 .. size -> Int] /\ before[0] = d[0]
      /\ \A k \in 1 .. size : before[k] = before[k - 1] + d[k]
  <2>1. AreSums(RunningSums(d, size), d, size)
    BY SumsFacts
  <2> QED  BY <2>1 DEF AreSums
<1>5. /\ after \in [0 .. size -> Int] /\ after[0] = e[0]
      /\ \A k \in 1 .. size : after[k] = after[k - 1] + e[k]
  <2>1. AreSums(RunningSums(e, size), e, size)
    BY <1>2, SumsFacts
  <2> QED  BY <2>1 DEF AreSums
<1> DEFINE S == {k \in 0 .. size : after[k] = before[k] + One(Between(first, k, last))}
<1>6. 0 \in S
  <2>1. 0 \in 0 .. size /\ d[0] \in Int /\ 0 # last + 1
    OBVIOUS
  <2>3. e[0] = IF 0 = first THEN d[0] + 1 ELSE d[0]
    BY <1>3, <2>1
  <2>4. 0 = first <=> Between(first, 0, last)
    BY DEF Between
  <2>2. after[0] = before[0] + One(Between(first, 0, last))
    <3>1. CASE 0 = first
      BY <1>4, <1>5, <2>1, <2>3, <2>4, <3>1 DEF One
    <3>2. CASE 0 # first
      BY <1>4, <1>5, <2>1, <2>3, <2>4, <3>2 DEF One
    <3> QED  BY <3>1, <3>2
  <2> QED  BY <2>1, <2>2
<1>7. ASSUME NEW k \in 1 .. size, k - 1 \in S
      PROVE  k \in S
  <2>1. k \in 0 .. size /\ k - 1 \in 0 .. size
    OBVIOUS
  <2>2. after[k - 1] = before[k - 1] + One(Between(first, k - 1, last))
    BY <1>7
  <2>3. before[k] = before[k - 1] + d[k] /\ after[k] = after[k - 1] + e[k]
    BY <1>4, <1>5
  <2>4. before[k - 1] \in Int /\ d[k] \in Int
    BY <1>4, <2>1
  <2>5. after[k] = before[k] + One(Between(first, k, last))
    <3>1. CASE k = first
      <4>1. e[k] = d[k] + 1
        BY <1>3, <2>1, <3>1
      <4>2. Between(first, k, last) /\ ~ Between(first, k - 1, last)
        BY <3>1 DEF Between
      <4> QED  BY <2>2, <2>3, <2>4, <4>1, <4>2 DEF One
    <3>2. CASE k = last + 1
      <4>1. e[k] = d[k] - 1
        BY <1>1, <1>3, <2>1, <3>2
      <4>2. ~ Between(first, k, last) /\ Between(first, k - 1, last)
        BY <3>2 DEF Between
      <4> QED  BY <2>2, <2>3, <2>4, <4>1, <4>2 DEF One
    <3>3. CASE k # first /\ k # last + 1
      <4>1. e[k] = d[k]
        BY <1>3, <2>1, <3>3
      <4>2. Between(first, k, last) <=> Between(first, k - 1, last)
        BY <3>3 DEF Between
      <4> QED  BY <2>2, <2>3, <2>4, <4>1, <4>2 DEF One
    <3> QED  BY <3>1, <3>2, <3>3
  <2> QED  BY <2>1, <2>5
<1> HIDE DEF S
<1>8. \A k \in 0 .. size : k \in S
  BY <1>6, <1>7, Upwards
<1> QED  BY <1>2, <1>8 DEF S, AddsOne

-----------------------------------------------------------------------------
(* Windows.                                                                *)

LEMMA Larger == \A a, b \in Int : /\ Greatest({a, b}) = IF a >= b THEN a ELSE b
                                  /\ Least({a, b}) = IF a <= b THEN a ELSE b
<1> TAKE a, b \in Int
<1>1. Greatest({a, b}) = IF a >= b THEN a ELSE b
  <2>1. \A x : (x \in {a, b} /\ \A y \in {a, b} : x >= y) <=> x = IF a >= b THEN a ELSE b
    OBVIOUS
  <2> QED  BY <2>1 DEF Greatest
<1>2. Least({a, b}) = IF a <= b THEN a ELSE b
  <2>1. \A x : (x \in {a, b} /\ \A y \in {a, b} : x <= y) <=> x = IF a <= b THEN a ELSE b
    OBVIOUS
  <2> QED  BY <2>1 DEF Least
<1> QED  BY <1>1, <1>2

Coverings(size) == [marks : [0 .. size -> Int], covered : -1 .. size - 1]

LastOf(offset, width, size) ==
  IF offset + width - 1 <= size - 1 THEN offset + width - 1 ELSE size - 1

LEMMA LastsFollow ==
  \A o, p, width, size \in Nat : o < p => LastOf(o, width, size) <= LastOf(p, width, size)
BY DEF LastOf

LEMMA NotLater == \A a, b \in Int : a < b <=> ~ (b <= a)
OBVIOUS

\* What a window adds, up to its last day.
Covered(acc, next, offset, last, size) ==
  /\ next \in Coverings(size)
  /\ next.covered = IF acc.covered >= last THEN acc.covered ELSE last
  /\ \A k \in 0 .. size : RunningSums(next.marks, size)[k] =
       RunningSums(acc.marks, size)[k] + One(offset <= k /\ acc.covered < k /\ k <= last)

LEMMA CoveringFacts ==
  ASSUME NEW size \in Nat, NEW width \in Nat \ {0}, NEW acc \in Coverings(size),
         NEW offset \in 0 .. size - 1
  PROVE  Covered(acc, Covering(acc, offset, width, size), offset, LastOf(offset, width, size), size)
<1> PICK next : next = Covering(acc, offset, width, size)
  OBVIOUS
<1> PICK last : last = LastOf(offset, width, size)
  OBVIOUS
<1> PICK first : first = IF offset >= acc.covered + 1 THEN offset ELSE acc.covered + 1
  OBVIOUS
<1>1. acc.covered \in -1 .. size - 1 /\ acc.marks \in [0 .. size -> Int]
  BY DEF Coverings
<1>2. first \in Nat /\ last \in Nat /\ offset <= last /\ last < size
  BY <1>1 DEF LastOf
<1>3. next = IF first > last THEN acc
             ELSE [marks |-> MarkedEnds(acc.marks, first, last), covered |-> last]
  <2>1. Greatest({offset, acc.covered + 1}) = first
    BY <1>1, Larger, offset \in Int, acc.covered + 1 \in Int
  <2>2. Least({offset + width - 1, size - 1}) = last
    <3>1. offset + width - 1 \in Int /\ size - 1 \in Int
      OBVIOUS
    <3> QED  BY <3>1, Larger DEF LastOf
  <2> QED  BY <2>1, <2>2 DEF Covering
<1>4. CASE first > last
  <2>1. next = acc /\ acc.covered >= last
    BY <1>1, <1>2, <1>3, <1>4
  <2>2. \A k \in 0 .. size : One(offset <= k /\ acc.covered < k /\ k <= last) = 0
    BY <1>1, <1>2, <2>1 DEF One
  <2>3. RunningSums(acc.marks, size) \in [0 .. size -> Int]
    BY <1>1, SumsFacts DEF AreSums
  <2> QED  BY <2>1, <2>2, <2>3 DEF Covered
<1>5. CASE first <= last
  <2> PICK e : e = MarkedEnds(acc.marks, first, last)
    OBVIOUS
  <2>1. next = [marks |-> e, covered |-> last] /\ next.marks = e /\ next.covered = last
    BY <1>2, <1>3, <1>5
  <2>2. e \in [0 .. size -> Int] /\ AddsOne(acc.marks, e, size, first, last)
    <3>1. acc.marks \in [0 .. size -> Int] /\ first <= last /\ last < size
      BY <1>1, <1>2, <1>5
    <3> QED  BY <1>2, <3>1, MarksAdd
  <2>3. \A k \in 0 .. size : Between(first, k, last) <=> offset <= k /\ acc.covered < k /\ k <= last
    BY <1>1, <1>2 DEF Between
  <2>4. next \in Coverings(size) /\ ~ (acc.covered >= last)
    <3>1. last \in -1 .. size - 1 /\ ~ (acc.covered >= last)
      BY <1>1, <1>2, <1>5
    <3> QED  BY <2>1, <2>2, <3>1 DEF Coverings
  <2>5. ASSUME NEW k \in 0 .. size
        PROVE  RunningSums(next.marks, size)[k] = RunningSums(acc.marks, size)[k]
                 + One(offset <= k /\ acc.covered < k /\ k <= last)
    <3>1. RunningSums(next.marks, size)[k] = RunningSums(acc.marks, size)[k] + One(Between(first, k, last))
      BY <2>1, <2>2 DEF AddsOne
    <3>2. One(Between(first, k, last)) = One(offset <= k /\ acc.covered < k /\ k <= last)
      BY <2>3 DEF One
    <3> QED  BY <3>1, <3>2
  <2> QED  BY <2>1, <2>4, <2>5 DEF Covered
<1> QED  BY <1>2, <1>4, <1>5

\* Each of some windows counts once where they overlap.
InWindow(offsets, width, k) == \E o \in offsets : Between(o, k, o + width - 1)

CountsIn(d, e, offsets, width, size) ==
  \A k \in 0 .. size - 1 :
    RunningSums(e, size)[k] = RunningSums(d, size)[k] + One(InWindow(offsets, width, k))

\* The loop after some offsets in their order.
CoveredBy(acc, d, order, n, width, size) ==
  /\ acc \in Coverings(size)
  /\ CountsIn(d, acc.marks, {order[m] : m \in 1 .. n}, width, size)
  /\ acc.covered = IF n = 0 THEN -1 ELSE LastOf(order[n], width, size)

\* Up to the last day of a window, or of an earlier one.
LEMMA Reaches ==
  ASSUME NEW size \in Nat, NEW width \in Nat \ {0}, NEW o \in 0 .. size - 1
  PROVE  /\ LastOf(o, width, size) \in Nat /\ LastOf(o, width, size) <= size - 1
         /\ \A k \in 0 .. size - 1, e \in 0 .. size - 1 :
              e <= o /\ k <= e + width - 1 => k <= LastOf(o, width, size)
         /\ \A k \in 0 .. size - 1 : o <= k /\ k <= LastOf(o, width, size)
              => Between(o, k, o + width - 1)
BY DEF LastOf, Between

LEMMA OneMore ==
  ASSUME NEW size \in Nat, NEW width \in Nat \ {0}, NEW d \in [0 .. size -> Int],
         NEW N \in Nat, NEW order, Increasing(order, N, 0 .. size - 1),
         NEW n \in 1 .. N
  PROVE  \A acc : CoveredBy(acc, d, order, n - 1, width, size)
                   => CoveredBy(Covering(acc, order[n], width, size), d, order, n, width, size)
<1> SUFFICES ASSUME NEW acc, CoveredBy(acc, d, order, n - 1, width, size)
             PROVE  CoveredBy(Covering(acc, order[n], width, size), d, order, n, width, size)
  OBVIOUS
<1>a. /\ order \in [1 .. N -> 0 .. size - 1]
      /\ \A k, l \in 1 .. N : k < l => order[k] < order[l]
  BY DEF Increasing
<1> PICK offset \in 0 .. size - 1 : offset = order[n]
  BY <1>a
<1> PICK last : last = LastOf(offset, width, size)
  OBVIOUS
<1> PICK next : next = Covering(acc, offset, width, size)
  OBVIOUS
<1> DEFINE earlier == {order[l] : l \in 1 .. n - 1}
           offsets == {order[l] : l \in 1 .. n}
<1>1. /\ acc \in Coverings(size) /\ CountsIn(d, acc.marks, earlier, width, size)
      /\ acc.covered = IF n = 1 THEN -1 ELSE LastOf(order[n - 1], width, size)
  BY DEF CoveredBy
<1>2. Covered(acc, next, offset, last, size)
  BY <1>1, CoveringFacts
<1>3. \A o : o \in offsets <=> o \in earlier \/ o = offset
  <2>1. \A m : m \in 1 .. n <=> m \in 1 .. n - 1 \/ m = n
    OBVIOUS
  <2> QED  BY <2>1
<1>4. n # 1 => n - 1 \in 1 .. n - 1 /\ order[n - 1] \in 0 .. size - 1 /\ order[n - 1] < offset
  BY <1>a
<1>5. /\ acc.covered \in -1 .. size - 1 /\ acc.covered \in Int
      /\ last \in Nat /\ acc.covered <= last /\ last <= size - 1
  <2>1. acc.covered \in -1 .. size - 1
    BY <1>1 DEF Coverings
  <2>2. last \in Nat /\ last <= size - 1
    BY Reaches
  <2>3. CASE n = 1
    BY <1>1, <2>1, <2>2, <2>3
  <2>4. CASE n # 1
    <3> PICK o : o = order[n - 1]
      OBVIOUS
    <3>1. o \in 0 .. size - 1 /\ o < offset
      BY <1>4, <2>4
    <3>2. LastOf(o, width, size) <= LastOf(offset, width, size)
      BY <3>1, LastsFollow
    <3> QED  BY <1>1, <2>1, <2>2, <2>4, <3>2
  <2> QED  BY <2>3, <2>4
<1>6. ASSUME NEW k \in 0 .. size - 1, InWindow(earlier, width, k)
      PROVE  k <= acc.covered
  <2>1. PICK l \in 1 .. n - 1 : Between(order[l], k, order[l] + width - 1)
    BY <1>6 DEF InWindow
  <2>2. n # 1 /\ order[l] \in 0 .. size - 1 /\ order[l] <= order[n - 1]
    <3>1. n # 1 /\ l \in 1 .. N /\ n - 1 \in 1 .. N
      OBVIOUS
    <3>2. order[l] \in 0 .. size - 1 /\ order[n - 1] \in 0 .. size - 1
      BY <1>a, <3>1
    <3>3. CASE l = n - 1
      BY <3>1, <3>2, <3>3
    <3>4. CASE l < n - 1
      <4>1. order[l] < order[n - 1]
        BY <1>a, <3>1, <3>4
      <4> QED  BY <3>1, <3>2, <4>1
    <3> QED  BY <3>3, <3>4
  <2>3. k <= order[l] + width - 1 /\ acc.covered = LastOf(order[n - 1], width, size)
    BY <1>1, <2>1, <2>2 DEF Between
  <2> QED  BY <1>4, <2>2, <2>3, Reaches
<1>7. ASSUME NEW k \in 0 .. size - 1, offset <= k, k <= acc.covered
      PROVE  InWindow(earlier, width, k)
  <2>1. n # 1 /\ acc.covered = LastOf(order[n - 1], width, size)
    BY <1>1, <1>7
  <2>2. order[n - 1] \in earlier
    BY <1>4, <2>1
  <2>3. Between(order[n - 1], k, order[n - 1] + width - 1)
    <3>1. order[n - 1] \in 0 .. size - 1 /\ order[n - 1] < offset
      BY <1>4, <2>1
    <3>2. order[n - 1] <= k /\ k <= LastOf(order[n - 1], width, size)
      BY <1>7, <2>1, <3>1
    <3> QED  BY <3>1, <3>2, Reaches
  <2> QED  BY <2>2, <2>3 DEF InWindow
<1>8. ASSUME NEW k \in 0 .. size - 1
      PROVE  RunningSums(next.marks, size)[k] = RunningSums(d, size)[k] + One(InWindow(offsets, width, k))
  <2> DEFINE new == offset <= k /\ acc.covered < k /\ k <= last
  <2>1. Between(offset, k, offset + width - 1) <=> offset <= k /\ k <= last
    BY DEF Between, LastOf
  <2>2. InWindow(offsets, width, k) <=>
          InWindow(earlier, width, k) \/ Between(offset, k, offset + width - 1)
    BY <1>3 DEF InWindow
  <2>3. /\ InWindow(offsets, width, k) <=> InWindow(earlier, width, k) \/ new
        /\ ~ (InWindow(earlier, width, k) /\ new)
    <3>1. acc.covered < k <=> ~ (k <= acc.covered)
      <4>1. acc.covered \in Int /\ k \in Int
        BY <1>5
      <4> QED  BY <4>1, NotLater
    <3>2. InWindow(earlier, width, k) => k <= acc.covered
      BY <1>6
    <3>3. offset <= k /\ k <= acc.covered => InWindow(earlier, width, k)
      BY <1>7
    <3> HIDE DEF earlier, offsets
    <3> QED  BY <2>1, <2>2, <3>1, <3>2, <3>3, Zenon
  <2>4. One(InWindow(offsets, width, k)) = One(InWindow(earlier, width, k)) + One(new)
    <3> HIDE DEF new, earlier, offsets
    <3>1. CASE InWindow(offsets, width, k)
      BY <2>3, <3>1 DEF One
    <3>2. CASE ~ InWindow(offsets, width, k)
      BY <2>3, <3>2 DEF One
    <3> QED  BY <3>1, <3>2
  <2>5. RunningSums(acc.marks, size)[k] =
          RunningSums(d, size)[k] + One(InWindow(earlier, width, k))
    BY <1>1 DEF CountsIn
  <2>6. RunningSums(next.marks, size)[k] = RunningSums(acc.marks, size)[k] + One(new)
    <3>1. k \in 0 .. size
      OBVIOUS
    <3> QED  BY <1>2, <3>1 DEF Covered
  <2>7. RunningSums(d, size)[k] \in Int
    <3>1. RunningSums(d, size) \in [0 .. size -> Int] /\ k \in 0 .. size
      BY SumsFacts DEF AreSums
    <3> QED  BY <3>1
  <2> QED  BY <2>4, <2>5, <2>6, <2>7 DEF One
<1>9. next.covered = last
  BY <1>2, <1>5 DEF Covered
<1>10. next \in Coverings(size)
  BY <1>2 DEF Covered
<1>11. CountsIn(d, next.marks, offsets, width, size)
  BY <1>8 DEF CountsIn
<1> QED  BY <1>9, <1>10, <1>11 DEF CoveredBy

LEMMA SpreadFacts ==
  ASSUME NEW size \in Nat, NEW width \in Nat \ {0}, NEW d \in [0 .. size -> Int],
         NEW offsets \in SUBSET (0 .. size - 1)
  PROVE  /\ Spread(d, offsets, width, size) \in [0 .. size -> Int]
         /\ CountsIn(d, Spread(d, offsets, width, size), offsets, width, size)
<1> PICK N : N = Cardinality(offsets)
  OBVIOUS
<1> PICK order : order = Ascending(offsets)
  OBVIOUS
<1>1. N \in Nat /\ Increasing(order, N, offsets) /\ offsets = {order[k] : k \in 1 .. N}
  <2>1. IsFiniteSet(0 .. size - 1) /\ offsets \in SUBSET Int
    BY FS_Interval
  <2>2. IsFiniteSet(offsets)
    BY <2>1, FS_Subset
  <2> QED  BY <2>1, <2>2, AscendingFacts
<1>2. Increasing(order, N, 0 .. size - 1) /\ order \in [1 .. N -> 0 .. size - 1]
  BY <1>1 DEF Increasing
<1> DEFINE start == [marks |-> d, covered |-> -1]
           V == Coverings(size)
           F == [n \in 1 .. N |-> [acc \in V |-> Covering(acc, order[n], width, size)]]
<1>3. start \in V
  BY DEF Coverings
<1>4. ASSUME NEW n \in 1 .. N, NEW acc \in V
      PROVE  Covering(acc, order[n], width, size) \in V
  <2>1. order[n] \in 0 .. size - 1
    BY <1>2
  <2>2. Covered(acc, Covering(acc, order[n], width, size), order[n],
                LastOf(order[n], width, size), size)
    BY <2>1, CoveringFacts
  <2> QED  BY <2>2 DEF Covered
<1>5. F \in [1 .. N -> [V -> V]]
  BY <1>4
<1> HIDE DEF V
<1>6. PICK g : IsRun(g, N, V, start, F)
  <2> HIDE DEF F, start
  <2> QED  BY <1>1, <1>3, <1>5, LoopRuns
<1>7. g = [n \in 0 .. N |-> IF n = 0 THEN start ELSE Covering(g[n - 1], order[n], width, size)]
  <2>1. ASSUME NEW n \in 1 .. N PROVE g[n] = Covering(g[n - 1], order[n], width, size)
    <3>2. n - 1 \in 0 .. N
      BY <1>1
    <3>1. g[n - 1] \in V /\ g[n] = F[n][g[n - 1]]
      BY <1>6, <3>2 DEF IsRun
    <3> QED  BY <3>1
  <2>2. \A n \in 0 .. N : n # 0 => n \in 1 .. N
    BY <1>1
  <2>3. g[0] = start /\ g = [n \in 0 .. N |-> g[n]]
    BY <1>6 DEF IsRun
  <2> HIDE DEF start, F
  <2> QED  BY <2>1, <2>2, <2>3
<1> PICK after :
      after = CHOOSE h : h = [n \in 0 .. N |-> IF n = 0 THEN start
                                               ELSE Covering(h[n - 1], order[n], width, size)]
  OBVIOUS
<1>8. Spread(d, offsets, width, size) = after[N].marks
  BY Zenon DEF Spread
<1>9. after = [n \in 0 .. N |-> IF n = 0 THEN start ELSE Covering(after[n - 1], order[n], width, size)]
  <2> HIDE DEF start
  <2> QED  BY <1>7, Zenon
<1>10. after[0] = start /\ \A n \in 1 .. N : after[n] = Covering(after[n - 1], order[n], width, size)
  <2> HIDE DEF start
  <2>1. \A n \in 1 .. N : n \in 0 .. N /\ n # 0
    BY <1>1
  <2>2. 0 \in 0 .. N
    BY <1>1
  <2> QED  BY <1>9, <2>1, <2>2, Zenon
<1> DEFINE S == {n \in 0 .. N : CoveredBy(after[n], d, order, n, width, size)}
<1>11. 0 \in S
  <2>1. CountsIn(d, d, {order[m] : m \in 1 .. 0}, width, size)
    <3>1. RunningSums(d, size) \in [0 .. size -> Int]
      BY SumsFacts DEF AreSums
    <3>2. \A k : ~ InWindow({order[m] : m \in 1 .. 0}, width, k)
      BY DEF InWindow
    <3> QED  BY <3>1, <3>2 DEF CountsIn, One
  <2>2. after[0] \in Coverings(size) /\ after[0].marks = d /\ after[0].covered = -1
    BY <1>3, <1>10 DEF V
  <2> QED  BY <1>1, <2>1, <2>2 DEF CoveredBy
<1>12. ASSUME NEW n \in 1 .. N, n - 1 \in S
       PROVE  n \in S
  <2>1. CoveredBy(after[n - 1], d, order, n - 1, width, size)
    BY <1>12
  <2>2. CoveredBy(Covering(after[n - 1], order[n], width, size), d, order, n, width, size)
    <3>1. \A acc : CoveredBy(acc, d, order, n - 1, width, size)
                   => CoveredBy(Covering(acc, order[n], width, size), d, order, n, width, size)
      BY <1>1, <1>2, OneMore
    <3> QED  BY <2>1, <3>1
  <2> QED  BY <1>10, <2>2
<1>13. CoveredBy(after[N], d, order, N, width, size)
  <2> HIDE DEF S
  <2>1. \A n \in 0 .. N : n \in S
    BY <1>1, <1>11, <1>12, Upwards
  <2>2. N \in S
    BY <1>1, <2>1
  <2> QED  BY <2>2 DEF S
<1> QED  BY <1>1, <1>8, <1>13 DEF CoveredBy, Coverings

-----------------------------------------------------------------------------
(* Actors.                                                                 *)

LEMMA NoMarks ==
  ASSUME NEW size \in Nat
  PROVE  \A k \in 0 .. size : RunningSums([n \in 0 .. size |-> 0], size)[k] = 0
<1> DEFINE d == [n \in 0 .. size |-> 0]
           total == RunningSums(d, size)
           S == {k \in 0 .. size : total[k] = 0}
<1>1. d \in [0 .. size -> Int] /\ \A k \in 0 .. size : d[k] = 0
  OBVIOUS
<1>2. AreSums(total, d, size)
  <2> HIDE DEF d
  <2> QED  BY <1>1, SumsFacts
<1> HIDE DEF d, total
<1>3. 0 \in S
  BY <1>1, <1>2 DEF AreSums
<1>4. ASSUME NEW k \in 1 .. size, k - 1 \in S
      PROVE  k \in S
  <2>1. k \in 0 .. size /\ total[k - 1] = 0 /\ d[k] = 0
    BY <1>1, <1>4
  <2> QED  BY <1>2, <2>1 DEF AreSums
<1>5. \A k \in 0 .. size : k \in S
  <2> HIDE DEF S
  <2> QED  BY <1>3, <1>4, Upwards
<1> QED  BY <1>5 DEF total, d

\* The actors up to an id that are active in the window that ends on a day.
ActiveIn(i, start, to, width, k) ==
  {j \in 1 .. i : j \in Identified /\ InWindow(ActiveOffsets(j, start, to), width, k)}

LEMMA OneActorMore ==
  ASSUME NEW i \in Nat \ {0}, NEW start, NEW to, NEW width, NEW k
  PROVE  /\ Cardinality(ActiveIn(i - 1, start, to, width, k)) \in Nat
         /\ Cardinality(ActiveIn(i, start, to, width, k)) =
              Cardinality(ActiveIn(i - 1, start, to, width, k))
                + One(i \in Identified /\ InWindow(ActiveOffsets(i, start, to), width, k))
<1> DEFINE new == i \in Identified /\ InWindow(ActiveOffsets(i, start, to), width, k)
<1> PICK earlier : earlier = ActiveIn(i - 1, start, to, width, k)
  OBVIOUS
<1>1. IsFiniteSet(earlier) /\ i \notin earlier
  <2>1. IsFiniteSet(1 .. i - 1) /\ earlier \in SUBSET (1 .. i - 1)
    BY FS_Interval DEF ActiveIn
  <2> QED  BY <2>1, FS_Subset
<1>2. ActiveIn(i, start, to, width, k) = IF new THEN earlier \union {i} ELSE earlier
  <2>1. \A j : j \in 1 .. i <=> j \in 1 .. i - 1 \/ j = i
    OBVIOUS
  <2> QED  BY <2>1 DEF ActiveIn
<1>3. Cardinality(earlier) \in Nat /\ Cardinality(earlier \union {i}) = Cardinality(earlier) + 1
  BY <1>1, FS_CardinalityType, FS_AddElement
<1> HIDE DEF new
<1>4. Cardinality(ActiveIn(i, start, to, width, k)) = Cardinality(earlier) + One(new)
  BY <1>2, <1>3 DEF One
<1> QED  BY <1>3, <1>4 DEF new

OffsetsWithin(start, to) ==
  \A i \in Identified : ActiveOffsets(i, start, to) \in SUBSET (0 .. (to - start + 1) - 1)

WindowsCount(start, to, width) ==
  \A k \in 0 .. (to - start + 1) - 1 :
    Windows(start, to, width)[k] = Cardinality(ActiveIn(Len(actors), start, to, width, k))

LEMMA WindowsFacts ==
  ASSUME NEW start \in Int, NEW to \in Int, to - start + 1 \in Nat,
         NEW width \in Nat \ {0}, Len(actors) \in Nat, OffsetsWithin(start, to)
  PROVE  WindowsCount(start, to, width)
<1> USE DEF OffsetsWithin, WindowsCount
<1> PICK size \in Nat : size = to - start + 1
  OBVIOUS
<1> PICK N \in Nat : N = Len(actors)
  OBVIOUS
<1> DEFINE zeros == [k \in 0 .. size |-> 0]
           V == [0 .. size -> Int]
           Step(i, v) == IF i \in Identified
                         THEN Spread(v, ActiveOffsets(i, start, to), width, size) ELSE v
           F == [i \in 1 .. N |-> [v \in V |-> Step(i, v)]]
<1>1. zeros \in V
  OBVIOUS
<1>2. ASSUME NEW i \in 1 .. N, NEW v \in V
      PROVE  Step(i, v) \in V
  BY SpreadFacts
<1>3. F \in [1 .. N -> [V -> V]]
  <2> HIDE DEF Step, V
  <2> QED  BY <1>2
<1> HIDE DEF V, Step
<1>4. PICK g : IsRun(g, N, V, zeros, F)
  <2> HIDE DEF F, zeros
  <2> QED  BY <1>1, <1>3, LoopRuns
<1>5. g = [i \in 0 .. N |-> IF i = 0 THEN zeros ELSE Step(i, g[i - 1])]
  <2>1. ASSUME NEW i \in 1 .. N PROVE g[i] = Step(i, g[i - 1])
    <3>1. i - 1 \in 0 .. N
      OBVIOUS
    <3>2. g[i - 1] \in V /\ g[i] = F[i][g[i - 1]]
      BY <1>4, <3>1 DEF IsRun
    <3> QED  BY <3>2
  <2>2. \A i \in 0 .. N : i # 0 => i \in 1 .. N
    OBVIOUS
  <2>3. g[0] = zeros /\ g = [i \in 0 .. N |-> g[i]]
    BY <1>4 DEF IsRun
  <2> HIDE DEF zeros, F
  <2> QED  BY <2>1, <2>2, <2>3
<1> PICK after : after = CHOOSE h : h = [i \in 0 .. N |-> IF i = 0 THEN zeros ELSE Step(i, h[i - 1])]
  OBVIOUS
<1>6. Windows(start, to, width) = RunningSums(after[N], size)
  BY Zenon DEF Windows, Step
<1>7. after = [i \in 0 .. N |-> IF i = 0 THEN zeros ELSE Step(i, after[i - 1])]
  <2> HIDE DEF zeros
  <2> QED  BY <1>5, Zenon
<1>8. after[0] = zeros /\ \A i \in 1 .. N : after[i] = Step(i, after[i - 1])
  <2> HIDE DEF zeros
  <2>1. \A i \in 1 .. N : i \in 0 .. N /\ i # 0
    OBVIOUS
  <2>2. 0 \in 0 .. N
    OBVIOUS
  <2> QED  BY <1>7, <2>1, <2>2, Zenon
<1> DEFINE Counted(i) == \A k \in 0 .. size - 1 :
             RunningSums(after[i], size)[k] = Cardinality(ActiveIn(i, start, to, width, k))
           S == {i \in 0 .. N : after[i] \in V /\ Counted(i)}
<1>9. 0 \in S
  <2>1. \A k \in 0 .. size - 1 : RunningSums(zeros, size)[k] = 0
    BY NoMarks
  <2>2. \A k : Cardinality(ActiveIn(0, start, to, width, k)) = 0
    <3>1. \A k : ActiveIn(0, start, to, width, k) = {}
      BY DEF ActiveIn
    <3> QED  BY <3>1, FS_EmptySet
  <2> HIDE DEF zeros
  <2>3. Counted(0)
    BY <1>8, <2>1, <2>2
  <2> QED  BY <1>1, <1>8, <2>3
<1>10. ASSUME NEW i \in 1 .. N, i - 1 \in S
       PROVE  i \in S
  <2> PICK v : v = after[i - 1]
    OBVIOUS
  <2>1. v \in V /\ Counted(i - 1) /\ after[i] = Step(i, v)
    BY <1>8, <1>10
  <2>2. after[i] \in V
    BY <1>2, <2>1
  <2>3. ASSUME NEW k \in 0 .. size - 1
        PROVE  RunningSums(after[i], size)[k] = Cardinality(ActiveIn(i, start, to, width, k))
    <3> DEFINE earlier == Cardinality(ActiveIn(i - 1, start, to, width, k))
               new == InWindow(ActiveOffsets(i, start, to), width, k)
    <3>1. /\ earlier \in Nat
          /\ Cardinality(ActiveIn(i, start, to, width, k)) = earlier + One(i \in Identified /\ new)
      <4>1. i \in Nat \ {0}
        OBVIOUS
      <4> QED  BY <4>1, OneActorMore
    <3>2. RunningSums(v, size)[k] = earlier
      BY <2>1
    <3> HIDE DEF earlier, new
    <3>3. CASE i \in Identified
      <4>1. after[i] = Spread(v, ActiveOffsets(i, start, to), width, size)
        BY <2>1, <3>3 DEF Step
      <4>2. CountsIn(v, after[i], ActiveOffsets(i, start, to), width, size)
        <5>1. v \in [0 .. size -> Int] /\ ActiveOffsets(i, start, to) \in SUBSET (0 .. size - 1)
          BY <2>1, <3>3 DEF V
        <5>2. CountsIn(v, Spread(v, ActiveOffsets(i, start, to), width, size),
                       ActiveOffsets(i, start, to), width, size)
          BY <5>1, SpreadFacts
        <5> QED  BY <4>1, <5>2
      <4>3. RunningSums(after[i], size)[k] = RunningSums(v, size)[k] + One(new)
        BY <4>2 DEF CountsIn, new
      <4> QED  BY <3>1, <3>2, <3>3, <4>3 DEF One
    <3>4. CASE i \notin Identified
      BY <2>1, <3>1, <3>2, <3>4 DEF Step, One
    <3> QED  BY <3>3, <3>4
  <2> QED  BY <2>2, <2>3
<1>11. N \in S
  <2> HIDE DEF S
  <2>1. \A i \in 0 .. N : i \in S
    BY <1>9, <1>10, Upwards
  <2> QED  BY <2>1
<1> QED  BY <1>6, <1>11

-----------------------------------------------------------------------------
(* Active days.                                                            *)

LEMMA YearBounds ==
  ASSUME NEW d \in Nat, NEW year \in Nat
  PROVE  /\ NewYear(year) \in Nat /\ NewYear(year + 1) \in Nat
         /\ YearOf(d) \in Nat
         /\ YearOf(d) <= year <=> d < NewYear(year + 1)
         /\ year <= YearOf(d) <=> NewYear(year) <= d
         /\ YearOf(d) = year => YearDay(d) = d - NewYear(year) + 1
<1> PICK y : y = MonthDays * YearMonths
  OBVIOUS
<1>1. y \in Nat \ {0} /\ MonthDays \in Nat /\ YearMonths \in Nat
  BY MatrixAssumption
<1>2. \A q \in Nat : NewYear(q) = q * y /\ NewYear(q) \in Nat
  <2> TAKE q \in Nat
  <2>1. (q * MonthDays) * YearMonths = q * (MonthDays * YearMonths)
    BY <1>1, Associative, Zenon
  <2>2. q * y \in Nat
    BY <1>1, Products
  <2> QED  BY <2>1, <2>2 DEF NewYear
<1> PICK q : q = d \div y
  OBVIOUS
<1> PICK r : r = d % y
  OBVIOUS
<1>3. q \in Nat /\ r \in 0 .. y - 1 /\ d = q * y + r
  BY <1>1, Quotient
<1>4. YearOf(d) = q /\ YearDay(d) = r + 1
  BY DEF YearOf, YearDay
<1>5. \A k, l \in Nat : k < l => NewYear(l) >= NewYear(k) + y
  <2> TAKE k, l \in Nat
  <2>1. k < l => l * y >= k * y + y
    BY <1>1, Products
  <2> QED  BY <1>2, <2>1
<1> PICK start : start = NewYear(q)
  OBVIOUS
<1>6. start \in Nat /\ d = start + r /\ start <= d /\ d < start + y
  BY <1>1, <1>2, <1>3
<1>7. \A k \in Nat : k <= q => NewYear(k) <= d
  <2> TAKE k \in Nat
  <2>1. CASE k = q
    BY <1>6, <2>1
  <2>2. CASE k < q
    <3>1. start >= NewYear(k) + y /\ NewYear(k) \in Nat
      BY <1>2, <1>3, <1>5, <2>2
    <3> QED  BY <1>1, <1>6, <3>1
  <2>3. k <= q => k = q \/ k < q
    BY <1>3
  <2> QED  BY <2>1, <2>2, <2>3
<1>8. \A k \in Nat : q < k => d < NewYear(k)
  <2> TAKE k \in Nat
  <2>1. ASSUME q < k PROVE d < NewYear(k)
    <3>1. NewYear(k) >= start + y /\ NewYear(k) \in Nat
      BY <1>2, <1>3, <1>5, <2>1
    <3> QED  BY <1>1, <1>6, <3>1
  <2> QED  BY <2>1
<1>9. q <= year <=> d < NewYear(year + 1)
  <2>1. year + 1 \in Nat /\ NewYear(year + 1) \in Nat
    BY <1>2
  <2>2. q <= year => d < NewYear(year + 1)
    BY <1>3, <1>8, <2>1
  <2>3. ~ (q <= year) => NewYear(year + 1) <= d
    BY <1>3, <1>7, <2>1
  <2> QED  BY <2>1, <2>2, <2>3
<1>10. year <= q <=> NewYear(year) <= d
  <2>1. NewYear(year) \in Nat
    BY <1>2
  <2>2. ~ (year <= q) => d < NewYear(year)
    BY <1>3, <1>8
  <2>3. year <= q => NewYear(year) <= d
    BY <1>7
  <2> QED  BY <2>1, <2>2, <2>3
<1>11. q = year => YearDay(d) = d - NewYear(year) + 1
  BY <1>3, <1>4, <1>6
<1>12. NewYear(year) \in Nat /\ NewYear(year + 1) \in Nat
  BY <1>2
<1> QED  BY <1>3, <1>4, <1>9, <1>10, <1>11, <1>12

\* Days before day 0 are of earlier years.
LEMMA EarlierYears == \A d \in Int : d < 0 => YearOf(d) \in Int /\ YearOf(d) < 0
<1> TAKE d \in Int
<1> PICK y : y = MonthDays * YearMonths
  OBVIOUS
<1>1. y \in Nat \ {0}
  BY MatrixAssumption
<1>2. YearOf(d) = d \div y
  BY DEF YearOf
<1> QED  BY <1>1, <1>2

\* The window of the bits of a year that a period looks at.
LEMMA WindowOfYear ==
  ASSUME NEW d \in Nat, NEW start \in Int, NEW to \in Int, NEW year, year = YearOf(d),
         NEW first, first = Greatest({start, NewYear(year)}),
         NEW last, last = Least({to, NewYear(year + 1) - 1}),
         start < NewYear(year + 1)
  PROVE  /\ Between(YearDay(first), YearDay(d), YearDay(first) + last - first)
              <=> Between(start, d, to)
         /\ YearDay(d) - YearDay(first) + (first - start) = d - start
<1> PICK low : low = NewYear(year)
  OBVIOUS
<1> PICK high : high = NewYear(year + 1)
  OBVIOUS
<1>1. year \in Nat /\ low \in Nat /\ high \in Nat /\ low <= d /\ d < high
  <2>1. year \in Nat
    BY YearBounds
  <2> QED  BY <2>1, YearBounds
<1>2. YearDay(d) = d - low + 1
  BY <1>1, YearBounds
<1>3. first = (IF start >= low THEN start ELSE low) /\ last = (IF to <= high - 1 THEN to ELSE high - 1)
  BY <1>1, Larger
<1>4. first \in Nat /\ low <= first /\ first < high
  BY <1>1, <1>3
<1>5. YearDay(first) = first - low + 1
  <2>1. YearOf(first) = year
    <3>1. YearOf(first) \in Nat /\ YearOf(first) <= year /\ year <= YearOf(first)
      BY <1>1, <1>4, YearBounds
    <3> QED  BY <1>1, <3>1
  <2> QED  BY <1>1, <1>4, <2>1, YearBounds
<1>6. Between(YearDay(first), YearDay(d), YearDay(first) + last - first) <=> first <= d /\ d <= last
  BY <1>1, <1>2, <1>3, <1>4, <1>5 DEF Between
<1>7. first <= d /\ d <= last <=> Between(start, d, to)
  BY <1>1, <1>3 DEF Between
<1>8. YearDay(d) - YearDay(first) + (first - start) = d - start
  BY <1>1, <1>2, <1>4, <1>5
<1> QED  BY <1>6, <1>7, <1>8

LEMMA ActiveOffsetsFacts ==
  ASSUME MatrixInv, NEW i \in Identified, NEW start \in Int, NEW to \in Int
  PROVE  ActiveOffsets(i, start, to) = {d - start : d \in {e \in DaysIn(i) : Between(start, e, to)}}
<1>1. i \in DOMAIN actors /\ actors[i].external # ANONYMOUS
  BY DEF Identified
<1>2. \A d \in DaysIn(i) : d \in Nat
  BY MatrixAssumption DEF DaysIn, Pairs
<1>3. \A b : b \in bits[i] <=> \E d \in DaysIn(i) : b = BitOf(d)
  <2>1. \A b : b \in bits[i] <=> \E m \in held : /\ ExternalOf[m] = actors[i].external
                                                  /\ b = BitOf(DayOf[m])
    BY <1>1 DEF MatrixInv, BitsRight
  <2>2. \A d : d \in DaysIn(i) <=>
          \E m \in held : ExternalOf[m] = actors[i].external /\ DayOf[m] = d
    BY <1>1, DaysOfActor
  <2> QED  BY <2>1, <2>2
<1> DEFINE first(year) == Greatest({start, NewYear(year)})
           last(year) == Least({to, NewYear(year + 1) - 1})
           inside(year) == {c \in bits[i] : c[1] = year /\
                              Between(YearDay(first(year)), c[2],
                                      YearDay(first(year)) + last(year) - first(year))}
           found(year) == {b[2] - YearDay(first(year)) + (first(year) - start) : b \in inside(year)}
<1>4. ActiveOffsets(i, start, to) = UNION {found(year) : year \in YearOf(start) .. YearOf(to)}
  BY Zenon DEF ActiveOffsets
<1>5. YearOf(start) \in Int /\ YearOf(to) \in Int
  <2>1. \A d \in Nat : YearOf(d) \in Nat
    BY YearBounds
  <2> QED  BY <2>1, EarlierYears
<1>6. ASSUME NEW d \in DaysIn(i), start < NewYear(YearOf(d) + 1)
      PROVE  /\ Between(YearDay(first(YearOf(d))), YearDay(d),
                        YearDay(first(YearOf(d))) + last(YearOf(d)) - first(YearOf(d)))
                   <=> Between(start, d, to)
             /\ YearDay(d) - YearDay(first(YearOf(d))) + (first(YearOf(d)) - start) = d - start
  BY <1>2, <1>6, WindowOfYear
<1>7. \A d \in DaysIn(i) : BitOf(d)[1] = YearOf(d) /\ BitOf(d)[2] = YearDay(d)
  BY <1>2, Calendar
<1>8. ASSUME NEW d \in DaysIn(i)
      PROVE  YearOf(start) <= YearOf(d) <=> start < NewYear(YearOf(d) + 1)
  <2>1. YearOf(d) \in Nat /\ NewYear(YearOf(d) + 1) \in Nat
    BY <1>2, YearBounds
  <2>2. CASE start \in Nat
    BY <2>1, <2>2, YearBounds
  <2>3. CASE start < 0
    BY <1>5, <2>1, <2>3, EarlierYears
  <2> QED  BY <2>2, <2>3
<1>9. ASSUME NEW d \in DaysIn(i), Between(start, d, to)
      PROVE  d - start \in ActiveOffsets(i, start, to)
  <2> PICK year : year = YearOf(d)
    OBVIOUS
  <2>1. d \in Nat /\ to \in Nat /\ start <= d /\ d <= to /\ year \in Nat
    BY <1>2, <1>9, YearBounds DEF Between
  <2>2. start < NewYear(year + 1) /\ NewYear(year) <= d
    <3>1. NewYear(year) \in Nat /\ NewYear(year + 1) \in Nat /\ d < NewYear(year + 1)
          /\ NewYear(year) <= d
      <4>1. YearOf(d) <= year /\ year <= YearOf(d)
        BY <2>1
      <4> QED  BY <2>1, <4>1, YearBounds
    <3> QED  BY <2>1, <3>1
  <2>3. year <= YearOf(to)
    <3>1. NewYear(year) \in Nat /\ NewYear(year) <= to
      BY <2>1, <2>2, YearBounds
    <3> QED  BY <2>1, <3>1, YearBounds
  <2>4. year \in YearOf(start) .. YearOf(to)
    BY <1>5, <1>8, <2>1, <2>2, <2>3
  <2>5. BitOf(d) \in inside(year)
    BY <1>3, <1>6, <1>7, <1>9, <2>2
  <2>6. d - start \in found(year)
    BY <1>6, <1>7, <2>2, <2>5
  <2> HIDE DEF found
  <2> QED  BY <1>4, <2>4, <2>6
<1>10. ASSUME NEW o \in ActiveOffsets(i, start, to)
       PROVE  \E d \in DaysIn(i) : Between(start, d, to) /\ o = d - start
  <2>1. PICK year \in YearOf(start) .. YearOf(to) : o \in found(year)
    <3> HIDE DEF found
    <3> QED  BY <1>4
  <2>2. PICK b \in inside(year) : o = b[2] - YearDay(first(year)) + (first(year) - start)
    BY <2>1
  <2>3. PICK d \in DaysIn(i) : b = BitOf(d)
    BY <1>3
  <2>4. b[1] = year /\ year = YearOf(d) /\ b[2] = YearDay(d)
    BY <1>7, <2>3
  <2>5. start < NewYear(YearOf(d) + 1)
    BY <1>5, <1>8, <2>4
  <2>6. Between(start, d, to) /\ o = d - start
    BY <1>6, <2>2, <2>4, <2>5
  <2> QED  BY <2>6
<1> QED  BY <1>9, <1>10

LEMMA Within ==
  \A a, b, c \in Int : a <= b /\ b <= c => c - a + 1 \in Nat /\ b - a \in 0 .. (c - a + 1) - 1
OBVIOUS

LEMMA SameWindow ==
  \A d, day, start, width \in Int :
    Between(d - start, day - start, d - start + width - 1) <=> Between(day - width + 1, d, day)
BY DEF Between

LEMMA NarrowWindow ==
  \A d, day, start, to, width, widest \in Int :
    start <= day - widest + 1 /\ width <= widest /\ day <= to
      => (Between(day - width + 1, d, day) => Between(start, d, to))
BY DEF Between

LEMMA ActivesFollow == ASSUME MatrixInv PROVE ActivesAreRight
<1> SUFFICES ASSUME NEW period \in Periods, NEW day \in period[1] .. period[2]
             PROVE  Actives(period[1], period[2])[day] =
                      [dau |-> ActiveWithin(day, 1), wau |-> ActiveWithin(day, WEEK),
                       mau |-> ActiveWithin(day, MONTH)]
  BY DEF ActivesAreRight
<1> PICK from : from = period[1]
  OBVIOUS
<1> PICK to : to = period[2]
  OBVIOUS
<1> PICK start : start = from - (MONTH - 1)
  OBVIOUS
<1> DEFINE size == to - start + 1
<1> PICK k : k = day - start
  OBVIOUS
<1> DEFINE N == Len(actors)
<1>1. from \in Int /\ to \in Int /\ WEEK \in Nat \ {0} /\ MONTH \in Nat \ {0} /\ WEEK <= MONTH
  BY MatrixAssumption
<1>2. /\ start \in Int /\ size \in Nat /\ day \in Int /\ day \in from .. to
      /\ k \in 0 .. size - 1 /\ start <= day - MONTH + 1 /\ day <= to
  <2>1. day \in from .. to
    OBVIOUS
  <2>2. day \in Int /\ from <= day /\ day <= to
    BY <1>1, <2>1
  <2>3. start \in Int /\ start <= day - MONTH + 1 /\ start <= day
    BY <1>1, <2>2
  <2>4. size \in Nat /\ k \in 0 .. size - 1
    BY <1>1, <2>2, <2>3, Within
  <2> QED  BY <2>1, <2>2, <2>3, <2>4
<1>3. N \in Nat /\ DOMAIN actors = 1 .. N
  <2>1. actors \in Seq(Actor)
    BY DEF MatrixInv, ActorsRight
  <2> QED  BY <2>1
<1>4. \A i \in Identified : \A d \in DaysIn(i) : d \in Int
  <2> SUFFICES ASSUME NEW i \in Identified, NEW d \in DaysIn(i) PROVE d \in Int
    OBVIOUS
  <2>1. d \in Days
    BY DEF DaysIn, Pairs
  <2> QED  BY <2>1, MatrixAssumption
<1>5. \A i \in Identified : ActiveOffsets(i, start, to) =
        {d - start : d \in {e \in DaysIn(i) : Between(start, e, to)}}
  BY <1>1, <1>2, ActiveOffsetsFacts
<1>6. \A i \in Identified : ActiveOffsets(i, start, to) \in SUBSET (0 .. size - 1)
  <2> TAKE i \in Identified
  <2>1. ASSUME NEW d \in DaysIn(i), Between(start, d, to)
        PROVE  d - start \in 0 .. size - 1
    <3>1. d \in Int /\ start <= d /\ d <= to
      BY <1>4, <2>1 DEF Between
    <3> QED  BY <1>1, <1>2, <3>1, Within
  <2> QED  BY <1>5, <2>1
<1>7. ASSUME NEW width \in 1 .. MONTH, NEW i \in Identified
      PROVE  InWindow(ActiveOffsets(i, start, to), width, k)
               <=> \E d \in DaysIn(i) : Between(day - width + 1, d, day)
  <2>1. ASSUME NEW d \in DaysIn(i)
        PROVE  /\ Between(day - width + 1, d, day) => Between(start, d, to)
               /\ Between(d - start, k, d - start + width - 1) <=> Between(day - width + 1, d, day)
    <3>1. d \in Int /\ width \in Int /\ MONTH \in Int /\ width <= MONTH
      BY <1>1, <1>4
    <3>2. Between(day - width + 1, d, day) => Between(start, d, to)
      BY <1>1, <1>2, <3>1, NarrowWindow
    <3>3. Between(d - start, k, d - start + width - 1) <=> Between(day - width + 1, d, day)
      BY <1>1, <1>2, <3>1, SameWindow
    <3> QED  BY <3>2, <3>3
  <2>2. InWindow(ActiveOffsets(i, start, to), width, k)
          <=> \E d \in DaysIn(i) : Between(start, d, to) /\ Between(d - start, k, d - start + width - 1)
    BY <1>5 DEF InWindow
  <2> QED  BY <2>1, <2>2
<1>8. \A width \in 1 .. MONTH : Windows(start, to, width)[k] = ActiveWithin(day, width)
  <2> TAKE width \in 1 .. MONTH
  <2>1. Windows(start, to, width)[k] = Cardinality(ActiveIn(N, start, to, width, k))
    <3>1. width \in Nat \ {0} /\ Len(actors) \in Nat /\ to - start + 1 \in Nat
          /\ start \in Int /\ to \in Int
      BY <1>1, <1>2, <1>3
    <3>2. OffsetsWithin(start, to)
      BY <1>6, <3>1 DEF OffsetsWithin
    <3>3. WindowsCount(start, to, width)
      BY <3>1, <3>2, WindowsFacts
    <3>4. k \in 0 .. (to - start + 1) - 1
      BY <1>2
    <3> QED  BY <3>3, <3>4 DEF WindowsCount
  <2>2. ActiveIn(N, start, to, width, k)
          = {i \in Identified : \E d \in DaysIn(i) : Between(day - width + 1, d, day)}
    <3>1. \A i \in Identified : i \in 1 .. N
      BY <1>3 DEF Identified
    <3> QED  BY <1>7, <3>1 DEF ActiveIn
  <2> QED  BY <2>1, <2>2 DEF ActiveWithin
<1>9. Cardinality({i \in Identified : day - start \in ActiveOffsets(i, start, to)}) = ActiveWithin(day, 1)
  <2>1. ASSUME NEW i \in Identified
        PROVE  day - start \in ActiveOffsets(i, start, to)
                 <=> \E d \in DaysIn(i) : Between(day - 1 + 1, d, day)
    <3>1. 1 \in 1 .. MONTH
      BY <1>1
    <3>2. \A o \in ActiveOffsets(i, start, to) : Between(o, k, o + 1 - 1) <=> o = k
      <4>1. \A o \in ActiveOffsets(i, start, to) : o \in Int
        BY <1>6
      <4> QED  BY <1>2, <4>1 DEF Between
    <3> QED  BY <1>7, <3>1, <3>2 DEF InWindow
  <2> QED  BY <2>1 DEF ActiveWithin
<1>10. Actives(from, to)[day] =
         [dau |-> Cardinality({i \in Identified : day - start \in ActiveOffsets(i, start, to)}),
          wau |-> Windows(start, to, WEEK)[day - start],
          mau |-> Windows(start, to, MONTH)[day - start]]
  BY <1>2 DEF Actives
<1>11. WEEK \in 1 .. MONTH /\ MONTH \in 1 .. MONTH
  BY <1>1
<1> QED  BY <1>8, <1>9, <1>10, <1>11

\* The actives of any period are the distinct actors with a row in the window
\* that ends on each day: marks at the ends of the windows that an actor's bits
\* give, overlapping or cut off, year by year, sum up to it.
THEOREM ReportedActivesAreRight == MatrixSpec => []ActivesAreRight
<1> QED  BY MatrixInvariance, ActivesFollow, PTL

=============================================================================
