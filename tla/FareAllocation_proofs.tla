----------------------- MODULE FareAllocation_proofs -----------------------
(***************************************************************************)
(* Theorems about FareAllocation, for any fares, points and detours and    *)
(* any number of passengers.  The estimate sums the shares of a sequence   *)
(* that was sorted: SumTrace says what a sum is, one summand after the     *)
(* other, AscendingSorts that a sorted sequence is one of its own values   *)
(* in ascending order, and EnumerationIsBelow that there is only one.      *)
(***************************************************************************)
EXTENDS FareAllocation, FoldLemmas, FiniteSetTheorems

RowsTyped == row \in [Rows -> Passenger \cup {None}]

LEMMA RowsInvariance == Spec => []RowsTyped
  <1>1. Init => RowsTyped
    BY DEF Init, RowsTyped
  <1>2. RowsTyped /\ [Next]_vars => RowsTyped'
    <2> SUFFICES ASSUME RowsTyped, [Next]_vars PROVE RowsTyped'
      OBVIOUS
    <2>1. ASSUME NEW i \in Rows, NEW source \in Points, NEW destination \in Points,
                 NEW distance, Accept(i, source, destination, distance)
          PROVE  RowsTyped'
      BY <2>1 DEF Accept, RowsTyped, Passenger, PassengerStatus
    <2>2. ASSUME NEW i \in Rows, NEW status \in PassengerStatus,
                 row[i] # None, row' = [row EXCEPT ![i].status = status]
          PROVE  RowsTyped'
      BY <2>2 DEF RowsTyped, Passenger
    <2>3. CASE UNCHANGED vars
      BY <2>3 DEF vars, RowsTyped
    <2>4. QED
      BY <2>1, <2>2, <2>3
         DEF Next, CompletePassengerRide, UpdatePassengerRideStatus, PassengerStatus
  <1>3. QED
    BY <1>1, <1>2, PTL DEF Spec

------------------------------------------------------------------------------
(* Arithmetic.                                                              *)

LEMMA ProductIsMonotone ==
    ASSUME NEW c \in Nat, NEW x \in Int, NEW y \in Int, x <= y
    PROVE  c * x <= c * y
  <1>1. c * (y - x) >= 0
    BY SMT
  <1>2. QED
    BY <1>1, SMT

LEMMA DistanceIsNatural ==
    ASSUME NEW a \in Int, NEW b \in Int
    PROVE  Distance(a, b) \in Nat
  BY DEF Distance

(* It is no further to the end of a trip than from its start, but for the   *)
(* way to the trip.                                                         *)
LEMMA DistanceWithin ==
    ASSUME NEW x \in Int, NEW a \in Int, NEW b \in Int
    PROVE  /\ Outside(x, a, b) \in Nat
           /\ Distance(x, b) <= Distance(a, b) + Outside(x, a, b)
  BY DEF Distance, Outside

------------------------------------------------------------------------------
(* Sums.                                                                    *)

(* A sum of natural numbers, one summand after the other.                   *)
LEMMA SumTrace ==
    ASSUME NEW v, NEW len \in Nat, v \in [1..len -> Nat]
    PROVE  \E t \in [0..len -> Nat]:
               /\ t[0] = 0
               /\ \A k \in 1..len: t[k] = t[k - 1] + v[k]
               /\ t[len] = SumOf(v)
  <1> DEFINE n == len
             A == Nat
             base == 0
             op == [k \in 1..n |-> [s \in A |-> s + v[k]]]
             Folds(f) ==
                 f = [s \in SUBSET (1..n) |->
                        IF s = {} THEN base
                        ELSE f[s \ {Max(s)}] + v[Max(s)]]
             iter == CHOOSE f: Folds(f)
  <1>1. n \in Nat /\ DOMAIN v = 1..n /\ base \in A
    OBVIOUS
  <1>2. \A k \in 1..n: \A s \in A: s + v[k] \in A
    OBVIOUS
  <1>3. \A k \in 1..n: \A s \in A: op[k][s] = s + v[k]
    OBVIOUS
  <1>4. op \in [1..n -> [A -> A]]
    BY <1>2
  <1> HIDE DEF n, op, A, base
  <1>5. SumOf(v) = iter[1..n]
    BY <1>1, Zenon DEF SumOf, FoldLeft, MapThenFoldSet, base
  <1>6. Folds(iter)
    <2>1. PICK f \in [SUBSET (1..n) -> A]: IsFold(f, n, op, base)
      BY <1>1, <1>4, FoldExists
    <2>2. ASSUME NEW s \in SUBSET (1..n)
          PROVE  f[s] = IF s = {} THEN base
                        ELSE f[s \ {Max(s)}] + v[Max(s)]
      <3>1. CASE s = {}
        BY <2>1, <3>1 DEF IsFold
      <3>2. CASE s # {}
        <4>1. Max(s) \in 1..n /\ f[s \ {Max(s)}] \in A
          BY <1>1, <2>1, <3>2, MaxOfIndices
        <4>2. QED
          BY <1>3, <2>1, <3>2, <4>1 DEF IsFold
      <3>3. QED
        BY <3>1, <3>2
    <2>3. Folds(f)
      BY <2>2
    <2> HIDE DEF Folds
    <2>4. QED
      BY <2>3
  <1> HIDE DEF iter
  <1>7. iter[{}] = base
    BY <1>6
  <1>8. ASSUME NEW s \in SUBSET (1..n), s # {}, iter[s \ {Max(s)}] \in A
        PROVE  iter[s] = op[Max(s)][iter[s \ {Max(s)}]]
    <2>1. Max(s) \in 1..n
      BY <1>1, <1>8, MaxOfIndices
    <2>2. iter[s] = iter[s \ {Max(s)}] + v[Max(s)]
      BY <1>6, <1>8
    <2>3. QED
      BY <1>3, <1>8, <2>1, <2>2
  <1> HIDE DEF Folds
  <1>9. PICK t \in [0..n -> A]: IsTrace(t, n, op, base, iter[1..n])
    BY <1>1, <1>4, <1>7, <1>8, FoldValue
  <1>10. \A k \in 1..n: t[k] = t[k - 1] + v[k]
    <2>1. \A k \in 1..n: k - 1 \in 0..n
      BY <1>1
    <2>2. QED
      BY <1>3, <1>9, <2>1 DEF IsTrace
  <1>11. QED
    BY <1>5, <1>9, <1>10 DEF IsTrace, n, A, base

LEMMA SumIsNatural ==
    ASSUME NEW v, NEW n \in Nat, v \in [1..n -> Nat]
    PROVE  SumOf(v) \in Nat
  BY SumTrace

LEMMA SumOfOne ==
    ASSUME NEW v, v \in [1..1 -> Nat]
    PROVE  SumOf(v) = v[1]
  <1>1. PICK t \in [0..1 -> Nat]:
               /\ t[0] = 0
               /\ \A k \in 1..1: t[k] = t[k - 1] + v[k]
               /\ t[1] = SumOf(v)
    BY SumTrace
  <1>2. 1 \in 1..1 /\ 1 - 1 = 0 /\ v[1] \in Nat
    OBVIOUS
  <1>3. t[1] = t[0] + v[1]
    BY <1>1, <1>2
  <1>4. QED
    BY <1>1, <1>2, <1>3

LEMMA SumOfTwo ==
    ASSUME NEW v, v \in [1..2 -> Nat]
    PROVE  SumOf(v) = v[1] + v[2]
  <1>1. PICK t \in [0..2 -> Nat]:
               /\ t[0] = 0
               /\ \A k \in 1..2: t[k] = t[k - 1] + v[k]
               /\ t[2] = SumOf(v)
    BY SumTrace
  <1>2. 1 \in 1..2 /\ 2 \in 1..2 /\ 1 - 1 = 0 /\ 2 - 1 = 1 /\ v[1] \in Nat /\ v[2] \in Nat
    OBVIOUS
  <1>3. t[1] = t[0] + v[1] /\ t[2] = t[1] + v[2]
    BY <1>1, <1>2
  <1>4. QED
    BY <1>1, <1>2, <1>3

------------------------------------------------------------------------------
(* Sorting.                                                                 *)

LEMMA IndicesAreFinite ==
    ASSUME NEW n \in Nat
    PROVE  IsFiniteSet(1..n) /\ Cardinality(1..n) = n
  <1>1. IsFiniteSet(1..n) /\ Cardinality(1..n) = IF 1 > n THEN 0 ELSE n - 1 + 1
    BY FS_Interval
  <1>2. QED
    BY <1>1

LEMMA LeastExists ==
    ASSUME NEW S, S # {}, NEW v, \A x \in S: v[x] \in Nat
    PROVE  \E m \in S: \A x \in S: v[m] <= v[x]
  <1> DEFINE T == {v[x]: x \in S}
             R == OpToRel(<, Nat)
  <1>1. T \subseteq Nat /\ T # {}
    OBVIOUS
  <1>2. \A a, b \in Nat: a < b => <<a, b>> \in R
    BY DEF OpToRel
  <1>3. IsWellFoundedOn(R, Nat)
    BY NatLessThanWellFounded
  <1> HIDE DEF T, R
  <1>4. PICK least \in T: \A y \in T: <<y, least>> \notin R
    BY <1>1, <1>3, WFMin
  <1>5. PICK m \in S: v[m] = least
    BY DEF T
  <1>6. \A x \in S: v[x] \in T /\ v[x] \in Nat
    BY DEF T
  <1>7. \A x \in S: ~(v[x] < v[m])
    BY <1>2, <1>4, <1>5, <1>6
  <1>8. QED
    BY <1>6, <1>7

Sorting(p, v, n) == \A i, j \in 1..n: i < j => p[i] # p[j] /\ v[p[i]] <= v[p[j]]

(* Taking the least that is left, again and again, sorts.                   *)
LEMMA SortingExists ==
    ASSUME NEW n \in Nat, NEW v \in [1..n -> Nat]
    PROVE  \E p \in [1..n -> 1..n]: Sorting(p, v, n)
  <1> DEFINE Left(p, k) == {m \in 1..n: \A j \in 1..k: p[j] # m}
             Taken(p, k) == Sorting(p, v, k) /\ \A i \in 1..k: \A m \in Left(p, k): v[p[i]] <= v[m]
             S == {k \in 0..n: \E p \in [1..k -> 1..n]: Taken(p, k)}
  <1>1. 0 \in S
    <2> DEFINE p == [i \in 1..0 |-> i]
    <2>1. p \in [1..0 -> 1..n] /\ \A i \in 1..0: FALSE
      OBVIOUS
    <2> HIDE DEF p
    <2>2. Taken(p, 0)
      BY <2>1 DEF Sorting
    <2> HIDE DEF Taken
    <2>3. 0 \in 0..n
      OBVIOUS
    <2>4. QED
      BY <2>1, <2>2, <2>3
  <1>2. ASSUME NEW k \in 0..n, k < n, k \in S
        PROVE  k + 1 \in S
    <2>1. PICK p \in [1..k -> 1..n]: Taken(p, k)
      BY <1>2
    <2>2. Left(p, k) # {}
      <3> SUFFICES ASSUME Left(p, k) = {} PROVE FALSE
        OBVIOUS
      <3>1. \A m \in 1..n: \E j \in 1..k: p[j] = m
        OBVIOUS
      <3>2. p \in Surjection(1..k, 1..n)
        BY <3>1 DEF Surjection
      <3>3. IsFiniteSet(1..k) /\ Cardinality(1..k) = k /\ Cardinality(1..n) = n
        BY <1>2, IndicesAreFinite
      <3>4. Cardinality(1..n) <= Cardinality(1..k)
        BY <3>2, <3>3, FS_Surjection
      <3>5. QED
        BY <1>2, <3>3, <3>4
    <2>3. PICK least \in Left(p, k): \A x \in Left(p, k): v[least] <= v[x]
      <3> DEFINE T == Left(p, k)
      <3>1. T # {} /\ \A x \in T: v[x] \in Nat
        BY <2>2
      <3> HIDE DEF T
      <3>2. \E m \in T: \A x \in T: v[m] <= v[x]
        BY <3>1, LeastExists
      <3>3. QED
        BY <3>2 DEF T
    <2> DEFINE q == [i \in 1..(k + 1) |-> IF i = k + 1 THEN least ELSE p[i]]
    <2>4. k + 1 \in 0..n /\ k + 1 \notin 1..k
          /\ \A i \in 1..(k + 1): i = k + 1 \/ (i \in 1..k /\ i < k + 1)
      BY <1>2
    <2>5. q \in [1..(k + 1) -> 1..n] /\ q[k + 1] = least /\ \A i \in 1..k: q[i] = p[i]
      BY <1>2, <2>4
    <2> HIDE DEF q
    <2>6. Left(q, k + 1) \subseteq Left(p, k)
      BY <1>2, <2>5
    <2>7. Sorting(q, v, k + 1)
      <3> SUFFICES ASSUME NEW i \in 1..(k + 1), NEW j \in 1..(k + 1), i < j
                   PROVE  q[i] # q[j] /\ v[q[i]] <= v[q[j]]
        BY DEF Sorting
      <3>1. i \in 1..k
        BY <1>2
      <3>2. CASE j = k + 1
        BY <2>1, <2>5, <3>1, <3>2
      <3>3. CASE j \in 1..k
        BY <2>1, <2>5, <3>1, <3>3 DEF Sorting
      <3>4. QED
        BY <2>4, <3>2, <3>3
    <2>8. ASSUME NEW i \in 1..(k + 1), NEW m \in Left(q, k + 1)
          PROVE  v[q[i]] <= v[m]
      BY <2>1, <2>3, <2>4, <2>5, <2>6
    <2>9. Taken(q, k + 1)
      BY <2>7, <2>8
    <2>10. QED
      BY <2>4, <2>5, <2>9
  <1>3. n \in S
    <2>1. \A k \in 0..n: k \in S
      <3> HIDE DEF S
      <3>1. QED
        BY <1>1, <1>2, BoundedInduction
    <2> HIDE DEF S
    <2>2. QED
      BY <2>1
  <1>4. QED
    BY <1>3

LEMMA AscendingSorts ==
    ASSUME NEW n \in Nat, NEW v \in Seq(Nat), Len(v) = n
    PROVE  \E p \in [1..n -> 1..n]: Sorting(p, v, n) /\ Ascending(v) = [i \in 1..n |-> v[p[i]]]
  <1> DEFINE Sorts(p) == \A i, j \in 1..Len(v): i < j => p[i] # p[j] /\ v[p[i]] <= v[p[j]]
             order == CHOOSE p \in [1..Len(v) -> 1..Len(v)]: Sorts(p)
  <1>1. v \in [1..n -> Nat]
    OBVIOUS
  <1>2. \E p \in [1..Len(v) -> 1..Len(v)]: Sorts(p)
    BY <1>1, SortingExists DEF Sorting
  <1>3. order \in [1..Len(v) -> 1..Len(v)] /\ Sorts(order)
    <2> HIDE DEF Sorts
    <2>1. QED
      BY <1>2
  <1>4. Ascending(v) = [i \in 1..Len(v) |-> v[order[i]]]
    BY DEF Ascending
  <1> HIDE DEF order
  <1>5. QED
    BY <1>3, <1>4 DEF Sorting

(* However the members of a set are enumerated in ascending order, the      *)
(* values are the same: of two enumerations that first differ, one would    *)
(* have more members below a value than the other.                          *)
Enumerates(b, S, n, v) ==
    /\ b \in [1..n -> S]
    /\ \A i, j \in 1..n: i < j => b[i] # b[j] /\ v[b[i]] <= v[b[j]]

LEMMA EnumerationIsBelow ==
    ASSUME NEW S, NEW n \in Nat, IsFiniteSet(S), Cardinality(S) = n,
           NEW v \in [S -> Nat], NEW b, NEW c, Enumerates(b, S, n, v), Enumerates(c, S, n, v),
           NEW i \in 1..n
    PROVE  v[c[i]] <= v[b[i]]
  <1> SUFFICES ASSUME v[b[i]] < v[c[i]] PROVE FALSE
    <2>1. v[b[i]] \in Nat /\ v[c[i]] \in Nat
      BY DEF Enumerates
    <2>2. QED
      BY <2>1
  <1>1. c \in Surjection(1..n, S)
    <2>1. c \in Injection(1..n, S)
      BY DEF Injection, IsInjective, Enumerates
    <2>2. Cardinality(1..n) = n
      BY IndicesAreFinite
    <2>3. QED
      BY <2>1, <2>2, FS_Injection
  <1>2. ASSUME NEW k \in 1..i
        PROVE  \E j \in 1..(i - 1): c[j] = b[k]
    <2>1. k \in 1..n /\ (k = i \/ k < i)
      BY <1>2
    <2>2. PICK j \in 1..n: c[j] = b[k]
      BY <1>1, <2>1 DEF Surjection, Enumerates
    <2>3. v[c[j]] <= v[b[i]]
      <3>1. v[b[i]] \in Nat
        BY DEF Enumerates
      <3>2. QED
        BY <2>1, <2>2, <3>1 DEF Enumerates
    <2>4. v[c[j]] \in Nat /\ v[b[i]] \in Nat /\ v[c[i]] \in Nat
      BY DEF Enumerates
    <2>5. j < i
      <3> SUFFICES ASSUME ~(j < i) PROVE FALSE
        OBVIOUS
      <3>1. j = i \/ i < j
        OBVIOUS
      <3>2. v[c[i]] <= v[c[j]]
        BY <2>4, <3>1 DEF Enumerates
      <3>3. QED
        BY <2>3, <2>4, <3>2
    <2>6. QED
      BY <2>2, <2>5
  <1> DEFINE f == [k \in 1..i |-> CHOOSE j \in 1..(i - 1): c[j] = b[k]]
  <1>3. \A k \in 1..i: f[k] \in 1..(i - 1) /\ c[f[k]] = b[k]
    BY <1>2
  <1>4. f \in [1..i -> 1..(i - 1)]
    BY <1>3
  <1> HIDE DEF f
  <1>5. IsFiniteSet(1..i) /\ IsFiniteSet(1..(i - 1))
        /\ Cardinality(1..i) = i /\ Cardinality(1..(i - 1)) = i - 1
    <2>1. i \in Nat /\ i - 1 \in Nat
      OBVIOUS
    <2>2. QED
      BY <2>1, IndicesAreFinite
  <1>6. PICK x \in 1..i, y \in 1..i: x # y /\ f[x] = f[y]
    <2>1. Cardinality(1..(i - 1)) < Cardinality(1..i)
      BY <1>5
    <2>2. QED
      BY <1>4, <1>5, <2>1, FS_PigeonHole
  <1>7. b[x] = b[y] /\ x \in 1..n /\ y \in 1..n
    BY <1>3, <1>6
  <1>8. x < y \/ y < x
    BY <1>6
  <1>9. QED
    BY <1>7, <1>8 DEF Enumerates

------------------------------------------------------------------------------
(* What is shared with a passenger is not negative, and within his trip     *)
(* when the newcomer boards there.                                          *)
LEMMA SharedSegmentIsBounded ==
    ASSUME NEW i \in Rows, row[i] \in Passenger,
           NEW source \in Points, NEW distance \in Nat
    PROVE  /\ SharedSegment(i, source, distance) \in Nat
           /\ SharedSegment(i, source, distance)
                  <= Distance(row[i].source, row[i].destination)
                         + Outside(source, row[i].source, row[i].destination)
  <1>1. source \in Int /\ row[i].source \in Int /\ row[i].destination \in Int
    BY FareAssumption DEF Passenger
  <1>2. Distance(source, row[i].destination) \in Nat
    BY <1>1, DistanceIsNatural
  <1>3. SharedSegment(i, source, distance) \in Nat
        /\ SharedSegment(i, source, distance) <= Distance(source, row[i].destination)
    BY <1>2 DEF SharedSegment
  <1>4. /\ Outside(source, row[i].source, row[i].destination) \in Nat
        /\ Distance(source, row[i].destination)
               <= Distance(row[i].source, row[i].destination)
                      + Outside(source, row[i].source, row[i].destination)
    BY <1>1, DistanceWithin
  <1>5. Distance(row[i].source, row[i].destination) \in Nat
    BY <1>1, DistanceIsNatural
  <1>6. QED
    BY <1>2, <1>3, <1>4, <1>5

------------------------------------------------------------------------------
(* What a newcomer is told.                                                 *)

(* What each of those who ride shares with him, and his fare when the       *)
(* shared distances are u in ascending order.                               *)
Segments(source, distance) == [i \in Riding |-> SharedSegment(i, source, distance)]

FareAmong(u, n, distance) ==
    Unit * BaseFare + AllocateFareAmongPassengers(u, n + 1) + CalculateFare(distance - u[n])

LEMMA RidersAreFinite ==
    IsFiniteSet(Riding) /\ Cardinality(Riding) \in 0..Cardinality(Rows)
  <1>1. Riding \subseteq Rows /\ IsFiniteSet(Rows)
    BY UnitAssumption DEF Riding
  <1>2. IsFiniteSet(Riding) /\ Cardinality(Riding) <= Cardinality(Rows)
    BY <1>1, FS_Subset
  <1>3. Cardinality(Riding) \in Nat /\ Cardinality(Rows) \in Nat
    BY <1>1, <1>2, FS_CardinalityType
  <1>4. QED
    BY <1>2, <1>3

(* The riders in any order are a sequence of as many as there are.          *)
LEMMA RidersInOrder ==
    /\ \E riders: riders \in SetToSeqs(Riding)
    /\ \A riders \in SetToSeqs(Riding):
           /\ riders \in [1..Cardinality(Riding) -> Riding]
           /\ \A i, j \in 1..Cardinality(Riding): i # j => riders[i] # riders[j]
           /\ riders \in Seq(Riding) /\ Len(riders) = Cardinality(Riding)
  <1> DEFINE n == Cardinality(Riding)
  <1>1. n \in Nat
    BY RidersAreFinite
  <1>2. SetToSeqs(Riding)
            = {f \in [1..n -> Riding]: \A i, j \in 1..n: i # j => f[i] # f[j]}
    BY DEF SetToSeqs
  <1>3. PICK f \in Bijection(1..n, Riding): TRUE
    <2>1. PICK k \in Nat: ExistsBijection(1..k, Riding)
      BY RidersAreFinite, FS_NatBijection
    <2>2. k = n
      BY <2>1, IndicesAreFinite, FS_Bijection
    <2>3. QED
      BY <2>1, <2>2 DEF ExistsBijection
  <1>4. f \in SetToSeqs(Riding)
    BY <1>2, <1>3 DEF Bijection, Injection, IsInjective
  <1> HIDE DEF n
  <1>5. \A riders \in [1..n -> Riding]: riders \in Seq(Riding) /\ Len(riders) = n
    BY <1>1
  <1>6. QED
    BY <1>2, <1>4, <1>5 DEF n

LEMMA SegmentsAreNatural ==
    ASSUME RowsTyped, NEW source \in Points, NEW distance \in Nat
    PROVE  Segments(source, distance) \in [Riding -> Nat]
  <1>1. \A i \in Riding: i \in Rows /\ row[i] \in Passenger
    BY DEF Riding, RowsTyped
  <1>2. \A i \in Riding: SharedSegment(i, source, distance) \in Nat
    BY <1>1, SharedSegmentIsBounded
  <1>3. QED
    BY <1>2 DEF Segments

LEMMA NewFareIsAmong ==
    ASSUME RowsTyped, NEW source \in Points, NEW distance \in Nat,
           NEW riders \in SetToSeqs(Riding), NEW n, n = Cardinality(Riding), n # 0
    PROVE  \E b: /\ Enumerates(b, Riding, n, Segments(source, distance))
                 /\ NewFare(riders, source, distance)
                        = FareAmong([k \in 1..n |-> Segments(source, distance)[b[k]]],
                                    n, distance)
  <1> DEFINE w == Segments(source, distance)
             shared == [k \in 1..Len(riders) |-> SharedSegment(riders[k], source, distance)]
             sorted == Ascending(shared)
  <1>1. n \in Nat /\ n \in 1..n /\ Len(riders) = n /\ riders \in [1..n -> Riding]
        /\ \A i, j \in 1..n: i # j => riders[i] # riders[j]
    <2>1. n \in Nat
      BY RidersAreFinite
    <2>2. n \in 1..n
      BY <2>1
    <2>3. QED
      BY <2>1, <2>2, RidersInOrder
  <1>2. w \in [Riding -> Nat] /\ \A i \in Riding: w[i] = SharedSegment(i, source, distance)
    <2>1. w \in [Riding -> Nat]
      BY SegmentsAreNatural
    <2>2. \A i \in Riding: w[i] = SharedSegment(i, source, distance)
      BY DEF Segments
    <2>3. QED
      BY <2>1, <2>2
  <1> HIDE DEF w
  <1>3. shared \in [1..n -> Nat] /\ \A k \in 1..n: shared[k] = w[riders[k]]
    BY <1>1, <1>2
  <1>4. shared \in Seq(Nat) /\ Len(shared) = n
    BY <1>1, <1>3
  <1>5. NewFare(riders, source, distance)
            = Unit * BaseFare + AllocateFareAmongPassengers(sorted, n + 1)
                  + CalculateFare(distance - sorted[Len(sorted)])
    <2>1. riders # << >>
      BY <1>1
    <2>2. QED
      BY <1>1, <2>1, Zenon DEF NewFare, EstimateFareForNewPassenger
  <1> HIDE DEF shared
  <1>6. PICK p \in [1..n -> 1..n]:
            Sorting(p, shared, n) /\ sorted = [i \in 1..n |-> shared[p[i]]]
    BY <1>1, <1>4, AscendingSorts
  <1> HIDE DEF sorted
  <1> DEFINE b == [i \in 1..n |-> riders[p[i]]]
  <1>7. Enumerates(b, Riding, n, w)
    <2>1. b \in [1..n -> Riding]
      BY <1>1
    <2>2. ASSUME NEW i \in 1..n, NEW j \in 1..n, i < j
          PROVE  b[i] # b[j] /\ w[b[i]] <= w[b[j]]
      BY <1>1, <1>3, <1>6, <2>2 DEF Sorting
    <2>3. QED
      BY <2>1, <2>2 DEF Enumerates
  <1>8. sorted = [k \in 1..n |-> w[b[k]]]
    BY <1>3, <1>6
  <1>9. Len(sorted) = n
    BY <1>1, <1>6
  <1> HIDE DEF b
  <1>10. NewFare(riders, source, distance) = FareAmong([k \in 1..n |-> w[b[k]]], n, distance)
    BY <1>5, <1>8, <1>9, Zenon DEF FareAmong
  <1>11. QED
    BY <1>7, <1>10 DEF w

(* The riders are returned in some order, and in whichever they are told to *)
(* a newcomer the fare is the same.                                         *)
LEMMA EstimateIsOne ==
    ASSUME RowsTyped, NEW source \in Points, NEW distance \in Nat
    PROVE  Cardinality(Estimates(source, distance)) = 1
  <1> DEFINE n == Cardinality(Riding)
             w == Segments(source, distance)
  <1>1. ASSUME NEW r \in SetToSeqs(Riding), NEW s \in SetToSeqs(Riding)
        PROVE  NewFare(r, source, distance) = NewFare(s, source, distance)
    <2>1. CASE n = 0
      <3>1. r = << >> /\ s = << >>
        BY <2>1, RidersInOrder
      <3>2. QED
        BY <3>1
    <2>2. CASE n # 0
      <3>1. n \in Nat /\ w \in [Riding -> Nat]
        BY RidersAreFinite, SegmentsAreNatural
      <3>2. PICK b: /\ Enumerates(b, Riding, n, w)
                    /\ NewFare(r, source, distance)
                           = FareAmong([k \in 1..n |-> w[b[k]]], n, distance)
        BY <2>2, NewFareIsAmong
      <3>3. PICK c: /\ Enumerates(c, Riding, n, w)
                    /\ NewFare(s, source, distance)
                           = FareAmong([k \in 1..n |-> w[c[k]]], n, distance)
        BY <2>2, NewFareIsAmong
      <3> HIDE DEF w
      <3>4. ASSUME NEW i \in 1..n
            PROVE  w[b[i]] = w[c[i]]
        <4>1. w[c[i]] <= w[b[i]] /\ w[b[i]] <= w[c[i]]
          BY <3>1, <3>2, <3>3, RidersAreFinite, EnumerationIsBelow
        <4>2. w[c[i]] \in Nat /\ w[b[i]] \in Nat
          BY <3>1, <3>2, <3>3 DEF Enumerates
        <4>3. QED
          BY <4>1, <4>2
      <3>5. [k \in 1..n |-> w[b[k]]] = [k \in 1..n |-> w[c[k]]]
        BY <3>4
      <3>6. QED
        BY <3>2, <3>3, <3>5
    <2>3. QED
      BY <2>1, <2>2
  <1>2. PICK riders: riders \in SetToSeqs(Riding)
    BY RidersInOrder
  <1>3. Estimates(source, distance) = {NewFare(riders, source, distance)}
    BY <1>1, <1>2 DEF Estimates
  <1>4. QED
    BY <1>3, FS_Singleton

(* A newcomer's fare does not depend on the order in which the database     *)
(* returns the riders, however many they are.                               *)
THEOREM EstimatesAreOrderFree == Spec => []EstimateIsOrderFree
  <1>1. RowsTyped => EstimateIsOrderFree
    <2> SUFFICES ASSUME RowsTyped,
                        NEW source \in Points, NEW destination \in Points, NEW detour \in Detours
                 PROVE  Cardinality(Estimates(source, Distance(source, destination) + detour)) = 1
      BY DEF EstimateIsOrderFree
    <2>1. Distance(source, destination) \in Nat
      BY FareAssumption, DistanceIsNatural
    <2>2. Distance(source, destination) + detour \in Nat
      BY <2>1, FareAssumption
    <2>3. QED
      BY <2>2, EstimateIsOne
  <1>2. QED
    BY <1>1, RowsInvariance, PTL

------------------------------------------------------------------------------
LEMMA CalculatedFares ==
    ASSUME NEW distance \in Int
    PROVE  /\ CalculateFare(distance) \in Int
           /\ distance >= 0 => CalculateFare(distance) \in Nat
  <1>1. distance * PerKmFare \in Int /\ (distance >= 0 => distance * PerKmFare >= 0)
    BY FareAssumption, SMT
  <1> DEFINE kms == distance * PerKmFare
  <1> HIDE DEF kms
  <1>2. ASSUME NEW m \in Int
        PROVE  Unit * m \in Int /\ (m >= 0 => Unit * m >= 0)
    BY FareAssumption, SMT
  <1>3. BaseFare + kms \in Int /\ (distance >= 0 => BaseFare + kms >= 0)
    BY <1>1, FareAssumption DEF kms
  <1>4. CalculateFare(distance) = Unit * (BaseFare + kms)
    BY DEF CalculateFare, kms
  <1>5. QED
    BY <1>2, <1>3, <1>4

(* The estimate is a whole number of units of money: each share is of what  *)
(* a shared distance costs, among at least two.                             *)
LEMMA FareAmongIsWhole ==
    ASSUME NEW n \in Nat, n # 0, NEW u \in [1..n -> Nat], NEW distance \in Nat
    PROVE  FareAmong(u, n, distance) \in Int
  <1> DEFINE share == [k \in 1..n |-> CalculateFare(u[k]) \div (n + 1 - (k - 1))]
  <1>1. share \in [1..n -> Nat]
    <2>1. ASSUME NEW k \in 1..n
          PROVE  CalculateFare(u[k]) \div (n + 1 - (k - 1)) \in Nat
      <3>1. u[k] \in Nat /\ n + 1 - (k - 1) \in Nat /\ n + 1 - (k - 1) > 0
        OBVIOUS
      <3>2. CalculateFare(u[k]) \in Nat
        BY <3>1, CalculatedFares
      <3>3. \A x \in Nat, d \in Nat: d > 0 => x \div d \in Nat
        BY SMT
      <3>4. QED
        BY <3>1, <3>2, <3>3
    <2>2. QED
      BY <2>1
  <1>2. Len(u) = n /\ n \in 1..n
    OBVIOUS
  <1>3. AllocateFareAmongPassengers(u, n + 1) = SumOf(share)
    BY <1>2 DEF AllocateFareAmongPassengers
  <1>4. SumOf(share) \in Nat
    <2> HIDE DEF share
    <2>1. QED
      BY <1>1, SumIsNatural
  <1> HIDE DEF share
  <1>5. distance - u[n] \in Int
    BY <1>2
  <1>6. CalculateFare(distance - u[n]) \in Int
    BY <1>5, CalculatedFares
  <1>7. Unit * BaseFare \in Int
    BY FareAssumption, SMT
  <1>8. QED
    BY <1>3, <1>4, <1>6, <1>7 DEF FareAmong

LEMMA EstimatesAreWhole ==
    ASSUME RowsTyped, NEW source \in Points, NEW distance \in Nat,
           NEW estimate \in Estimates(source, distance)
    PROVE  estimate \in Int
  <1> DEFINE n == Cardinality(Riding)
             w == Segments(source, distance)
  <1>1. PICK riders \in SetToSeqs(Riding): estimate = NewFare(riders, source, distance)
    BY DEF Estimates
  <1>2. n \in Nat /\ w \in [Riding -> Nat]
    BY RidersAreFinite, SegmentsAreNatural
  <1>3. CASE n = 0
    <2>1. riders = << >>
      BY <1>3, RidersInOrder
    <2>2. estimate = CalculateFare(distance)
      BY <1>1, <2>1 DEF NewFare
    <2>3. QED
      BY <2>2, CalculatedFares
  <1>4. CASE n # 0
    <2>1. PICK b: /\ Enumerates(b, Riding, n, w)
                  /\ NewFare(riders, source, distance)
                         = FareAmong([k \in 1..n |-> w[b[k]]], n, distance)
      BY <1>4, NewFareIsAmong
    <2> HIDE DEF w, n
    <2>2. [k \in 1..n |-> w[b[k]]] \in [1..n -> Nat]
      BY <1>2, <2>1 DEF Enumerates
    <2>3. QED
      BY <1>1, <1>2, <1>4, <2>1, <2>2, FareAmongIsWhole
  <1>5. QED
    BY <1>3, <1>4

LEMMA AdjustedFaresAreWhole ==
    ASSUME NEW i \in Rows, row[i] \in Passenger,
           NEW source \in Points, NEW distance \in Nat
    PROVE  AdjustedFare(i, source, distance) \in Int
  <1>1. Distance(row[i].source, row[i].destination) \in Int
    <2>1. row[i].source \in Int /\ row[i].destination \in Int
      BY FareAssumption DEF Passenger
    <2>2. Distance(row[i].source, row[i].destination) \in Nat
      BY <2>1, DistanceIsNatural
    <2>3. QED
      BY <2>2
  <1>2. SharedSegment(i, source, distance) \in Int
    BY SharedSegmentIsBounded
  <1>3. Distance(row[i].source, row[i].destination) - SharedSegment(i, source, distance) \in Int
    BY <1>1, <1>2
  <1>4. Unit * BaseFare \in Int
    BY FareAssumption, SMT
  <1>5. QED
    BY <1>3, <1>4, CalculatedFares DEF AdjustedFare

(* Rows hold passengers, and every fare is a whole number of units.         *)
THEOREM TypeCorrect == Spec => []TypeOK
  <1> DEFINE FaresTyped == fare \in [Rows -> Int]
  <1>1. Init => FaresTyped
    BY DEF Init
  <1>2. RowsTyped /\ FaresTyped /\ [Next]_vars => FaresTyped'
    <2> SUFFICES ASSUME RowsTyped, FaresTyped, [Next]_vars PROVE FaresTyped'
      OBVIOUS
    <2>1. ASSUME NEW i \in Rows, NEW source \in Points, NEW destination \in Points,
                 NEW detour \in Detours,
                 Accept(i, source, destination, Distance(source, destination) + detour)
          PROVE  FaresTyped'
      <3> DEFINE distance == Distance(source, destination) + detour
      <3>1. distance \in Nat
        <4>1. Distance(source, destination) \in Nat
          BY FareAssumption, DistanceIsNatural
        <4>2. QED
          BY <4>1, FareAssumption
      <3> HIDE DEF distance
      <3>2. PICK estimate \in Estimates(source, distance), written \in SUBSET Riding:
                fare' = [j \in Rows |->
                           IF j = i THEN estimate
                           ELSE IF j \in written THEN AdjustedFare(j, source, distance)
                           ELSE fare[j]]
        BY <2>1, Zenon DEF Accept, distance
      <3>3. estimate \in Int
        BY <3>1, EstimatesAreWhole
      <3>4. ASSUME NEW j \in written
            PROVE  AdjustedFare(j, source, distance) \in Int
        <4>1. j \in Rows /\ row[j] \in Passenger
          BY DEF Riding, RowsTyped
        <4>2. QED
          BY <3>1, <4>1, AdjustedFaresAreWhole
      <3>5. QED
        BY <3>2, <3>3, <3>4
    <2>2. CASE UNCHANGED fare
      BY <2>2
    <2>3. QED
      BY <2>1, <2>2 DEF Next, CompletePassengerRide, UpdatePassengerRideStatus, vars
  <1>3. RowsTyped /\ FaresTyped => TypeOK
    BY DEF RowsTyped, TypeOK
  <1>4. QED
    BY <1>1, <1>2, <1>3, RowsInvariance, PTL DEF Spec

------------------------------------------------------------------------------
(* Sharing with one and with two.                                           *)

(* Money splits evenly among as many as may share a ride.                   *)
LEMMA SplitsEvenly ==
    ASSUME NEW n \in 1..(Cardinality(Rows) + 1)
    PROVE  \E part \in Nat: Unit = n * part
  <1>1. Cardinality(Rows) \in Nat
    BY UnitAssumption, FS_CardinalityType
  <1>2. n \in Nat /\ n > 0
    BY <1>1
  <1>3. Unit % n = 0 /\ Unit \in Nat
    BY UnitAssumption, FareAssumption
  <1>4. Unit = n * (Unit \div n) /\ Unit \div n \in Nat
    BY <1>2, <1>3, SMT
  <1>5. QED
    BY <1>4

LEMMA HalfAndThird ==
    /\ \A m \in Int: (2 * m) \div 2 = m
    /\ \A m \in Int: (3 * m) \div 3 = m
  BY SMT

(* With one: a share of 1/2 of what is shared, and the rest alone.          *)
LEMMA ShareWithOne ==
    ASSUME Cardinality(Rows) >= 1, NEW distance \in Nat,
           NEW u \in [1..1 -> Nat], u[1] <= distance
    PROVE  FareAmong(u, 1, distance) - BaseFares(1) \in 0..(Unit * distance * PerKmFare)
  <1>1. Cardinality(Rows) \in Nat
    BY UnitAssumption, FS_CardinalityType
  <1>2. PICK half \in Nat: Unit = 2 * half
    <2>1. 2 \in 1..(Cardinality(Rows) + 1)
      BY <1>1
    <2>2. QED
      BY <2>1, SplitsEvenly
  <1>3. u[1] \in Nat /\ Len(u) = 1
    OBVIOUS
  <1> DEFINE first == u[1]
             price(d) == BaseFare + d * PerKmFare
  <1>4. \A d \in Int: price(d) \in Int
    BY FareAssumption, SMT
  <1>5. \A d \in Int: CalculateFare(d) = 2 * (half * price(d)) /\ half * price(d) \in Int
    BY <1>2, <1>4, SMT DEF CalculateFare
  <1>6. AllocateFareAmongPassengers(u, 2) = half * price(first)
    <2> DEFINE share == [k \in 1..1 |-> CalculateFare(u[k]) \div (2 - (k - 1))]
    <2>1. AllocateFareAmongPassengers(u, 2) = SumOf(share)
      BY <1>3 DEF AllocateFareAmongPassengers
    <2>2. share[1] = CalculateFare(first) \div 2
      OBVIOUS
    <2>3. share[1] = half * price(first)
      BY <1>3, <1>5, <2>2, HalfAndThird
    <2>4. CalculateFare(first) \in Nat
      BY <1>3, CalculatedFares
    <2>5. half * price(first) \in Nat
      BY <1>3, <1>5, <2>4
    <2>6. share \in [1..1 -> Nat]
      BY <2>3, <2>5
    <2> HIDE DEF share
    <2>7. QED
      BY <2>1, <2>3, <2>6, SumOfOne
  <1>7. BaseFares(1) = Unit * 2 * BaseFare + half * BaseFare
    <2> DEFINE part == [k \in 1..1 |-> (Unit * BaseFare) \div (k + 1)]
    <2>1. half * BaseFare \in Nat /\ Unit * BaseFare = 2 * (half * BaseFare)
      BY <1>2, FareAssumption, SMT
    <2>2. part[1] = half * BaseFare
      BY <2>1, HalfAndThird
    <2>3. part \in [1..1 -> Nat]
      BY <2>1, <2>2
    <2>4. BaseFares(1) = Unit * 2 * BaseFare + SumOf(part)
      BY DEF BaseFares
    <2> HIDE DEF part
    <2>5. QED
      BY <2>2, <2>3, <2>4, SumOfOne
  <1>8. FareAmong(u, 1, distance)
            = Unit * BaseFare + half * price(first) + CalculateFare(distance - first)
    BY <1>6 DEF FareAmong
  <1> HIDE DEF first
  <1>9. first \in Nat /\ first <= distance
    BY <1>3 DEF first
  <1>10. FareAmong(u, 1, distance) - BaseFares(1)
             = (half * PerKmFare) * (2 * distance - first)
    BY <1>2, <1>7, <1>8, <1>9, FareAssumption, SMT DEF CalculateFare
  <1>11. Unit * distance * PerKmFare = (half * PerKmFare) * (2 * distance)
    BY <1>2, FareAssumption, SMT
  <1>12. half * PerKmFare \in Nat
    BY FareAssumption, SMT
  <1>13. \A c \in Nat: c * (2 * distance - first) \in Int
                       /\ 0 <= c * (2 * distance - first)
                       /\ c * (2 * distance - first) <= c * (2 * distance)
                       /\ c * (2 * distance) \in Int
    <2>1. ASSUME NEW c \in Nat
          PROVE  c * 0 <= c * (2 * distance - first)
                 /\ c * (2 * distance - first) <= c * (2 * distance)
      <3>1. 0 \in Int /\ 2 * distance - first \in Int /\ 2 * distance \in Int
            /\ 0 <= 2 * distance - first /\ 2 * distance - first <= 2 * distance
        BY <1>9
      <3>2. QED
        BY <3>1, ProductIsMonotone
    <2>2. QED
      BY <1>9, <2>1, SMT
  <1>14. QED
    BY <1>10, <1>11, <1>12, <1>13

(* With two: 1/3 of what is shared with both, 1/2 of what is shared with    *)
(* one of them (the first stretch again, and what follows), the rest alone. *)
LEMMA ShareWithTwo ==
    ASSUME Cardinality(Rows) >= 2, NEW distance \in Nat,
           NEW u \in [1..2 -> Nat], u[1] <= u[2], u[2] <= distance
    PROVE  FareAmong(u, 2, distance) - BaseFares(2) \in 0..(Unit * distance * PerKmFare)
  <1>1. Cardinality(Rows) \in Nat
    BY UnitAssumption, FS_CardinalityType
  <1>2. PICK sixth \in Nat: Unit = 6 * sixth
    <2>1. 2 \in 1..(Cardinality(Rows) + 1) /\ 3 \in 1..(Cardinality(Rows) + 1)
      BY <1>1
    <2>2. PICK half \in Nat: Unit = 2 * half
      BY <2>1, SplitsEvenly
    <2>3. PICK third \in Nat: Unit = 3 * third
      BY <2>1, SplitsEvenly
    <2>4. half - third \in Nat /\ Unit = 6 * (half - third)
      BY <2>2, <2>3
    <2>5. QED
      BY <2>4
  <1>3. u[1] \in Nat /\ u[2] \in Nat /\ Len(u) = 2
    OBVIOUS
  <1> DEFINE first == u[1]
             second == u[2]
             price(d) == BaseFare + d * PerKmFare
  <1>4. \A d \in Int: price(d) \in Int
    BY FareAssumption, SMT
  <1>5. \A d \in Int: /\ CalculateFare(d) = 2 * (3 * (sixth * price(d)))
                      /\ CalculateFare(d) = 3 * (2 * (sixth * price(d)))
                      /\ sixth * price(d) \in Int
    BY <1>2, <1>4, SMT DEF CalculateFare
  <1>6. AllocateFareAmongPassengers(u, 3)
            = 2 * (sixth * price(first)) + 3 * (sixth * price(second))
    <2> DEFINE share == [k \in 1..2 |-> CalculateFare(u[k]) \div (3 - (k - 1))]
    <2>1. AllocateFareAmongPassengers(u, 3) = SumOf(share)
      BY <1>3 DEF AllocateFareAmongPassengers
    <2>2. share[1] = CalculateFare(first) \div 3 /\ share[2] = CalculateFare(second) \div 2
      OBVIOUS
    <2>3. share[1] = 2 * (sixth * price(first)) /\ share[2] = 3 * (sixth * price(second))
      BY <1>3, <1>5, <2>2, HalfAndThird
    <2>4. CalculateFare(first) \in Nat /\ CalculateFare(second) \in Nat
      BY <1>3, CalculatedFares
    <2>5. 2 * (sixth * price(first)) \in Nat /\ 3 * (sixth * price(second)) \in Nat
      BY <1>3, <1>5, <2>4
    <2>6. share \in [1..2 -> Nat]
      BY <2>3, <2>5
    <2> HIDE DEF share
    <2>7. QED
      BY <2>1, <2>3, <2>6, SumOfTwo
  <1>7. BaseFares(2) = Unit * 2 * BaseFare + (3 * (sixth * BaseFare) + 2 * (sixth * BaseFare))
    <2> DEFINE part == [k \in 1..2 |-> (Unit * BaseFare) \div (k + 1)]
    <2>1. /\ sixth * BaseFare \in Nat
          /\ Unit * BaseFare = 2 * (3 * (sixth * BaseFare))
          /\ Unit * BaseFare = 3 * (2 * (sixth * BaseFare))
      BY <1>2, FareAssumption, SMT
    <2>2. part[1] = (Unit * BaseFare) \div 2 /\ part[2] = (Unit * BaseFare) \div 3
      OBVIOUS
    <2>3. part[1] = 3 * (sixth * BaseFare) /\ part[2] = 2 * (sixth * BaseFare)
      BY <2>1, <2>2, HalfAndThird
    <2>4. part \in [1..2 -> Nat]
      BY <2>1, <2>3
    <2>5. BaseFares(2) = Unit * 2 * BaseFare + SumOf(part)
      BY DEF BaseFares
    <2> HIDE DEF part
    <2>6. QED
      BY <2>3, <2>4, <2>5, SumOfTwo
  <1>8. FareAmong(u, 2, distance)
            = Unit * BaseFare + (2 * (sixth * price(first)) + 3 * (sixth * price(second)))
                  + CalculateFare(distance - second)
    BY <1>6 DEF FareAmong
  <1> HIDE DEF first, second
  <1>9. first \in Nat /\ second \in Nat /\ first <= second /\ second <= distance
    BY <1>3 DEF first, second
  <1> DEFINE kms == 6 * distance + 2 * first - 3 * second
  <1>10. FareAmong(u, 2, distance) - BaseFares(2) = (sixth * PerKmFare) * kms
    BY <1>2, <1>7, <1>8, <1>9, FareAssumption, SMT DEF CalculateFare
  <1>11. Unit * distance * PerKmFare = (sixth * PerKmFare) * (6 * distance)
    BY <1>2, FareAssumption, SMT
  <1>12. sixth * PerKmFare \in Nat
    BY FareAssumption, SMT
  <1>13. kms \in Int /\ 0 <= kms /\ kms <= 6 * distance /\ 6 * distance \in Int
    BY <1>9
  <1> HIDE DEF kms
  <1>14. \A c \in Nat: /\ c * kms \in Int /\ c * (6 * distance) \in Int
                       /\ 0 <= c * kms /\ c * kms <= c * (6 * distance)
    <2>1. ASSUME NEW c \in Nat
          PROVE  c * 0 <= c * kms /\ c * kms <= c * (6 * distance)
      BY <1>13, ProductIsMonotone
    <2>2. QED
      BY <1>13, <2>1, SMT
  <1>15. QED
    BY <1>10, <1>11, <1>12, <1>14

(* With one or two others aboard, a newcomer pays no more for kilometres    *)
(* than going alone, and no less than nothing, whatever the points, detours *)
(* and tariffs, and wherever the others are.                                *)
THEOREM SharingIsNeverDearer == Spec => []SharingIsNotDearer
  <1>1. RowsTyped => SharingIsNotDearer
    <2> SUFFICES ASSUME RowsTyped, Cardinality(Riding) \in 1..2,
                        NEW source \in Points, NEW destination \in Points, NEW detour \in Detours,
                        NEW estimate \in
                            Estimates(source, Distance(source, destination) + detour)
                 PROVE  estimate - BaseFares(Cardinality(Riding))
                            \in 0..(Unit * (Distance(source, destination) + detour) * PerKmFare)
      BY DEF SharingIsNotDearer
    <2> DEFINE distance == Distance(source, destination) + detour
               n == Cardinality(Riding)
               w == Segments(source, distance)
    <2>1. distance \in Nat
      <3>1. Distance(source, destination) \in Nat
        BY FareAssumption, DistanceIsNatural
      <3>2. QED
        BY <3>1, FareAssumption
    <2> HIDE DEF distance
    <2>2. PICK riders \in SetToSeqs(Riding): estimate = NewFare(riders, source, distance)
      BY DEF Estimates, distance
    <2>3. n \in 1..2 /\ n # 0 /\ n <= Cardinality(Rows)
      BY RidersAreFinite
    <2>4. w \in [Riding -> Nat]
      BY <2>1, SegmentsAreNatural
    <2>5. \A i \in Riding: w[i] <= distance
      <3>1. \A i \in Riding: w[i] = SharedSegment(i, source, distance)
        BY DEF Segments
      <3>2. \A i \in Riding: SharedSegment(i, source, distance) <= distance
        <4>1. ASSUME NEW i \in Riding
              PROVE  SharedSegment(i, source, distance) <= distance
          <5>1. source \in Int /\ row[i].destination \in Int
            BY FareAssumption DEF Riding, RowsTyped, Passenger
          <5>2. Distance(source, row[i].destination) \in Nat
            BY <5>1, DistanceIsNatural
          <5>3. QED
            BY <2>1, <5>2 DEF SharedSegment
        <4>2. QED
          BY <4>1
      <3> HIDE DEF w
      <3>3. QED
        BY <3>1, <3>2
    <2>6. PICK b: /\ Enumerates(b, Riding, n, w)
                  /\ NewFare(riders, source, distance)
                         = FareAmong([k \in 1..n |-> w[b[k]]], n, distance)
      BY <2>1, <2>3, NewFareIsAmong
    <2> DEFINE u == [k \in 1..n |-> w[b[k]]]
    <2> HIDE DEF w, n
    <2>7. /\ u \in [1..n -> Nat]
          /\ \A k \in 1..n: u[k] <= distance
          /\ \A i, j \in 1..n: i < j => u[i] <= u[j]
      BY <2>4, <2>5, <2>6 DEF Enumerates
    <2>8. estimate = FareAmong(u, n, distance)
      BY <2>2, <2>6
    <2> HIDE DEF u
    <2>9. CASE n = 1
      <3>1. u \in [1..1 -> Nat] /\ u[1] <= distance /\ Cardinality(Rows) >= 1
        BY <2>3, <2>7, <2>9
      <3>2. FareAmong(u, 1, distance) - BaseFares(1) \in 0..(Unit * distance * PerKmFare)
        BY <2>1, <3>1, ShareWithOne
      <3>3. QED
        BY <2>8, <2>9, <3>2 DEF n, distance
    <2>10. CASE n = 2
      <3>1. /\ u \in [1..2 -> Nat] /\ u[1] <= u[2] /\ u[2] <= distance
            /\ Cardinality(Rows) >= 2
        BY <2>3, <2>7, <2>10
      <3>2. FareAmong(u, 2, distance) - BaseFares(2) \in 0..(Unit * distance * PerKmFare)
        BY <2>1, <3>1, ShareWithTwo
      <3>3. QED
        BY <2>8, <2>10, <3>2 DEF n, distance
    <2>11. QED
      BY <2>3, <2>9, <2>10
  <1>2. QED
    BY <1>1, RowsInvariance, PTL

------------------------------------------------------------------------------
(* An adjusted fare is between the two base fares and what the straight way *)
(* costs on top of one of them.                                             *)
LEMMA AdjustedFareIsBounded ==
    ASSUME NEW i \in Rows, row[i] \in Passenger,
           NEW source \in Points, NEW distance \in Nat
    PROVE  LET own == Distance(row[i].source, row[i].destination)
               outside == Outside(source, row[i].source, row[i].destination)
           IN  /\ AdjustedFare(i, source, distance)
                      <= Unit * (2 * BaseFare + own * PerKmFare)
               /\ AdjustedFare(i, source, distance)
                      >= Unit * (2 * BaseFare - outside * PerKmFare)
  <1> DEFINE own == Distance(row[i].source, row[i].destination)
             outside == Outside(source, row[i].source, row[i].destination)
             kms == own - SharedSegment(i, source, distance)
             fareOf(n) == 2 * BaseFare + n * PerKmFare
  <1>1. own \in Nat /\ outside \in Nat
    BY FareAssumption, DistanceIsNatural, DistanceWithin DEF Passenger
  <1>2. kms \in Int /\ kms <= own /\ -outside <= kms
    BY <1>1, SharedSegmentIsBounded
  <1>3. AdjustedFare(i, source, distance) = Unit * BaseFare + CalculateFare(kms)
    BY DEF AdjustedFare
  <1> HIDE DEF own, outside, kms
  <1>4. \A n \in Int: Unit * BaseFare + CalculateFare(n) = Unit * fareOf(n)
    BY FareAssumption, SMT DEF CalculateFare
  <1>5. \A m, n \in Int: m <= n => PerKmFare * m <= PerKmFare * n
    BY FareAssumption, ProductIsMonotone
  <1>6. \A m, n \in Int: m <= n => fareOf(m) <= fareOf(n)
    BY <1>5, FareAssumption, SMT
  <1>7. \A n \in Int: fareOf(n) \in Int
    BY FareAssumption, SMT
  <1>8. \A m, n \in Int: m <= n => Unit * fareOf(m) <= Unit * fareOf(n)
    BY <1>6, <1>7, FareAssumption, ProductIsMonotone
  <1>9. fareOf(-outside) = 2 * BaseFare - outside * PerKmFare
    BY <1>1, FareAssumption, SMT
  <1>10. Unit * fareOf(kms) <= Unit * fareOf(own)
    BY <1>1, <1>2, <1>8
  <1>11. Unit * fareOf(-outside) <= Unit * fareOf(kms)
    BY <1>1, <1>2, <1>8
  <1>12. Unit * fareOf(kms) \in Int /\ Unit * fareOf(-outside) \in Int
    BY <1>1, <1>2, <1>7, FareAssumption, SMT
  <1>13. AdjustedFare(i, source, distance) = Unit * fareOf(kms)
    BY <1>2, <1>3, <1>4
  <1>14. AdjustedFare(i, source, distance) >= Unit * (2 * BaseFare - outside * PerKmFare)
    <2> HIDE DEF fareOf
    <2>1. QED
      BY <1>9, <1>11, <1>12, <1>13
  <1>15. QED
    BY <1>10, <1>13, <1>14 DEF own, outside

(* Whoever joins, an adjusted fare is bounded from above by the passenger's *)
(* own way, and from below by two base fares, less the price of the way     *)
(* from where the newcomer boards to it.                                    *)
THEOREM AdjustmentsAreBounded == Spec => AdjustmentIsBounded
  <1> DEFINE A == \A i, j \in Rows:
                    /\ row[i] # None /\ fare'[i] # fare[i]
                    /\ row[j] = None /\ row'[j] # None
                    => LET own == Distance(row[i].source, row[i].destination)
                           outside == Outside(row'[j].source, row[i].source,
                                              row[i].destination)
                       IN  /\ fare'[i] <= Unit * (2 * BaseFare + own * PerKmFare)
                           /\ fare'[i] >= Unit * (2 * BaseFare - outside * PerKmFare)
  <1>1. RowsTyped /\ [Next]_vars => A
    <2> SUFFICES ASSUME RowsTyped, [Next]_vars,
                        NEW i \in Rows, NEW j \in Rows,
                        row[i] # None, fare'[i] # fare[i],
                        row[j] = None, row'[j] # None
                 PROVE  LET own == Distance(row[i].source, row[i].destination)
                            outside == Outside(row'[j].source, row[i].source,
                                               row[i].destination)
                        IN  /\ fare'[i] <= Unit * (2 * BaseFare + own * PerKmFare)
                            /\ fare'[i] >= Unit * (2 * BaseFare - outside * PerKmFare)
      OBVIOUS
    <2>1. PICK k \in Rows, source \in Points, destination \in Points, detour \in Detours:
                 Accept(k, source, destination, Distance(source, destination) + detour)
      BY DEF Next, CompletePassengerRide, UpdatePassengerRideStatus, vars
    <2> DEFINE distance == Distance(source, destination) + detour
    <2>2. distance \in Nat
      <3>1. Distance(source, destination) \in Nat
        BY FareAssumption, DistanceIsNatural
      <3>2. QED
        BY <3>1, FareAssumption
    <2> HIDE DEF distance
    <2>3. k = j /\ row'[j].source = source
      <3> DEFINE new == [source |-> source, destination |-> destination,
                         status |-> "ACCEPTED"]
      <3>1. \A m \in Rows: row'[m] = IF m = k THEN new ELSE row[m]
        BY <2>1 DEF Accept, RowsTyped
      <3>2. new.source = source
        OBVIOUS
      <3> HIDE DEF new
      <3>3. QED
        BY <3>1, <3>2
    <2>4. fare'[i] = AdjustedFare(i, source, distance)
      BY <2>1, <2>3 DEF Accept, distance
    <2>5. row[i] \in Passenger
      BY DEF RowsTyped
    <2>6. QED
      BY <2>2, <2>3, <2>4, <2>5, AdjustedFareIsBounded
  <1>2. RowsTyped /\ [Next]_vars => [A]_vars
    BY <1>1
  <1>3. QED
    BY <1>2, RowsInvariance, PTL DEF Spec, AdjustmentIsBounded
==============================================================================
