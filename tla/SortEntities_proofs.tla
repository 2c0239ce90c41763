------------------------- MODULE SortEntities_proofs -------------------------
(***************************************************************************)
(* What sortEntities of the import returns, for any files in any order:    *)
(* each entity once and after those it depends on, and all whose           *)
(* dependencies are among the files.                                       *)
(***************************************************************************)
EXTENDS Records, FoldLemmas

Distinct(s) == \A i, j \in 1..Len(s): s[i] = s[j] => i = j

(* Every entity comes after those it depends on.                            *)
Topological(s) ==
    \A i \in 1..Len(s): \A e \in EntityDependencies[s[i]]: \E j \in 1..(i - 1): s[j] = e

Sorted(s) == s \in Seq(Entity) /\ Distinct(s) /\ Topological(s)

------------------------------------------------------------------------------
LEMMA EntityNames ==
    /\ Entity = {"user", "driver", "passenger", "ride", "passengerOnRide", "vehicle"}
    /\ Importable = {"user", "driver", "passenger", "ride", "vehicle"}
    /\ EntityDependencies["user"] = {}
    /\ EntityDependencies["driver"] = {"user"}
    /\ EntityDependencies["passenger"] = {"user"}
    /\ EntityDependencies["ride"] = {"driver"}
    /\ EntityDependencies["passengerOnRide"] = {"ride", "passenger"}
    /\ EntityDependencies["vehicle"] = {"driver"}
  <1>1. Entity = {"user", "driver", "passenger", "ride", "passengerOnRide", "vehicle"}
    BY DEF Entity, EntityDependencies
  <1>2. Tables = {"user", "driver", "vehicle", "passenger", "ride", "passengersOnRide",
                  "device", "passengerRidePreferences", "driverRidePreferences"}
    BY DEF Tables, References
  <1>3. QED
    BY <1>1, <1>2 DEF Importable, EntityDependencies

LEMMA RangeOfSequence ==
    ASSUME NEW S, NEW s \in Seq(S)
    PROVE  /\ Len(s) \in Nat /\ DOMAIN s = 1..Len(s)
           /\ Range(s) \subseteq S
           /\ \A e: e \in Range(s) <=> \E i \in 1..Len(s): s[i] = e
  <1>1. Len(s) \in Nat /\ DOMAIN s = 1..Len(s)
    OBVIOUS
  <1>2. \A i \in 1..Len(s): s[i] \in S
    OBVIOUS
  <1>3. Range(s) = {s[i]: i \in DOMAIN s}
    BY Zenon DEF Range
  <1>4. \A e: e \in Range(s) <=> \E i \in 1..Len(s): s[i] = e
    BY <1>1, <1>3, Zenon
  <1>5. Range(s) \subseteq S
    BY <1>2, <1>4, Zenon
  <1>6. QED
    BY <1>1, <1>4, <1>5, Zenon

LEMMA RangeOfAppend ==
    ASSUME NEW S, NEW s \in Seq(S), NEW e \in S
    PROVE  Range(Append(s, e)) = Range(s) \cup {e}
  <1>1. Append(s, e) \in Seq(S) /\ Len(Append(s, e)) = Len(s) + 1 /\ Len(s) \in Nat
    OBVIOUS
  <1>2. \A i \in 1..Len(s): Append(s, e)[i] = s[i]
    OBVIOUS
  <1>3. Append(s, e)[Len(s) + 1] = e
    OBVIOUS
  <1>4. \A i \in 1..(Len(s) + 1): i \in 1..Len(s) \/ i = Len(s) + 1
    BY <1>1
  <1>5. \A x: x \in Range(s) <=> \E i \in 1..Len(s): s[i] = x
    BY RangeOfSequence, Zenon
  <1> DEFINE a == Append(s, e)
  <1>6. \A x: x \in Range(a) <=> \E i \in 1..(Len(s) + 1): a[i] = x
    <2>1. a \in Seq(S) /\ Len(a) = Len(s) + 1
      BY <1>1
    <2> HIDE DEF a
    <2>2. QED
      BY <2>1, RangeOfSequence, Zenon
  <1> HIDE DEF a
  <1>7. \A i \in 1..Len(s): i \in 1..(Len(s) + 1)
    BY <1>1
  <1>8. Len(s) + 1 \in 1..(Len(s) + 1)
    BY <1>1
  <1>9. \A x: x \in Range(a) <=> x \in Range(s) \/ x = e
    BY <1>2, <1>3, <1>4, <1>5, <1>6, <1>7, <1>8 DEF a
  <1>10. QED
    BY <1>9 DEF a

(* A round adds one entity after the other.                                 *)
LEMMA SortRoundTrace ==
    ASSUME NEW start \in Seq(Entity), NEW es \in Seq(Entity)
    PROVE  \E t \in [0..Len(es) -> Seq(Entity)]:
               /\ t[0] = start
               /\ \A k \in 1..Len(es): t[k] = SortEntity(t[k - 1], es[k])
               /\ t[Len(es)] = SortRound(es, start)
  <1> DEFINE n == Len(es)
             A == Seq(Entity)
             base == start
             op == [k \in 1..n |-> [s \in A |-> SortEntity(s, es[k])]]
             Folds(f) ==
                 f = [s \in SUBSET (1..n) |->
                        IF s = {} THEN base
                        ELSE SortEntity(f[s \ {Max(s)}], es[Max(s)])]
             iter == CHOOSE f: Folds(f)
  <1>1. n \in Nat /\ DOMAIN es = 1..n /\ base \in A
    OBVIOUS
  <1>2. \A k \in 1..n: \A s \in A: SortEntity(s, es[k]) \in A
    BY DEF SortEntity
  <1>3. \A k \in 1..n: \A s \in A: op[k][s] = SortEntity(s, es[k])
    OBVIOUS
  <1>4. op \in [1..n -> [A -> A]]
    BY <1>2
  <1> HIDE DEF n, op, A, base
  <1>5. SortRound(es, start) = iter[1..n]
    BY <1>1, Zenon DEF SortRound, FoldLeft, MapThenFoldSet, base
  <1>6. Folds(iter)
    <2>1. PICK f \in [SUBSET (1..n) -> A]: IsFold(f, n, op, base)
      BY <1>1, <1>4, FoldExists
    <2>2. ASSUME NEW s \in SUBSET (1..n)
          PROVE  f[s] = IF s = {} THEN base
                        ELSE SortEntity(f[s \ {Max(s)}], es[Max(s)])
      <3>1. CASE s = {}
        BY <2>1, <3>1 DEF IsFold
      <3>2. CASE s # {}
        <4>1. Max(s) \in 1..n /\ f[s \ {Max(s)}] \in A
          BY <1>1, <2>1, <3>2, MaxOfIndices
        <4>2. QED
          BY <1>3, <2>1, <3>2, <4>1 DEF IsFold
      <3>3. QED
        BY <3>1, <3>2
    <2>3. Folds(f)
      BY <2>2
    <2> HIDE DEF Folds
    <2>4. QED
      BY <2>3
  <1> HIDE DEF iter
  <1>7. iter[{}] = base
    BY <1>6
  <1>8. ASSUME NEW s \in SUBSET (1..n), s # {}, iter[s \ {Max(s)}] \in A
        PROVE  iter[s] = op[Max(s)][iter[s \ {Max(s)}]]
    <2>1. Max(s) \in 1..n
      BY <1>1, <1>8, MaxOfIndices
    <2>2. iter[s] = SortEntity(iter[s \ {Max(s)}], es[Max(s)])
      BY <1>6, <1>8
    <2>3. QED
      BY <1>3, <1>8, <2>1, <2>2
  <1> HIDE DEF Folds
  <1>9. PICK t \in [0..n -> A]: IsTrace(t, n, op, base, iter[1..n])
    BY <1>1, <1>4, <1>7, <1>8, FoldValue
  <1>10. \A k \in 1..n: t[k] = SortEntity(t[k - 1], es[k])
    <2>1. \A k \in 1..n: k - 1 \in 0..n
      BY <1>1
    <2>2. QED
      BY <1>3, <1>9, <2>1 DEF IsTrace
  <1>11. QED
    BY <1>5, <1>9, <1>10 DEF IsTrace, n, A, base

(* A sort is one round after the other.                                     *)
LEMMA SortEntitiesTrace ==
    ASSUME NEW es \in Seq(Entity)
    PROVE  \E t \in [0..Len(es) -> Seq(Entity)]:
               /\ t[0] = <<>>
               /\ \A k \in 1..Len(es): t[k] = SortRound(es, t[k - 1])
               /\ t[Len(es)] = SortEntities(es)
  <1> DEFINE n == Len(es)
             A == Seq(Entity)
             base == <<>>
             op == [k \in 1..n |-> [s \in A |-> SortRound(es, s)]]
             Folds(f) ==
                 f = [s \in SUBSET (1..n) |->
                        IF s = {} THEN base
                        ELSE SortRound(es, f[s \ {Max(s)}])]
             iter == CHOOSE f: Folds(f)
  <1>1. n \in Nat /\ DOMAIN es = 1..n /\ base \in A
    OBVIOUS
  <1>2. \A k \in 1..n: \A s \in A: SortRound(es, s) \in A
    <2>1. ASSUME NEW s \in Seq(Entity)
          PROVE  SortRound(es, s) \in Seq(Entity)
      <3>1. PICK t \in [0..Len(es) -> Seq(Entity)]: t[Len(es)] = SortRound(es, s)
        BY SortRoundTrace
      <3>2. QED
        BY <3>1
    <2>2. QED
      BY <2>1
  <1>3. \A k \in 1..n: \A s \in A: op[k][s] = SortRound(es, s)
    OBVIOUS
  <1>4. op \in [1..n -> [A -> A]]
    BY <1>2
  <1> HIDE DEF n, op, A, base
  <1>5. SortEntities(es) = iter[1..n]
    BY <1>1, Zenon DEF SortEntities, FoldLeft, MapThenFoldSet, base
  <1>6. Folds(iter)
    <2>1. PICK f \in [SUBSET (1..n) -> A]: IsFold(f, n, op, base)
      BY <1>1, <1>4, FoldExists
    <2>2. ASSUME NEW s \in SUBSET (1..n)
          PROVE  f[s] = IF s = {} THEN base
                        ELSE SortRound(es, f[s \ {Max(s)}])
      <3>1. CASE s = {}
        BY <2>1, <3>1 DEF IsFold
      <3>2. CASE s # {}
        <4>1. Max(s) \in 1..n /\ f[s \ {Max(s)}] \in A
          BY <1>1, <2>1, <3>2, MaxOfIndices
        <4>2. QED
          BY <1>3, <2>1, <3>2, <4>1 DEF IsFold
      <3>3. QED
        BY <3>1, <3>2
    <2>3. Folds(f)
      BY <2>2
    <2> HIDE DEF Folds
    <2>4. QED
      BY <2>3
  <1> HIDE DEF iter
  <1>7. iter[{}] = base
    BY <1>6
  <1>8. ASSUME NEW s \in SUBSET (1..n), s # {}, iter[s \ {Max(s)}] \in A
        PROVE  iter[s] = op[Max(s)][iter[s \ {Max(s)}]]
    <2>1. Max(s) \in 1..n
      BY <1>1, <1>8, MaxOfIndices
    <2>2. iter[s] = SortRound(es, iter[s \ {Max(s)}])
      BY <1>6, <1>8
    <2>3. QED
      BY <1>3, <1>8, <2>1, <2>2
  <1> HIDE DEF Folds
  <1>9. PICK t \in [0..n -> A]: IsTrace(t, n, op, base, iter[1..n])
    BY <1>1, <1>4, <1>7, <1>8, FoldValue
  <1>10. \A k \in 1..n: t[k] = SortRound(es, t[k - 1])
    <2>1. \A k \in 1..n: k - 1 \in 0..n
      BY <1>1
    <2>2. QED
      BY <1>3, <1>9, <2>1 DEF IsTrace
  <1>11. QED
    BY <1>5, <1>9, <1>10 DEF IsTrace, n, A, base

(* The files are loaded one after the other.                                *)
LEMMA EntitiesTrace ==
    ASSUME NEW directory \in Seq(STRING)
    PROVE  \E t \in [0..Len(directory) -> Seq(Tables)]:
               /\ t[0] = <<>>
               /\ \A k \in 1..Len(directory): t[k] = LoadFile(t[k - 1], directory[k])
               /\ t[Len(directory)] = Entities(directory)
  <1> DEFINE n == Len(directory)
             A == Seq(Tables)
             base == <<>>
             op == [k \in 1..n |-> [s \in A |-> LoadFile(s, directory[k])]]
             Folds(f) ==
                 f = [s \in SUBSET (1..n) |->
                        IF s = {} THEN base
                        ELSE LoadFile(f[s \ {Max(s)}], directory[Max(s)])]
             iter == CHOOSE f: Folds(f)
  <1>1. n \in Nat /\ DOMAIN directory = 1..n /\ base \in A
    OBVIOUS
  <1>2. \A k \in 1..n: \A s \in A: LoadFile(s, directory[k]) \in A
    BY DEF LoadFile
  <1>3. \A k \in 1..n: \A s \in A: op[k][s] = LoadFile(s, directory[k])
    OBVIOUS
  <1>4. op \in [1..n -> [A -> A]]
    BY <1>2
  <1> HIDE DEF n, op, A, base
  <1>5. Entities(directory) = iter[1..n]
    BY <1>1, Zenon DEF Entities, FoldLeft, MapThenFoldSet, base
  <1>6. Folds(iter)
    <2>1. PICK f \in [SUBSET (1..n) -> A]: IsFold(f, n, op, base)
      BY <1>1, <1>4, FoldExists
    <2>2. ASSUME NEW s \in SUBSET (1..n)
          PROVE  f[s] = IF s = {} THEN base
                        ELSE LoadFile(f[s \ {Max(s)}], directory[Max(s)])
      <3>1. CASE s = {}
        BY <2>1, <3>1 DEF IsFold
      <3>2. CASE s # {}
        <4>1. Max(s) \in 1..n /\ f[s \ {Max(s)}] \in A
          BY <1>1, <2>1, <3>2, MaxOfIndices
        <4>2. QED
          BY <1>3, <2>1, <3>2, <4>1 DEF IsFold
      <3>3. QED
        BY <3>1, <3>2
    <2>3. Folds(f)
      BY <2>2
    <2> HIDE DEF Folds
    <2>4. QED
      BY <2>3
  <1> HIDE DEF iter
  <1>7. iter[{}] = base
    BY <1>6
  <1>8. ASSUME NEW s \in SUBSET (1..n), s # {}, iter[s \ {Max(s)}] \in A
        PROVE  iter[s] = op[Max(s)][iter[s \ {Max(s)}]]
    <2>1. Max(s) \in 1..n
      BY <1>1, <1>8, MaxOfIndices
    <2>2. iter[s] = LoadFile(iter[s \ {Max(s)}], directory[Max(s)])
      BY <1>6, <1>8
    <2>3. QED
      BY <1>3, <1>8, <2>1, <2>2
  <1> HIDE DEF Folds
  <1>9. PICK t \in [0..n -> A]: IsTrace(t, n, op, base, iter[1..n])
    BY <1>1, <1>4, <1>7, <1>8, FoldValue
  <1>10. \A k \in 1..n: t[k] = LoadFile(t[k - 1], directory[k])
    <2>1. \A k \in 1..n: k - 1 \in 0..n
      BY <1>1
    <2>2. QED
      BY <1>3, <1>9, <2>1 DEF IsTrace
  <1>11. QED
    BY <1>5, <1>9, <1>10 DEF IsTrace, n, A, base

------------------------------------------------------------------------------
(* What a round does to a sequence that is sorted so far.                   *)
Extends(r, s, S) == Sorted(r) /\ Range(s) \subseteq Range(r) /\ Range(r) \subseteq Range(s) \cup S

LEMMA SortEntityExtends ==
    ASSUME NEW s \in Seq(Entity), Sorted(s), NEW e \in Entity
    PROVE  /\ Extends(SortEntity(s, e), s, {e})
           /\ EntityDependencies[e] \subseteq Range(s) => e \in Range(SortEntity(s, e))
  <1> DEFINE a == Append(s, e)
  <1>1. CASE e \notin Range(s) /\ EntityDependencies[e] \subseteq Range(s)
    <2>1. SortEntity(s, e) = a /\ Range(a) = Range(s) \cup {e}
      BY <1>1, RangeOfAppend DEF SortEntity
    <2>2. a \in Seq(Entity) /\ Len(s) \in Nat /\ Len(a) = Len(s) + 1
      OBVIOUS
    <2>3. (\A i \in 1..Len(s): a[i] = s[i]) /\ a[Len(s) + 1] = e
      OBVIOUS
    <2>4. \A x: x \in Range(s) <=> \E i \in 1..Len(s): s[i] = x
      BY RangeOfSequence, Zenon
    <2> HIDE DEF a
    <2>5. Distinct(a)
      BY <1>1, <2>2, <2>3, <2>4 DEF Distinct, Sorted
    <2>6. Topological(a)
      <3> SUFFICES ASSUME NEW i \in 1..Len(a), NEW d \in EntityDependencies[a[i]]
                   PROVE  \E j \in 1..(i - 1): a[j] = d
        BY DEF Topological
      <3>1. CASE i \in 1..Len(s)
        <4>1. d \in EntityDependencies[s[i]]
          BY <2>3, <3>1
        <4>2. PICK j \in 1..(i - 1): s[j] = d
          BY <3>1, <4>1 DEF Sorted, Topological
        <4>3. j \in 1..Len(s)
          BY <2>2, <3>1
        <4>4. QED
          BY <2>3, <4>2, <4>3
      <3>2. CASE i = Len(s) + 1
        <4>1. PICK j \in 1..Len(s): s[j] = d
          BY <1>1, <2>3, <2>4, <3>2
        <4>2. j \in 1..(i - 1) /\ a[j] = d
          BY <2>2, <2>3, <3>2, <4>1
        <4>3. QED
          BY <4>2
      <3>3. QED
        BY <2>2, <3>1, <3>2
    <2>7. QED
      BY <2>1, <2>2, <2>5, <2>6 DEF Extends, Sorted
  <1>2. CASE ~(e \notin Range(s) /\ EntityDependencies[e] \subseteq Range(s))
    BY <1>2 DEF SortEntity, Extends
  <1>3. QED
    BY <1>1, <1>2

LEMMA SortRoundExtends ==
    ASSUME NEW s \in Seq(Entity), Sorted(s), NEW es \in Seq(Entity)
    PROVE  /\ Extends(SortRound(es, s), s, Range(es))
           /\ \A e \in Range(es):
                  EntityDependencies[e] \subseteq Range(s) => e \in Range(SortRound(es, s))
  <1>0. /\ Len(es) \in Nat /\ \A i \in 1..Len(es): es[i] \in Entity
        /\ \A e: e \in Range(es) <=> \E i \in 1..Len(es): es[i] = e
    BY RangeOfSequence, Zenon
  <1>1. PICK t \in [0..Len(es) -> Seq(Entity)]:
               /\ t[0] = s
               /\ \A k \in 1..Len(es): t[k] = SortEntity(t[k - 1], es[k])
               /\ t[Len(es)] = SortRound(es, s)
    BY SortRoundTrace
  <1> DEFINE Added(k) ==
                 /\ Extends(t[k], s, Range(es))
                 /\ \A i \in 1..k: EntityDependencies[es[i]] \subseteq Range(s)
                                       => es[i] \in Range(t[k])
             S == {k \in 0..Len(es): Added(k)}
  <1>2. 0 \in S
    BY <1>0, <1>1 DEF Extends
  <1>3. ASSUME NEW k \in 0..Len(es), k < Len(es), k \in S
        PROVE  k + 1 \in S
    <2>1. k + 1 \in 1..Len(es) /\ k + 1 \in 0..Len(es) /\ (k + 1) - 1 = k
      BY <1>0, <1>3
    <2>2. t[k + 1] = SortEntity(t[k], es[k + 1])
      BY <1>1, <2>1
    <2>3. t[k] \in Seq(Entity) /\ Sorted(t[k]) /\ es[k + 1] \in Range(es)
      BY <1>0, <1>1, <1>3, <2>1 DEF Extends
    <2>4. /\ Extends(t[k + 1], t[k], {es[k + 1]})
          /\ EntityDependencies[es[k + 1]] \subseteq Range(t[k]) => es[k + 1] \in Range(t[k + 1])
      BY <1>0, <2>1, <2>2, <2>3, SortEntityExtends
    <2>5. Extends(t[k + 1], s, Range(es))
      BY <1>3, <2>3, <2>4 DEF Extends
    <2>6. ASSUME NEW i \in 1..(k + 1), EntityDependencies[es[i]] \subseteq Range(s)
          PROVE  es[i] \in Range(t[k + 1])
      <3>1. CASE i = k + 1
        BY <1>3, <2>4, <2>6, <3>1 DEF Extends
      <3>2. CASE i \in 1..k
        BY <1>3, <2>4, <2>6, <3>2 DEF Extends
      <3>3. QED
        BY <3>1, <3>2
    <2>7. QED
      BY <2>1, <2>5, <2>6
  <1>4. \A k \in 0..Len(es): k \in S
    <2> HIDE DEF S
    <2>1. QED
      BY <1>0, <1>2, <1>3, BoundedInduction
  <1>5. Added(Len(es))
    BY <1>0, <1>4
  <1>6. QED
    BY <1>0, <1>1, <1>5

(* In which round an entity is added when all it depends on is there.       *)
Level(e) == CASE e = "user" -> 1
              [] e \in {"driver", "passenger"} -> 2
              [] e \in {"ride", "vehicle"} -> 3
              [] OTHER -> 4

Closed(D) == \A e \in D: EntityDependencies[e] \subseteq D

LEMMA DependenciesAreLower ==
    ASSUME NEW e \in Entity, NEW d \in EntityDependencies[e]
    PROVE  Level(d) < Level(e) /\ d \in Entity
  BY EntityNames DEF Level

LEMMA LevelIsReached ==
    ASSUME NEW es \in Seq(Entity), NEW D, D \subseteq Range(es), Closed(D), NEW e \in D
    PROVE  Level(e) \in 1..Len(es)
  <1>1. \A x \in D: \E i \in 1..Len(es): es[i] = x
    BY RangeOfSequence, Zenon
  <1>2. Len(es) \in Nat /\ e \in Entity
    BY RangeOfSequence
  <1>3. CASE e = "user"
    BY <1>1, <1>2, <1>3 DEF Level
  <1>4. CASE e \in {"driver", "passenger"}
    <2>1. "user" \in D
      BY <1>4, EntityNames DEF Closed
    <2>2. PICK i \in 1..Len(es): es[i] = e
      BY <1>1
    <2>3. PICK j \in 1..Len(es): es[j] = "user"
      BY <1>1, <2>1
    <2>4. i # j
      BY <1>4, <2>2, <2>3
    <2>5. Len(es) >= 2
      BY <1>2, <2>4
    <2>6. Level(e) = 2
      BY <1>4 DEF Level
    <2>7. QED
      BY <1>2, <2>5, <2>6
  <1>5. CASE e \in {"ride", "vehicle", "passengerOnRide"}
    <2>1. "ride" \in D \/ "vehicle" \in D
      BY <1>5, EntityNames DEF Closed
    <2>2. "driver" \in D
      BY <2>1, EntityNames DEF Closed
    <2>3. "user" \in D
      BY <2>2, EntityNames DEF Closed
    <2>4. PICK i \in 1..Len(es): es[i] = e
      BY <1>1
    <2>5. PICK j \in 1..Len(es): es[j] = "driver"
      BY <1>1, <2>2
    <2>6. PICK k \in 1..Len(es): es[k] = "user"
      BY <1>1, <2>3
    <2>7. i # j /\ i # k /\ j # k
      BY <1>5, <2>4, <2>5, <2>6
    <2>8. Len(es) >= 3
      BY <1>2, <2>7
    <2>9. CASE e # "passengerOnRide"
      <3>1. Level(e) = 3
        BY <1>5, <2>9 DEF Level
      <3>2. QED
        BY <1>2, <2>8, <3>1
    <2>10. CASE e = "passengerOnRide"
      <3>1. "ride" \in D
        BY <2>10, EntityNames DEF Closed
      <3>2. PICK l \in 1..Len(es): es[l] = "ride"
        BY <1>1, <3>1
      <3>3. l # i /\ l # j /\ l # k
        BY <2>4, <2>5, <2>6, <2>10, <3>2
      <3>4. Len(es) >= 4
        BY <1>2, <2>7, <3>3
      <3>5. Level(e) = 4
        BY <2>10 DEF Level
      <3>6. QED
        BY <1>2, <3>4, <3>5
    <2>11. QED
      BY <2>9, <2>10
  <1>6. QED
    BY <1>2, <1>3, <1>4, <1>5, EntityNames

(* For any files, in any order: sortEntities returns entities of the files, *)
(* none twice and each after those it depends on, and leaves out only what  *)
(* depends, directly or not, on an entity that is not among the files.      *)
THEOREM SortIsRight ==
    ASSUME NEW es \in Seq(Entity)
    PROVE  /\ Sorted(SortEntities(es))
           /\ Range(SortEntities(es)) \subseteq Range(es)
           /\ \A D: D \subseteq Range(es) /\ Closed(D) => D \subseteq Range(SortEntities(es))
  <1> DEFINE n == Len(es)
             empty == <<>>
  <1>0. n \in Nat
    OBVIOUS
  <1>1. PICK t \in [0..n -> Seq(Entity)]:
               /\ t[0] = empty
               /\ \A k \in 1..n: t[k] = SortRound(es, t[k - 1])
               /\ t[n] = SortEntities(es)
    BY SortEntitiesTrace
  <1> DEFINE Reached(k) ==
                 /\ Sorted(t[k]) /\ Range(t[k]) \subseteq Range(es)
                 /\ \A D: D \subseteq Range(es) /\ Closed(D) =>
                        \A e \in D: Level(e) <= k => e \in Range(t[k])
             S == {k \in 0..n: Reached(k)}
  <1>2. \A e: Level(e) \in 1..4
    BY DEF Level
  <1>3. 0 \in S
    <2>1. Sorted(empty) /\ Range(empty) = {}
      BY DEF Sorted, Distinct, Topological, Range
    <2> HIDE DEF empty
    <2>2. QED
      BY <1>0, <1>1, <1>2, <2>1
  <1> HIDE DEF n, empty
  <1>4. ASSUME NEW k \in 0..n, k < n, k \in S
        PROVE  k + 1 \in S
    <2>1. k + 1 \in 1..n /\ k + 1 \in 0..n /\ (k + 1) - 1 = k
      BY <1>0, <1>4
    <2>2. t[k + 1] = SortRound(es, t[k]) /\ t[k] \in Seq(Entity) /\ Sorted(t[k])
      BY <1>1, <1>4, <2>1
    <2>3. /\ Extends(t[k + 1], t[k], Range(es))
          /\ \A e \in Range(es):
                 EntityDependencies[e] \subseteq Range(t[k]) => e \in Range(t[k + 1])
      BY <2>2, SortRoundExtends
    <2>4. ASSUME NEW D, D \subseteq Range(es), Closed(D), NEW e \in D, Level(e) <= k + 1
          PROVE  e \in Range(t[k + 1])
      <3>1. \A d \in EntityDependencies[e]: d \in D /\ Level(d) < Level(e)
        <4>1. e \in Entity
          BY <2>4, RangeOfSequence, Zenon
        <4>2. QED
          BY <2>4, <4>1, DependenciesAreLower DEF Closed
      <3>2. \A d \in EntityDependencies[e]: Level(d) <= k
        BY <1>2, <2>4, <3>1
      <3>3. EntityDependencies[e] \subseteq Range(t[k])
        BY <1>4, <2>4, <3>1, <3>2
      <3>4. QED
        BY <2>3, <2>4, <3>3
    <2>5. QED
      BY <1>4, <2>1, <2>3, <2>4 DEF Extends
  <1>5. n \in S
    <2>1. \A k \in 0..n: k \in S
      <3> HIDE DEF S
      <3>1. QED
        BY <1>0, <1>3, <1>4, BoundedInduction
    <2>2. QED
      BY <1>0, <2>1
  <1>6. ASSUME NEW D, D \subseteq Range(es), Closed(D), NEW e \in D
        PROVE  Level(e) <= n
    <2>1. Level(e) \in 1..Len(es)
      BY <1>6, LevelIsReached
    <2>2. QED
      BY <1>0, <2>1 DEF n
  <1>7. QED
    BY <1>1, <1>5, <1>6

(* The files that are loaded are those of tables.                           *)
LEMMA EntitiesAreTables ==
    ASSUME NEW directory \in Seq(STRING)
    PROVE  /\ Entities(directory) \in Seq(Tables)
           /\ Range(Entities(directory)) = Range(directory) \cap Tables
  <1> DEFINE n == Len(directory)
             empty == <<>>
  <1>0. n \in Nat /\ \A e: e \in Range(directory) <=> \E i \in 1..n: directory[i] = e
    BY RangeOfSequence, Zenon
  <1>1. PICK t \in [0..n -> Seq(Tables)]:
               /\ t[0] = empty
               /\ \A k \in 1..n: t[k] = LoadFile(t[k - 1], directory[k])
               /\ t[n] = Entities(directory)
    BY EntitiesTrace
  <1> DEFINE Loaded(k) ==
                 \A e: e \in Range(t[k]) <=> e \in Tables /\ \E i \in 1..k: directory[i] = e
             S == {k \in 0..n: Loaded(k)}
  <1>2. 0 \in S
    <2>1. Range(empty) = {}
      BY DEF Range
    <2> HIDE DEF empty
    <2>2. QED
      BY <1>0, <1>1, <2>1
  <1> HIDE DEF n, empty
  <1>3. ASSUME NEW k \in 0..n, k < n, k \in S
        PROVE  k + 1 \in S
    <2>1. k + 1 \in 1..n /\ k + 1 \in 0..n /\ (k + 1) - 1 = k
      BY <1>0, <1>3
    <2>2. t[k + 1] = LoadFile(t[k], directory[k + 1]) /\ t[k] \in Seq(Tables)
      BY <1>1, <2>1
    <2>3. Range(t[k + 1]) = Range(t[k]) \cup ({directory[k + 1]} \cap Tables)
      <3>1. CASE directory[k + 1] \in Tables
        BY <2>2, <3>1, RangeOfAppend DEF LoadFile
      <3>2. CASE directory[k + 1] \notin Tables
        BY <2>2, <3>2 DEF LoadFile
      <3>3. QED
        BY <3>1, <3>2
    <2>4. \A i: i \in 1..(k + 1) <=> i \in 1..k \/ i = k + 1
      BY <1>3
    <2>5. Loaded(k + 1)
      BY <1>3, <2>3, <2>4
    <2>6. QED
      BY <2>1, <2>5
  <1>4. n \in S
    <2>1. \A k \in 0..n: k \in S
      <3> HIDE DEF S
      <3>1. QED
        BY <1>0, <1>2, <1>3, BoundedInduction
    <2>2. QED
      BY <1>0, <2>1
  <1>5. QED
    BY <1>0, <1>1, <1>4
=============================================================================
