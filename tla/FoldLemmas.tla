----------------------------- MODULE FoldLemmas -----------------------------
(***************************************************************************)
(* Induction over the natural numbers, stated with sets so that it can be  *)
(* cited, and what folds over sequences rest on: the recursive function    *)
(* that SequencesExt!FoldLeft chooses exists.                              *)
(***************************************************************************)
EXTENDS Integers, Sequences, SequencesExt, WellFoundedInduction, TLAPS

(* A set of numbers with 0 and the successor of each of its numbers has     *)
(* them all: otherwise the least that is missing would be a successor.      *)
LEMMA SetInduction ==
    ASSUME NEW S, 0 \in S, \A n \in Nat: n \in S => n + 1 \in S
    PROVE  \A n \in Nat: n \in S
  <1> DEFINE T == Nat \ S
             R == OpToRel(<, Nat)
  <1> SUFFICES ASSUME T # {} PROVE FALSE
    OBVIOUS
  <1>1. PICK x \in T: \A y \in T: <<y, x>> \notin R
    <2>1. IsWellFoundedOn(R, Nat)
      BY NatLessThanWellFounded
    <2>2. T \subseteq Nat
      OBVIOUS
    <2> HIDE DEF T, R
    <2>3. QED
      BY <2>1, <2>2, WFMin
  <1>2. x \in Nat /\ x # 0
    OBVIOUS
  <1>3. x - 1 \in T
    BY <1>2
  <1>4. <<x - 1, x>> \in R
    BY <1>2 DEF OpToRel
  <1>5. QED
    BY <1>1, <1>3, <1>4

(* The same up to a bound.                                                  *)
LEMMA BoundedInduction ==
    ASSUME NEW n \in Nat, NEW S, 0 \in S,
           \A k \in 0..n: k < n /\ k \in S => k + 1 \in S
    PROVE  \A k \in 0..n: k \in S
  <1> DEFINE T == {k \in Nat: k <= n => k \in S}
  <1>1. 0 \in T
    OBVIOUS
  <1>2. ASSUME NEW k \in Nat, k \in T
        PROVE  k + 1 \in T
    BY <1>2
  <1>3. \A k \in Nat: k \in T
    <2> HIDE DEF T
    <2>1. QED
      BY <1>1, <1>2, SetInduction
  <1>4. QED
    BY <1>3

LEMMA MaxOfIndices ==
    ASSUME NEW n \in Nat, NEW s \in SUBSET (1..n), s # {}
    PROVE  Max(s) \in s /\ \A i \in s: i <= Max(s)
  <1> DEFINE Bounded == {k \in Nat: (\E i \in s: i > k) \/ (\E i \in s: \A j \in s: j <= i)}
  <1>0. \A i \in s: i \in Nat /\ 0 < i /\ i <= n
    OBVIOUS
  <1>1. 0 \in Bounded
    BY <1>0
  <1>2. ASSUME NEW k \in Nat, k \in Bounded
        PROVE  k + 1 \in Bounded
    <2>1. CASE \E i \in s: i > k + 1
      BY <2>1
    <2>2. CASE ~\E i \in s: i > k + 1
      <3>1. \A i \in s: i <= k + 1
        BY <1>0, <2>2
      <3>2. CASE \E i \in s: i > k
        <4>1. PICK i \in s: i > k
          BY <3>2
        <4>2. \A j \in s: j <= i
          BY <1>0, <3>1, <4>1
        <4>3. QED
          BY <4>2
      <3>3. QED
        BY <1>2, <3>2
    <2>3. QED
      BY <2>1, <2>2
  <1>3. n \in Bounded
    <2> HIDE DEF Bounded
    <2>1. QED
      BY <1>1, <1>2, SetInduction
  <1>4. \E i \in s: \A j \in s: i >= j
    BY <1>0, <1>3
  <1>5. Max(s) \in s /\ \A j \in s: Max(s) >= j
    BY <1>4 DEF Max
  <1>6. QED
    BY <1>0, <1>5

LEMMA MaxOfInterval ==
    ASSUME NEW n \in Nat, NEW k \in 1..n
    PROVE  Max(1..k) = k
  <1> DEFINE s == 1..k
  <1>1. s \in SUBSET (1..n) /\ k \in s /\ \A i \in s: i \in Nat /\ i <= k
    OBVIOUS
  <1> HIDE DEF s
  <1>2. Max(s) \in s /\ \A i \in s: i <= Max(s)
    BY <1>1, MaxOfIndices
  <1>3. \A m \in s: (\A i \in s: i <= m) => m = k
    BY <1>1
  <1>4. Max(s) = k
    BY <1>2, <1>3
  <1>5. QED
    BY <1>4 DEF s

(* f folds every set of indices below n, its greatest last.                 *)
IsFold(f, n, op, base) ==
    \A s \in SUBSET (1..n):
        f[s] = IF s = {} THEN base ELSE op[Max(s)][f[s \ {Max(s)}]]

LEMMA FoldExists ==
    ASSUME NEW A, NEW n \in Nat, NEW op \in [1..n -> [A -> A]], NEW base \in A
    PROVE  \E f \in [SUBSET (1..n) -> A]: IsFold(f, n, op, base)
  <1> DEFINE S == {k \in 0..n: \E f \in [SUBSET (1..k) -> A]: IsFold(f, k, op, base)}
  <1>1. 0 \in S
    <2> DEFINE f == [s \in SUBSET (1..0) |-> base]
    <2>1. f \in [SUBSET (1..0) -> A]
      OBVIOUS
    <2>2. \A s \in SUBSET (1..0): s = {} /\ f[s] = base
      OBVIOUS
    <2> HIDE DEF f
    <2>3. IsFold(f, 0, op, base)
      BY <2>2 DEF IsFold
    <2>4. 0 \in 0..n
      OBVIOUS
    <2>5. QED
      BY <2>1, <2>3, <2>4
  <1>2. ASSUME NEW k \in 0..n, k < n, k \in S
        PROVE  k + 1 \in S
    <2>1. PICK f \in [SUBSET (1..k) -> A]: IsFold(f, k, op, base)
      BY <1>2
    <2> DEFINE g == [s \in SUBSET (1..(k + 1)) |->
                        IF k + 1 \in s THEN op[k + 1][f[s \ {k + 1}]] ELSE f[s]]
    <2>2. \A s \in SUBSET (1..(k + 1)): s \ {k + 1} \in SUBSET (1..k)
                                        /\ (k + 1 \notin s => s \in SUBSET (1..k))
      OBVIOUS
    <2>3. g \in [SUBSET (1..(k + 1)) -> A]
      <3>1. k + 1 \in 1..n
        BY <1>2
      <3>2. QED
        BY <2>2, <3>1
    <2>4. ASSUME NEW s \in SUBSET (1..(k + 1))
          PROVE  g[s] = IF s = {} THEN base ELSE op[Max(s)][g[s \ {Max(s)}]]
      <3>1. CASE k + 1 \in s
        <4>1. Max(s) = k + 1
          <5>1. k + 1 \in Nat /\ s # {}
            BY <3>1
          <5>2. Max(s) \in s /\ \A i \in s: i <= Max(s)
            BY <5>1, MaxOfIndices
          <5>3. \A i \in s: i \in Nat /\ i <= k + 1
            OBVIOUS
          <5>4. \A m \in s: (\A i \in s: i <= m) => m = k + 1
            BY <3>1, <5>3
          <5>5. QED
            BY <5>2, <5>4
        <4>2. g[s] = op[k + 1][f[s \ {k + 1}]]
          BY <3>1
        <4>3. g[s \ {k + 1}] = f[s \ {k + 1}]
          BY <2>2
        <4>4. QED
          BY <3>1, <4>1, <4>2, <4>3
      <3>2. CASE k + 1 \notin s
        <4>1. s \in SUBSET (1..k) /\ s \ {Max(s)} \in SUBSET (1..k)
          BY <2>2, <3>2
        <4>2. g[s] = f[s] /\ g[s \ {Max(s)}] = f[s \ {Max(s)}]
          BY <3>2, <4>1
        <4>3. QED
          BY <2>1, <4>1, <4>2 DEF IsFold
      <3>3. QED
        BY <3>1, <3>2
    <2> HIDE DEF g
    <2>5. IsFold(g, k + 1, op, base)
      BY <2>4 DEF IsFold
    <2>6. k + 1 \in 0..n
      BY <1>2
    <2>7. QED
      BY <2>3, <2>5, <2>6
  <1>3. n \in S
    <2> HIDE DEF S
    <2>1. \A k \in 0..n: k \in S
      BY <1>1, <1>2, BoundedInduction
    <2>2. QED
      BY <2>1
  <1>4. QED
    BY <1>3

(* What the fold of the first k elements takes from the one before.         *)
LEMMA FoldStep ==
    ASSUME NEW n \in Nat, NEW k \in 1..n
    PROVE  /\ 1..k \in SUBSET (1..n) /\ 1..k # {}
           /\ Max(1..k) = k
           /\ (1..k) \ {Max(1..k)} = 1..(k - 1)
  <1>1. k \in 1..k
    OBVIOUS
  <1>2. ASSUME NEW i
        PROVE  i \in (1..k) \ {k} <=> i \in 1..(k - 1)
    OBVIOUS
  <1>3. (1..k) \ {k} = 1..(k - 1)
    BY <1>2
  <1>4. \A i \in 1..k: i \in 1..n
    OBVIOUS
  <1>5. Max(1..k) = k
    BY MaxOfInterval
  <1>6. QED
    BY <1>1, <1>3, <1>4, <1>5

(* The values of a fold after each of the elements, where op[k] takes the   *)
(* value before the k-th to that after it.                                  *)
IsTrace(t, n, op, base, value) ==
    /\ t[0] = base
    /\ \A k \in 1..n: t[k] = op[k][t[k - 1]]
    /\ t[n] = value

LEMMA FoldValue ==
    ASSUME NEW A, NEW n \in Nat, NEW op \in [1..n -> [A -> A]], NEW base \in A,
           NEW f, f[{}] = base,
           \A s \in SUBSET (1..n):
               s # {} /\ f[s \ {Max(s)}] \in A => f[s] = op[Max(s)][f[s \ {Max(s)}]]
    PROVE  \E t \in [0..n -> A]: IsTrace(t, n, op, base, f[1..n])
  <1> DEFINE t == [k \in 0..n |-> f[1..k]]
             S == {k \in 0..n: t[k] \in A}
  <1>1. t[0] = base
    <2>1. 1..0 = {}
      BY SMT
    <2>2. QED
      BY <2>1
  <1>2. ASSUME NEW k \in 1..n, t[k - 1] \in A
        PROVE  t[k] = op[k][t[k - 1]]
    <2>1. k \in 0..n /\ k - 1 \in 0..n
      OBVIOUS
    <2>2. t[k] = f[1..k] /\ t[k - 1] = f[1..(k - 1)]
      BY <2>1
    <2> HIDE DEF t
    <2>3. f[1..k] = op[Max(1..k)][f[(1..k) \ {Max(1..k)}]]
      BY <1>2, <2>2, FoldStep, Zenon
    <2>4. QED
      BY <2>2, <2>3, FoldStep
  <1>3. 0 \in S
    BY <1>1
  <1>4. ASSUME NEW k \in 0..n, k < n, k \in S
        PROVE  k + 1 \in S
    <2>1. k + 1 \in 1..n /\ k + 1 \in 0..n /\ (k + 1) - 1 = k /\ t[k] \in A
      BY <1>4
    <2> HIDE DEF t
    <2>2. t[k + 1] = op[k + 1][t[k]]
      BY <1>2, <2>1
    <2>3. t[k + 1] \in A
      BY <2>1, <2>2
    <2>4. QED
      BY <2>1, <2>3
  <1>5. \A k \in 0..n: k \in S
    <2> HIDE DEF S
    <2>1. QED
      BY <1>3, <1>4, BoundedInduction
  <1>6. \A k \in 0..n: t[k] \in A
    BY <1>5
  <1>7. t \in [0..n -> A] /\ t[n] = f[1..n]
    BY <1>6
  <1>8. \A k \in 1..n: t[k - 1] \in A
    <2>1. \A k \in 1..n: k - 1 \in 0..n
      OBVIOUS
    <2>2. QED
      BY <1>6, <2>1
  <1> HIDE DEF t
  <1>9. IsTrace(t, n, op, base, f[1..n])
    BY <1>1, <1>2, <1>7, <1>8 DEF IsTrace
  <1>10. QED
    BY <1>7, <1>9
=============================================================================
