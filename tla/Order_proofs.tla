----------------------------- MODULE Order_proofs -----------------------------
(***************************************************************************)
(* Least elements of sets of numbers, which serve as induction, recursion  *)
(* over an interval, and the places of the elements of an ordered set: the *)
(* lemmas shared by the proofs about what recursive functions and choices  *)
(* compute.                                                                *)
(***************************************************************************)
EXTENDS Integers, Sequences, FiniteSets, FiniteSetsExt, FiniteSetTheorems,
        WellFoundedInduction, TLAPS

-----------------------------------------------------------------------------
(* Least elements, and recursion over an interval.                         *)

\* Every set of naturals with an element has a least one.
LEMMA LeastElement ==
  ASSUME NEW T \in SUBSET Nat, T # {}
  PROVE  \E m \in T : \A n \in T : m <= n
<1> DEFINE U == {0..n : n \in T}
           R == StrictSubsetOrdering(Nat)
<1>1. U \subseteq FiniteSubsetsOf(Nat)
  <2>1. ASSUME NEW n \in T PROVE 0..n \in SUBSET Nat /\ IsFiniteSet(0..n)
    BY FS_Interval
  <2>2. QED
    BY <2>1 DEF FiniteSubsetsOf
<1>2. U # {}
  OBVIOUS
<1>3. IsWellFoundedOn(R, FiniteSubsetsOf(Nat))
  BY FS_StrictSubsetOrderingWellFounded
<1>4. PICK u \in U : \A v \in U : ~(<<v, u>> \in R)
  <2> HIDE DEF U, R
  <2>1. QED
    BY <1>1, <1>2, <1>3, WFMin
<1>5. PICK m \in T : u = 0..m
  BY <1>4
<1>6. ASSUME NEW n \in T, n < m PROVE FALSE
  <2>1. 0..n \in U /\ 0..n \in SUBSET Nat /\ 0..m \in SUBSET Nat
    OBVIOUS
  <2>2. 0..n \subseteq 0..m /\ 0..n # 0..m
    <3>1. m \in 0..m /\ m \notin 0..n
      BY <1>6
    <3>2. QED
      BY <1>6, <3>1
  <2>3. <<0..n, 0..m>> \in R
    BY <2>1, <2>2 DEF StrictSubsetOrdering
  <2>4. QED
    BY <1>4, <1>5, <2>1, <2>3
<1>7. QED
  BY <1>6

\* Induction along an interval.
LEMMA Climb ==
  ASSUME NEW n \in Nat, NEW G, 0 \in G, \A k \in 1..n : k - 1 \in G => k \in G
  PROVE  \A k \in 0..n : k \in G
<1> DEFINE T == {k \in 0..n : k \notin G}
<1>1. T \in SUBSET Nat /\ \A k \in T : k \in 0..n /\ k \notin G
  OBVIOUS
<1>2. \A k \in 0..n : k \notin T => k \in G
  OBVIOUS
<1> HIDE DEF T
<1>3. ASSUME T # {} PROVE FALSE
  <2>1. PICK m \in T : \A k \in T : m <= k
    BY <1>1, <1>3, LeastElement
  <2>2. m \in 0..n /\ m \notin G /\ m # 0
    BY <1>1
  <2>3. m \in 1..n /\ m - 1 \in 0..n /\ ~(m <= m - 1)
    BY <2>2
  <2>4. m - 1 \in G
    BY <1>2, <2>1, <2>3
  <2>5. QED
    BY <2>2, <2>3, <2>4
<1>4. QED
  BY <1>2, <1>3

\* Recursion on an interval: each value is made of its place and the value before.
CanRun(S, lo, hi, init, step) ==
  lo \in Nat /\ hi \in Nat /\ lo <= hi /\ init \in S /\ step \in [lo..hi -> [S -> S]]

Runs(S, lo, hi, init, step, f) ==
  f \in [lo..hi -> S] /\ f[lo] = init /\ \A k \in lo + 1..hi : f[k] = step[k][f[k - 1]]

\* Such a recursion defines a function, although it is written with CHOOSE.
LEMMA Recursion ==
  ASSUME NEW S, NEW lo, NEW hi, NEW init, NEW step, CanRun(S, lo, hi, init, step)
  PROVE  \E f : Runs(S, lo, hi, init, step, f)
<1> USE DEF CanRun
<1> DEFINE Upto(n, f) == f[lo] = init /\ \A k \in lo + 1..n : f[k] = step[k][f[k - 1]]
           T == {n \in lo..hi : ~ \E f \in [lo..n -> S] : Upto(n, f)}
<1>1. \A n \in lo..hi : n \notin T => \E f \in [lo..n -> S] : Upto(n, f)
  OBVIOUS
<1>2. \A n \in T : n \in lo..hi /\ n \in Nat /\ ~ \E f \in [lo..n -> S] : Upto(n, f)
  OBVIOUS
<1>3. T \in SUBSET Nat
  OBVIOUS
<1> HIDE DEF T
<1>4. ASSUME T # {} PROVE FALSE
  <2>1. PICK n \in T : \A m \in T : n <= m
    BY <1>3, <1>4, LeastElement
  <2>2. n \in lo..hi /\ n \in Nat /\ ~ \E f \in [lo..n -> S] : Upto(n, f)
    BY <1>2
  <2>3. CASE n = lo
    <3> DEFINE f == [k \in lo..lo |-> init]
    <3>1. f \in [lo..n -> S] /\ Upto(n, f)
      BY <2>3
    <3> HIDE DEF f
    <3>2. QED
      BY <2>2, <3>1
  <2>4. CASE n # lo
    <3>1. n - 1 \in lo..hi /\ n - 1 \in Nat /\ ~(n <= n - 1) /\ n - 1 \in lo..n
      BY <2>2, <2>4
    <3>2. n - 1 \notin T
      BY <2>1, <3>1
    <3>3. PICK g \in [lo..n - 1 -> S] : Upto(n - 1, g)
      BY <1>1, <3>1, <3>2
    <3> DEFINE f == [k \in lo..n |-> IF k = n THEN step[n][g[n - 1]] ELSE g[k]]
    <3>4. g[n - 1] \in S /\ step[n][g[n - 1]] \in S
      BY <2>2, <2>4, <3>1
    <3>5. f \in [lo..n -> S]
      BY <2>2, <2>4, <3>4
    <3>6. f[lo] = init
      BY <2>2, <2>4, <3>3
    <3>7. ASSUME NEW k \in lo + 1..n PROVE f[k] = step[k][f[k - 1]]
      <4>1. k \in lo..n /\ k - 1 \in lo..n /\ k - 1 # n /\ k - 1 \in lo..n - 1
        BY <2>2
      <4>2. f[k - 1] = g[k - 1]
        BY <4>1
      <4>3. CASE k = n
        BY <4>1, <4>2, <4>3
      <4>4. CASE k # n
        <5>1. f[k] = g[k] /\ k \in lo + 1..n - 1
          BY <2>2, <4>1, <4>4
        <5>2. QED
          BY <3>3, <4>2, <5>1
      <4>5. QED
        BY <4>3, <4>4
    <3> HIDE DEF f
    <3>8. QED
      BY <2>2, <3>5, <3>6, <3>7
  <2>5. QED
    BY <2>3, <2>4
<1>5. hi \in lo..hi
  OBVIOUS
<1>6. QED
  BY <1>1, <1>4, <1>5 DEF Runs

\* Whatever follows the same recursion runs through the same set.
LEMMA RunsToo ==
  ASSUME NEW S, NEW lo, NEW hi, NEW init, NEW step, CanRun(S, lo, hi, init, step),
         NEW f, f = [k \in lo..hi |-> f[k]], f[lo] = init,
         \A k \in lo + 1..hi : f[k - 1] \in S => f[k] = step[k][f[k - 1]]
  PROVE  Runs(S, lo, hi, init, step, f)
<1> USE DEF CanRun
<1> DEFINE T == {n \in lo..hi : f[n] \notin S}
<1>1. T \in SUBSET Nat /\ \A n \in T : n \in lo..hi /\ n \in Nat /\ f[n] \notin S
  OBVIOUS
<1>2. \A n \in lo..hi : n \notin T => f[n] \in S
  OBVIOUS
<1> HIDE DEF T
<1>3. ASSUME T # {} PROVE FALSE
  <2>1. PICK n \in T : \A m \in T : n <= m
    BY <1>1, <1>3, LeastElement
  <2>2. n \in lo..hi /\ n \in Nat /\ f[n] \notin S /\ n # lo
    BY <1>1
  <2>3. n - 1 \in lo..hi /\ ~(n <= n - 1) /\ n \in lo + 1..hi
    BY <2>2
  <2>4. f[n - 1] \in S
    BY <1>2, <2>1, <2>3
  <2>5. f[n] = step[n][f[n - 1]] /\ step[n] \in [S -> S]
    BY <2>2, <2>3, <2>4
  <2>6. QED
    BY <2>2, <2>4, <2>5
<1>4. \A n \in lo..hi : f[n] \in S
  BY <1>2, <1>3
<1>5. f \in [lo..hi -> S]
  BY <1>4
<1>6. \A k \in lo + 1..hi : k - 1 \in lo..hi
  OBVIOUS
<1>7. QED
  BY <1>4, <1>5, <1>6 DEF Runs

-----------------------------------------------------------------------------
(* Greatest and least elements, and places in an order.                    *)

\* Bounded sets of numbers have a greatest and a least element.
LEMMA MaxIs ==
  ASSUME NEW T \in SUBSET Nat, T # {}, NEW b \in Nat, \A n \in T : n <= b
  PROVE  Max(T) \in T /\ \A n \in T : n <= Max(T)
<1> DEFINE U == {b - n : n \in T}
<1>1. U \in SUBSET Nat /\ U # {}
  <2>1. ASSUME NEW n \in T PROVE b - n \in Nat
    BY n \in Nat, n <= b
  <2>2. QED
    BY <2>1
<1>2. PICK m \in U : \A u \in U : m <= u
  <2> HIDE DEF U
  <2>1. QED
    BY <1>1, LeastElement
<1>3. PICK x \in T : m = b - x
  BY <1>2
<1>4. \A n \in T : x >= n
  <2>1. ASSUME NEW n \in T PROVE x >= n
    <3>1. m <= b - n
      BY <1>2
    <3>2. x \in Nat /\ n \in Nat
      OBVIOUS
    <3>3. QED
      BY <1>3, <3>1, <3>2
  <2>2. QED
    BY <2>1
<1>5. Max(T) \in T /\ \A n \in T : Max(T) >= n
  BY <1>4 DEF Max
<1>6. QED
  BY <1>5

\* Min is the least of a set of naturals.
LEMMA MinIs ==
  ASSUME NEW T \in SUBSET Nat, T # {}
  PROVE  Min(T) \in T /\ \A n \in T : Min(T) <= n
<1>1. PICK m \in T : \A n \in T : m =< n
  BY LeastElement
<1>2. QED
  BY <1>1 DEF Min

\* The greatest and the least element of a set are the only ones of their kind.
LEMMA MaxUnique ==
  ASSUME NEW T \in SUBSET Int, NEW m \in T, \A n \in T : n <= m
  PROVE  Max(T) = m
<1>1. \A x \in T : (\A n \in T : x >= n) => x = m
  OBVIOUS
<1>2. Max(T) \in T /\ \A n \in T : Max(T) >= n
  BY DEF Max
<1>3. QED
  BY <1>1, <1>2

\* What is the least of a set is its Min.
LEMMA MinUnique ==
  ASSUME NEW T \in SUBSET Int, NEW m \in T, \A n \in T : m <= n
  PROVE  Min(T) = m
<1>1. Min(T) \in T /\ \A n \in T : Min(T) =< n
  BY DEF Min
<1>2. Min(T) <= m /\ m <= Min(T) /\ m \in Int /\ Min(T) \in Int
  BY <1>1
<1>3. QED
  BY <1>2

-----------------------------------------------------------------------------
(* Ranks.                                                                  *)

\* The elements of a set, told apart by a number each has, are the first, the
\* second and so on up to its cardinality.
Keyed(T, f) ==
  /\ IsFiniteSet(T)
  /\ f \in [T -> Int]
  /\ \A x, y \in T : f[x] = f[y] => x = y

Rank(T, f, x) == Cardinality({y \in T : f[y] < f[x]})

Ranked(T, f) ==
  /\ Cardinality(T) \in Nat
  /\ \A x \in T : Rank(T, f, x) \in 0..Cardinality(T) - 1
  /\ \A x, y \in T : f[x] < f[y] => Rank(T, f, x) < Rank(T, f, y)
  /\ \A k \in 1..Cardinality(T) : \E x \in T : Rank(T, f, x) = k - 1

\* With keys that differ, ranks are the numbers from nought up, in the order of the keys.
LEMMA Ranks ==
  ASSUME NEW T, NEW f, Keyed(T, f)
  PROVE  Ranked(T, f)
<1> USE DEF Keyed
<1> DEFINE Below(x) == {y \in T : f[y] < f[x]}
           rank == [x \in T |-> Cardinality(Below(x))]
           c == Cardinality(T)
<1>1. c \in Nat
  BY FS_CardinalityType
<1>2. ASSUME NEW x \in T PROVE IsFiniteSet(Below(x)) /\ Cardinality(Below(x)) \in 0..c - 1
  <2>1. Below(x) \in SUBSET T /\ x \notin Below(x)
    OBVIOUS
  <2>2. IsFiniteSet(Below(x)) /\ Cardinality(Below(x)) <= c /\ Cardinality(Below(x)) # c
    <3> HIDE DEF Below
    <3>1. QED
      BY <2>1, FS_Subset
  <2>3. Cardinality(Below(x)) \in Nat
    BY <2>2, FS_CardinalityType
  <2>4. QED
    BY <1>1, <2>2, <2>3
<1>3. ASSUME NEW x \in T, NEW y \in T, f[x] < f[y]
      PROVE  Cardinality(Below(x)) < Cardinality(Below(y))
  <2>1. Below(x) \in SUBSET Below(y) /\ x \in Below(y) /\ x \notin Below(x)
    <3>1. \A z \in T : f[z] < f[x] => f[z] < f[y]
      BY <1>3
    <3>2. QED
      BY <1>3, <3>1
  <2>2. Cardinality(Below(x)) <= Cardinality(Below(y)) /\ Cardinality(Below(x)) # Cardinality(Below(y))
    <3>1. IsFiniteSet(Below(y))
      BY <1>2
    <3> HIDE DEF Below
    <3>2. QED
      BY <2>1, <3>1, FS_Subset
  <2>3. Cardinality(Below(x)) \in Nat /\ Cardinality(Below(y)) \in Nat
    <3> HIDE DEF Below, c
    <3>1. QED
      BY <1>2, <1>1
  <2>4. QED
    BY <2>2, <2>3
<1>4. rank \in Injection(T, 0..c - 1)
  <2>1. rank \in [T -> 0..c - 1]
    BY <1>2
  <2>2. ASSUME NEW x \in T, NEW y \in T, rank[x] = rank[y] PROVE x = y
    <3>1. /\ rank[x] = Cardinality(Below(x)) /\ rank[y] = Cardinality(Below(y))
          /\ Cardinality(Below(x)) \in Int
      <4> HIDE DEF Below, c
      <4>1. QED
        BY <1>1, <1>2
    <3>2. ~(f[x] < f[y]) /\ ~(f[y] < f[x])
      <4>1. Cardinality(Below(x)) = Cardinality(Below(y))
        BY <2>2, <3>1
      <4> HIDE DEF rank, Below
      <4>2. ~(Cardinality(Below(x)) < Cardinality(Below(y)))
            /\ ~(Cardinality(Below(y)) < Cardinality(Below(x)))
        BY <3>1, <4>1
      <4>3. QED
        BY <1>3, <4>2
    <3>3. f[x] = f[y]
      BY <3>2
    <3>4. QED
      BY <3>3
  <2> HIDE DEF rank
  <2>3. QED
    BY <2>1, <2>2 DEF Injection, IsInjective
<1>5. rank \in Surjection(T, 0..c - 1)
  <2>1. IsFiniteSet(0..c - 1) /\ Cardinality(0..c - 1) = c
    BY <1>1, FS_Interval
  <2> HIDE DEF rank
  <2>2. QED
    BY <1>4, <2>1, FS_Injection
<1>6. ASSUME NEW k \in 1..c PROVE \E x \in T : Cardinality(Below(x)) = k - 1
  <2>1. k - 1 \in 0..c - 1
    BY <1>1
  <2>2. PICK x \in T : rank[x] = k - 1
    <3> HIDE DEF rank
    <3>1. QED
      BY <1>5, <2>1 DEF Surjection
  <2>3. QED
    BY <2>2
<1> HIDE DEF Keyed
<1>7. QED
  BY <1>1, <1>2, <1>3, <1>6 DEF Ranked, Rank

-----------------------------------------------------------------------------
(* Sequences put together.                                                 *)

\* Concatenation, element by element.
LEMMA ConcatIs ==
  ASSUME NEW S, NEW s \in Seq(S), NEW w \in Seq(S)
  PROVE  /\ s \o w \in Seq(S) /\ Len(s \o w) = Len(s) + Len(w)
         /\ \A i \in 1..Len(s) : (s \o w)[i] = s[i]
         /\ \A i \in 1..Len(w) : (s \o w)[Len(s) + i] = w[i]
OBVIOUS
===============================================================================
