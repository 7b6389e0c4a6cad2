----------------------------- MODULE Induction -----------------------------
(***************************************************************************)
(* Induction for the proofs about recursive functions and folds.           *)
(*                                                                         *)
(* The library's induction theorems take the statement to be proved as an  *)
(* operator.  Here it is a set, of the numbers, or of the sets, that have  *)
(* the property in question.                                               *)
(***************************************************************************)
EXTENDS Integers, FiniteSets, FiniteSetsExt, FiniteSetTheorems, WellFoundedInduction, TLAPS

\* A set of natural numbers has a least element, and Min finds it.
LEMMA LeastNumber ==
  ASSUME NEW T \in SUBSET Nat, T # {} PROVE Min(T) \in T /\ \A y \in T : Min(T) <= y
<1> DEFINE R == {ss \in Nat \X Nat : ss[1] < ss[2]}
<1>1. IsWellFoundedOn(R, Nat)
  BY NatLessThanWellFounded DEF OpToRel
<1>2. \E x \in T : \A y \in T : ~ (<<y, x>> \in R)
  <2> HIDE DEF R
  <2> QED
    BY <1>1, WFMin, Zenon
<1>3. \A x \in T, y \in T : ~ (<<y, x>> \in R) => x <= y
  OBVIOUS
<1> QED
  BY <1>2, <1>3 DEF Min

\* What holds of 0, and of a number's successor up to m, holds up to m.
LEMMA UpTo ==
  ASSUME NEW m \in Nat, NEW T, 0 \in T, \A n \in 0..(m - 1) : n \in T => n + 1 \in T
  PROVE  \A n \in 0..m : n \in T
<1> DEFINE bad == {n \in 0..m : n \notin T}
<1> SUFFICES ASSUME bad # {} PROVE FALSE
  OBVIOUS
<1>1. bad \in SUBSET Nat
  OBVIOUS
<1>2. PICK n \in bad : \A k \in bad : n <= k
  <2> HIDE DEF bad
  <2> QED
    BY <1>1, LeastNumber
<1>3. n # 0 /\ n - 1 \in 0..(m - 1) /\ n - 1 \notin bad
  BY <1>2
<1> QED
  BY <1>2, <1>3

\* A function that is defined step by step, from a at 0, exists.
Stepwise(m, R, a, G) ==
  \E f \in [0..m -> R] : f[0] = a /\ \A n \in 1..m : f[n] = G[<<n, f[n - 1]>>]
\* Such a function exists.
LEMMA Recursion ==
  ASSUME NEW m \in Nat, NEW R, NEW a \in R, NEW G \in [(1..m) \X R -> R]
  PROVE  Stepwise(m, R, a, G)
<1> DEFINE Steps(f, n) == f[0] = a /\ \A k \in 1..n : f[k] = G[<<k, f[k - 1]>>]
           T == {n \in Nat : n <= m => \E f \in [0..n -> R] : Steps(f, n)}
<1>1. 0 \in T
  <2> DEFINE f == [n \in 0..0 |-> a]
  <2>1. f \in [0..0 -> R] /\ Steps(f, 0)
    OBVIOUS
  <2> QED
    BY <2>1
<1>2. ASSUME NEW n \in 0..(m - 1), n \in T PROVE n + 1 \in T
  <2>1. PICK f \in [0..n -> R] : Steps(f, n)
    BY <1>2
  <2> DEFINE h == [k \in 0..(n + 1) |-> IF k = n + 1 THEN G[<<n + 1, f[n]>>] ELSE f[k]]
  <2>2. G[<<n + 1, f[n]>>] \in R
    OBVIOUS
  <2>3. h \in [0..(n + 1) -> R]
    BY <2>2
  <2>4. (\A k \in 0..n : h[k] = f[k]) /\ h[n + 1] = G[<<n + 1, f[n]>>]
    OBVIOUS
  <2> HIDE DEF h
  <2>5. ASSUME NEW k \in 1..(n + 1) PROVE h[k] = G[<<k, h[k - 1]>>]
    <3>1. CASE k = n + 1
      <4>1. h[k - 1] = f[n]
        BY <2>4, <3>1
      <4> QED
        BY <2>4, <3>1, <4>1
    <3>2. CASE k \in 1..n
      <4>1. h[k] = f[k] /\ h[k - 1] = f[k - 1]
        BY <2>4, <3>2
      <4> QED
        BY <2>1, <3>2, <4>1
    <3> QED
      BY <3>1, <3>2
  <2>6. h[0] = a
    BY <2>1, <2>4
  <2>7. Steps(h, n + 1)
    BY <2>5, <2>6
  <2> HIDE DEF Steps
  <2> QED
    BY <2>3, <2>7
<1> HIDE DEF T
<1>3. m \in T
  <2>1. \A n \in 0..m : n \in T
    BY <1>1, <1>2, UpTo
  <2> QED
    BY <2>1
<1> QED
  BY <1>3 DEF T, Stepwise

\* What holds of the empty set, and of a subset of S with one more element,
\* holds of S.
LEMMA OneByOne ==
  ASSUME NEW S, IsFiniteSet(S), NEW T, {} \in T,
         \A s \in SUBSET S : \A x \in S \ s : s \in T => s \cup {x} \in T
  PROVE  S \in T
<1> DEFINE U == {n \in Nat : \A s \in SUBSET S : Cardinality(s) = n => s \in T}
<1>1. \A s \in SUBSET S : IsFiniteSet(s) /\ Cardinality(s) \in Nat
  BY FS_Subset, FS_CardinalityType
<1>2. 0 \in U
  BY <1>1, FS_EmptySet
<1>3. ASSUME NEW n \in Nat, n \in U PROVE n + 1 \in U
  <2> SUFFICES ASSUME NEW s \in SUBSET S, Cardinality(s) = n + 1 PROVE s \in T
    OBVIOUS
  <2>1. PICK x : x \in s
    BY <1>1, FS_EmptySet
  <2>2. Cardinality(s \ {x}) = n
    <3>1. Cardinality(s \ {x}) = Cardinality(s) - 1
      BY <1>1, <2>1, FS_RemoveElement
    <3> QED
      BY <3>1
  <2>3. s \ {x} \in T
    BY <1>3, <2>2
  <2>4. s = (s \ {x}) \cup {x} /\ s \ {x} \in SUBSET S /\ x \in S \ (s \ {x})
    BY <2>1
  <2> QED
    BY <2>3, <2>4
<1>4. Cardinality(S) \in U
  <2> HIDE DEF U
  <2>1. \A n \in 0..Cardinality(S) : n \in U
    BY <1>1, <1>2, <1>3, UpTo
  <2> QED
    BY <1>1, <2>1
<1> QED
  BY <1>4

\* The numbers up to n are n.
LEMMA Interval == ASSUME NEW n \in Nat PROVE IsFiniteSet(1..n) /\ Cardinality(1..n) = n
<1>1. 1 \in Int /\ n \in Int
  OBVIOUS
<1>2. IsFiniteSet(1..n) /\ Cardinality(1..n) = IF 1 > n THEN 0 ELSE n - 1 + 1
  BY <1>1, FS_Interval, Zenon
<1> QED
  BY <1>2

\* The image of a finite set is finite.
LEMMA FiniteImage ==
  ASSUME NEW S, IsFiniteSet(S), NEW g PROVE IsFiniteSet({g[x] : x \in S})
<1> DEFINE T == {s \in SUBSET S : IsFiniteSet({g[x] : x \in s})}
<1>1. {} \in T
  BY FS_EmptySet
<1>2. ASSUME NEW s \in SUBSET S, NEW y \in S \ s, s \in T PROVE s \cup {y} \in T
  <2>1. {g[x] : x \in s \cup {y}} = {g[x] : x \in s} \cup {g[y]}
    OBVIOUS
  <2>2. IsFiniteSet({g[x] : x \in s} \cup {g[y]})
    BY <1>2, FS_AddElement
  <2> QED
    BY <2>1, <2>2
<1> HIDE DEF T
<1>3. S \in T
  BY <1>1, <1>2, OneByOne
<1> QED
  BY <1>3 DEF T

\* A finite set of numbers has a greatest and a least element; Max and Min
\* find them.
LEMMA Extremes ==
  ASSUME NEW S \in SUBSET Int, IsFiniteSet(S), S # {}
  PROVE  /\ Max(S) \in S /\ \A y \in S : Max(S) >= y
         /\ Min(S) \in S /\ \A y \in S : Min(S) <= y
<1> DEFINE T == {s \in SUBSET S : s # {} => /\ \E x \in s : \A y \in s : x >= y
                                           /\ \E x \in s : \A y \in s : x <= y}
<1>1. ASSUME NEW s \in SUBSET S, NEW x \in S \ s, s \in T PROVE s \cup {x} \in T
  <2>1. CASE s = {}
    BY <2>1
  <2>2. CASE s # {}
    <3>1. PICK g \in s, l \in s : \A y \in s : g >= y /\ l <= y
      BY <1>1, <2>2
    <3>2. \E h \in s \cup {x} : \A y \in s \cup {x} : h >= y
      <4>1. CASE x >= g
        BY <3>1, <4>1
      <4>2. CASE ~(x >= g)
        BY <3>1, <4>2
      <4> QED
        BY <4>1, <4>2
    <3>3. \E h \in s \cup {x} : \A y \in s \cup {x} : h <= y
      <4>1. CASE x <= l
        BY <3>1, <4>1
      <4>2. CASE ~(x <= l)
        BY <3>1, <4>2
      <4> QED
        BY <4>1, <4>2
    <3> QED
      BY <3>2, <3>3
  <2> QED
    BY <2>1, <2>2
<1>2. S \in T
  <2>1. {} \in T
    OBVIOUS
  <2> HIDE DEF T
  <2> QED
    BY <1>1, <2>1, OneByOne
<1>3. /\ \E x \in S : \A y \in S : x >= y
      /\ \E x \in S : \A y \in S : x <= y
  BY <1>2
<1> QED
  BY <1>3 DEF Max, Min
-----------------------------------------------------------------------------
(* Sums.  MapThenSumSet takes an operator; these are about a function.     *)

SomeOf(S) == CHOOSE x \in S : TRUE
SumRule(g, it, S) ==
  it = [s \in SUBSET S |-> IF s = {} THEN 0 ELSE g[SomeOf(s)] + it[s \ {SomeOf(s)}]]
Sum(g, S) == MapThenSumSet(LAMBDA x : g[x], S)

\* Functions that agree on the elements have the same sum.
LEMMA SameSum ==
  ASSUME NEW S, NEW g, NEW h, \A x \in S : g[x] = h[x] PROVE Sum(g, S) = Sum(h, S)
<1>1. \A s \in SUBSET S : s # {} => SomeOf(s) \in S
  BY DEF SomeOf
<1>2. \A it : SumRule(g, it, S) <=> SumRule(h, it, S)
  <2> SUFFICES ASSUME NEW it
      PROVE [s \in SUBSET S |-> IF s = {} THEN 0 ELSE g[SomeOf(s)] + it[s \ {SomeOf(s)}]]
            = [s \in SUBSET S |-> IF s = {} THEN 0 ELSE h[SomeOf(s)] + it[s \ {SomeOf(s)}]]
    BY Zenon DEF SumRule
  <2> QED
    BY <1>1
<1>3. (CHOOSE it : SumRule(g, it, S)) = (CHOOSE it : SumRule(h, it, S))
  BY <1>2
<1>4. Sum(g, S) = (CHOOSE it : SumRule(g, it, S))[S] /\ Sum(h, S) = (CHOOSE it : SumRule(h, it, S))[S]
  BY Zenon DEF Sum, SumRule, MapThenSumSet, MapThenFoldSet, SomeOf
<1> QED
  BY <1>3, <1>4

\* A finite set has a function that sums up its subsets.
LEMMA SumExists ==
  ASSUME NEW S, IsFiniteSet(S), NEW g, \A x \in S : g[x] \in Int
  PROVE  \E it : SumRule(g, it, S)
<1> DEFINE Rest(s) == s \ {SomeOf(s)}
           Right(f, s) == f[s] = IF s = {} THEN 0 ELSE g[SomeOf(s)] + f[Rest(s)]
           U == {n \in Nat : \E f \in [SUBSET S -> Int] :
                   \A s \in SUBSET S : Cardinality(s) <= n => Right(f, s)}
<1>1. \A s \in SUBSET S : IsFiniteSet(s) /\ Cardinality(s) \in Nat
  BY FS_Subset, FS_CardinalityType
<1>2. ASSUME NEW s \in SUBSET S, s # {}
      PROVE  SomeOf(s) \in s /\ Rest(s) \in SUBSET S /\ Cardinality(Rest(s)) = Cardinality(s) - 1
  <2>1. SomeOf(s) \in s
    BY <1>2 DEF SomeOf
  <2> QED
    BY <1>1, <2>1, FS_RemoveElement
<1>3. 0 \in U
  <2> DEFINE f == [s \in SUBSET S |-> 0]
  <2>1. f \in [SUBSET S -> Int]
    OBVIOUS
  <2>2. ASSUME NEW s \in SUBSET S, Cardinality(s) <= 0 PROVE Right(f, s)
    <3>1. s = {}
      BY <1>1, <2>2, FS_EmptySet
    <3> QED
      BY <3>1
  <2> QED
    BY <2>1, <2>2
<1>4. ASSUME NEW n \in Nat, n \in U PROVE n + 1 \in U
  <2>1. PICK f \in [SUBSET S -> Int] : \A s \in SUBSET S : Cardinality(s) <= n => Right(f, s)
    BY <1>4
  <2> DEFINE h == [s \in SUBSET S |-> IF s = {} THEN 0 ELSE g[SomeOf(s)] + f[Rest(s)]]
  <2>2. h \in [SUBSET S -> Int]
    <3>1. \A s \in SUBSET S : s # {} => g[SomeOf(s)] \in Int /\ f[Rest(s)] \in Int
      BY <1>2
    <3> HIDE DEF Rest
    <3> QED
      BY <3>1
  <2>3. ASSUME NEW s \in SUBSET S, Cardinality(s) <= n + 1 PROVE Right(h, s)
    <3>1. CASE s = {}
      BY <3>1
    <3>2. CASE s # {}
      <4>1. Rest(s) \in SUBSET S /\ Cardinality(Rest(s)) <= n
        BY <1>1, <1>2, <2>3, <3>2
      <4>2. h[Rest(s)] = f[Rest(s)]
        BY <2>1, <4>1
      <4> HIDE DEF Rest
      <4> QED
        BY <3>2, <4>2
    <3> QED
      BY <3>1, <3>2
  <2> HIDE DEF h, Right
  <2> QED
    BY <2>2, <2>3
<1>5. Cardinality(S) \in U
  <2> HIDE DEF U
  <2>1. \A n \in 0..Cardinality(S) : n \in U
    BY <1>1, <1>3, <1>4, UpTo
  <2> QED
    BY <1>1, <2>1
<1>6. PICK f \in [SUBSET S -> Int] : \A s \in SUBSET S : Right(f, s)
  <2>1. \A s \in SUBSET S : Cardinality(s) <= Cardinality(S)
    BY FS_Subset
  <2> HIDE DEF Right
  <2> QED
    BY <1>5, <2>1
<1>7. f = [s \in SUBSET S |-> IF s = {} THEN 0 ELSE g[SomeOf(s)] + f[s \ {SomeOf(s)}]]
  BY <1>6
<1> QED
  BY <1>7, Zenon DEF SumRule

\* The sum of numbers between two bounds is between their multiples.
LEMMA SumBetween ==
  ASSUME NEW S, IsFiniteSet(S), NEW g, NEW low \in Int, NEW high \in Int,
         \A x \in S : g[x] \in Int /\ low <= g[x] /\ g[x] <= high
  PROVE  /\ Sum(g, S) \in Int
         /\ low * Cardinality(S) <= Sum(g, S) /\ Sum(g, S) <= high * Cardinality(S)
<1> DEFINE it == CHOOSE it : SumRule(g, it, S)
           Bounded(s) == /\ it[s] \in Int
                         /\ low * Cardinality(s) <= it[s] /\ it[s] <= high * Cardinality(s)
           U == {n \in Nat : \A s \in SUBSET S : Cardinality(s) = n => Bounded(s)}
<1>1. \A s \in SUBSET S : IsFiniteSet(s) /\ Cardinality(s) \in Nat
  BY FS_Subset, FS_CardinalityType
<1>2. SumRule(g, it, S)
  BY SumExists
<1>3. Sum(g, S) = it[S]
  BY Zenon DEF Sum, SumRule, MapThenSumSet, MapThenFoldSet, SomeOf
<1> HIDE DEF it
<1>4. \A s \in SUBSET S : it[s] = IF s = {} THEN 0 ELSE g[SomeOf(s)] + it[s \ {SomeOf(s)}]
  BY <1>2, Zenon DEF SumRule
<1>5. 0 \in U
  <2> SUFFICES ASSUME NEW s \in SUBSET S, Cardinality(s) = 0 PROVE Bounded(s)
    OBVIOUS
  <2>1. s = {}
    BY <1>1, FS_EmptySet
  <2>2. it[s] = 0
    BY <1>4, <2>1
  <2>3. low * 0 = 0 /\ high * 0 = 0
    OBVIOUS
  <2> QED
    BY <2>2, <2>3
<1>6. ASSUME NEW n \in Nat, n \in U PROVE n + 1 \in U
  <2> SUFFICES ASSUME NEW s \in SUBSET S, Cardinality(s) = n + 1 PROVE Bounded(s)
    OBVIOUS
  <2>1. s # {}
    BY FS_EmptySet
  <2>2. SomeOf(s) \in s
    BY <2>1 DEF SomeOf
  <2> DEFINE r == s \ {SomeOf(s)}
  <2>3. r \in SUBSET S /\ Cardinality(r) = n
    <3>1. Cardinality(r) = Cardinality(s) - 1
      BY <1>1, <2>2, FS_RemoveElement
    <3> QED
      BY <3>1
  <2>4. it[r] \in Int /\ low * n <= it[r] /\ it[r] <= high * n
    BY <1>6, <2>3
  <2>5. it[s] = g[SomeOf(s)] + it[r]
    BY <1>4, <2>1
  <2>6. low * (n + 1) = low * n + low /\ high * (n + 1) = high * n + high
    OBVIOUS
  <2>7. low * n \in Int /\ high * n \in Int
    OBVIOUS
  <2>8. g[SomeOf(s)] \in Int /\ low <= g[SomeOf(s)] /\ g[SomeOf(s)] <= high
    BY <2>2
  <2> HIDE DEF r
  <2> QED
    BY <2>4, <2>5, <2>6, <2>7, <2>8
<1>7. Bounded(S)
  <2>1. \A n \in 0..Cardinality(S) : n \in U
    <3> HIDE DEF U
    <3> QED
      BY <1>1, <1>5, <1>6, UpTo
  <2> HIDE DEF Bounded
  <2> QED
    BY <1>1, <2>1
<1> QED
  BY <1>3, <1>7

\* The sum of whole numbers is one.
LEMMA SumInt ==
  ASSUME NEW S, IsFiniteSet(S), NEW g, \A x \in S : g[x] \in Int PROVE Sum(g, S) \in Int
<1> DEFINE V == {g[x] : x \in S}
<1>1. IsFiniteSet(V) /\ V \in SUBSET Int
  BY FiniteImage
<1>2. CASE S = {}
  BY <1>2, SumBetween
<1>3. CASE S # {}
  <2>1. V # {}
    BY <1>3
  <2>2. /\ Min(V) \in Int /\ Max(V) \in Int
        /\ \A v \in V : Min(V) <= v /\ v <= Max(V)
    <3> HIDE DEF V
    <3> QED
      BY <1>1, <2>1, Extremes
  <2> QED
    BY <2>2, SumBetween
<1> QED
  BY <1>2, <1>3
=============================================================================
