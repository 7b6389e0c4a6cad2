----------------------------- MODULE CheckProofs -----------------------------
(***************************************************************************)
(* Proofs about the policy checkers, for any metrics, hosts, policies and  *)
(* shields, and any series the data sources may answer.                    *)
(*                                                                         *)
(* What is said of totals rests on EachPointHasAPart and TotalIsTyped,     *)
(* which hold of any finite set of series, the points of each in order.    *)
(* The inductive invariants add to TypeOK what the values an action works  *)
(* on come from: what has been fetched is such sets (TypeInv), what a      *)
(* checker knows is what it makes of them (Judgement), and so is, but for  *)
(* what is shielded, what a message says once it is written (Reported).    *)
(***************************************************************************)
EXTENDS PolicyCheck, Induction, SequenceTheorems

(* Whole numbers.                                                          *)

\* A quotient, and what its multiples add up to.
LEMMA Quotient ==
  ASSUME NEW d \in Nat, NEW n \in Nat \ {0}
  PROVE  /\ d \div n \in Nat /\ n * (d \div n) <= d
         /\ \A i \in 0..n : i * (d \div n) \in Nat /\ i * (d \div n) <= d
<1> DEFINE q == d \div n
<1>1. q \in Nat /\ n * q <= d
  OBVIOUS
<1> HIDE DEF q
<1>2. ASSUME NEW i \in 0..n PROVE i * q \in Nat /\ i * q <= n * q
  <2>1. i * q \in Nat /\ n * q \in Nat /\ (n - i) * q \in Nat
    BY <1>1
  <2>2. n * q = i * q + (n - i) * q
    BY <1>1
  <2> QED
    BY <2>1, <2>2
<1> QED
  BY <1>1, <1>2 DEF q

\* A remainder is no more than what is divided.
LEMMA Remainder ==
  ASSUME NEW d \in Nat, NEW n \in Nat \ {0} PROVE d % n \in Nat /\ d % n <= d
OBVIOUS

\* Multiples are in order.
LEMMA Multiples ==
  ASSUME NEW q \in Nat, NEW i \in Nat, NEW j \in Nat, i <= j PROVE i * q <= j * q
<1>1. (j - i) * q \in Nat /\ j * q = i * q + (j - i) * q /\ i * q \in Nat
  OBVIOUS
<1> QED
  BY <1>1

\* A mean is between the bounds of what it is the mean of.
LEMMA MeanBetween ==
  ASSUME NEW n \in Nat \ {0}, NEW sum \in Int, NEW low \in Int, NEW high \in Int,
         low * n <= sum, sum <= high * n
  PROVE  sum \div n \in Int /\ low <= sum \div n /\ sum \div n <= high
<1> DEFINE q == sum \div n
<1>1. q \in Int /\ n * q <= sum /\ sum < n * q + n
  OBVIOUS
<1> HIDE DEF q
<1>2. low <= q
  <2> SUFFICES ASSUME q + 1 <= low PROVE FALSE
    BY <1>1
  <2>1. (low - (q + 1)) * n \in Nat /\ low * n = (q + 1) * n + (low - (q + 1)) * n
    BY <1>1
  <2>2. (q + 1) * n = n * q + n /\ n * q \in Int
    BY <1>1
  <2> QED
    BY <1>1, <2>1, <2>2
<1>3. q <= high
  <2> SUFFICES ASSUME high + 1 <= q PROVE FALSE
    BY <1>1
  <2>1. (q - (high + 1)) * n \in Nat /\ q * n = (high + 1) * n + (q - (high + 1)) * n
    BY <1>1
  <2>2. (high + 1) * n = high * n + n /\ q * n = n * q /\ high * n \in Int
    BY <1>1
  <2> QED
    BY <1>1, <2>1, <2>2
<1> QED
  BY <1>1, <1>2, <1>3 DEF q
-----------------------------------------------------------------------------
(* Totals of series.                                                       *)

\* A series: as many times, in order, as values.  Those that are totalled
\* have points.
InOrder(times) == \A j, k \in 1..Len(times) : j <= k => times[j] <= times[k]
IsSeries(s, upto) ==
  /\ s.times \in Seq(1..upto) /\ InOrder(s.times)
  /\ s.values \in Seq(Int \cup {Invalid}) /\ Len(s.values) = Len(s.times)
Gathered(S, upto) ==
  S # {} /\ IsFiniteSet(S) /\ \A s \in S : IsSeries(s, upto) /\ Len(s.times) # 0

\* The span of the series has an end no point lies behind, and is divided
\* into at least one part.
LEMMA Span ==
  ASSUME NEW upto \in Nat, NEW S, Gathered(S, upto)
  PROVE  /\ FirstTime(S) \in 1..upto /\ LastTime(S) \in 1..upto /\ FirstTime(S) <= LastTime(S)
         /\ \A s \in S : \A k \in 1..Len(s.times) : s.times[k] <= LastTime(S)
         /\ PointCount(S) \in Nat \ {0}
<1> DEFINE first == [s \in S |-> s.times[1]]
           last == [s \in S |-> s.times[Len(s.times)]]
           count == [s \in S |-> Len(s.times)]
           F == {s.times[1] : s \in S}
           L == {s.times[Len(s.times)] : s \in S}
           C == {Len(s.times) : s \in S}
<1>1. F = {first[s] : s \in S} /\ L = {last[s] : s \in S} /\ C = {count[s] : s \in S}
  OBVIOUS
<1>2. IsFiniteSet(F) /\ IsFiniteSet(L) /\ IsFiniteSet(C)
  <2> HIDE DEF F, L, C, first, last, count
  <2> QED
    BY <1>1, FiniteImage DEF Gathered
<1>3. \A s \in S : /\ s.times[1] \in 1..upto /\ s.times[Len(s.times)] \in 1..upto
                   /\ s.times[1] <= s.times[Len(s.times)] /\ Len(s.times) \in Nat \ {0}
                   /\ \A k \in 1..Len(s.times) : s.times[k] <= s.times[Len(s.times)]
  <2> SUFFICES ASSUME NEW s \in S
      PROVE /\ s.times[1] \in 1..upto /\ s.times[Len(s.times)] \in 1..upto
            /\ s.times[1] <= s.times[Len(s.times)] /\ Len(s.times) \in Nat \ {0}
            /\ \A k \in 1..Len(s.times) : s.times[k] <= s.times[Len(s.times)]
    OBVIOUS
  <2> DEFINE t == s.times
             m == Len(t)
  <2>1. t \in Seq(1..upto) /\ m \in Nat \ {0} /\ \A j, k \in 1..m : j <= k => t[j] <= t[k]
    BY DEF Gathered, IsSeries, InOrder
  <2>2. 1 \in 1..m /\ m \in 1..m /\ t[1] \in 1..upto /\ t[m] \in 1..upto
    BY <2>1
  <2> HIDE DEF m
  <2>3. t[1] <= t[m] /\ \A k \in 1..m : t[k] <= t[m]
    BY <2>1, <2>2
  <2> QED
    BY <2>1, <2>2, <2>3 DEF m
<1>4. F # {} /\ F \in SUBSET (1..upto) /\ L # {} /\ L \in SUBSET (1..upto)
      /\ C # {} /\ C \in SUBSET (Nat \ {0})
  BY <1>3 DEF Gathered
<1>5. /\ \A s \in S : s.times[1] \in F /\ s.times[Len(s.times)] \in L
      /\ \E s \in S : TRUE
  BY DEF Gathered
<1> HIDE DEF F, L, C
<1>6. Min(F) \in F /\ Max(L) \in L /\ Max(C) \in C
      /\ (\A x \in F : Min(F) <= x) /\ (\A x \in L : Max(L) >= x)
  <2>1. F \in SUBSET Int /\ L \in SUBSET Int /\ C \in SUBSET Int
    BY <1>4
  <2> QED
    BY <1>2, <1>4, <2>1, Extremes
<1>7. FirstTime(S) = Min(F) /\ LastTime(S) = Max(L)
  BY DEF FirstTime, LastTime, F, L
<1>8. FirstTime(S) \in 1..upto /\ LastTime(S) \in 1..upto
  BY <1>4, <1>6, <1>7
<1>9. \A s \in S : \A k \in 1..Len(s.times) : s.times[k] <= LastTime(S)
  <2> SUFFICES ASSUME NEW s \in S, NEW k \in 1..Len(s.times) PROVE s.times[k] <= LastTime(S)
    OBVIOUS
  <2>1. s.times[k] <= s.times[Len(s.times)] /\ s.times[Len(s.times)] <= Max(L)
    BY <1>3, <1>5, <1>6
  <2>2. s.times[k] \in Int /\ s.times[Len(s.times)] \in Int
    BY <1>3 DEF Gathered, IsSeries
  <2> QED
    BY <1>7, <1>8, <2>1, <2>2
<1>10. FirstTime(S) <= LastTime(S)
  <2>1. PICK s \in S : TRUE
    BY <1>5
  <2>2. Min(F) <= s.times[1] /\ s.times[1] <= s.times[Len(s.times)] /\ s.times[Len(s.times)] <= Max(L)
    BY <1>3, <1>5, <1>6
  <2> QED
    BY <1>3, <1>7, <1>8, <2>2
<1>11. PointCount(S) \in Nat \ {0}
  <2> DEFINE seconds == (LastTime(S) - FirstTime(S)) \div Second
  <2>1. seconds \in Nat
    <3>1. LastTime(S) - FirstTime(S) \in Nat
      BY <1>8, <1>10
    <3> QED
      BY <3>1, Quotient, TotalsAssumption DEF TotalsAssumption
  <2> HIDE DEF seconds
  <2>2. Max({1, seconds}) \in Nat \ {0}
    <3>1. IsFiniteSet({1, seconds}) /\ {1, seconds} \in SUBSET Int /\ {1, seconds} # {}
      <4>1. {1, seconds} = {1} \cup {seconds}
        OBVIOUS
      <4>2. IsFiniteSet({1} \cup {seconds})
        BY FS_AddElement, FS_Singleton
      <4> QED
        BY <2>1, <4>1, <4>2
    <3>2. Max({1, seconds}) \in {1, seconds} /\ Max({1, seconds}) >= 1
      BY <3>1, Extremes
    <3> QED
      BY <2>1, <3>2
  <2>3. Max(C) \in Nat \ {0}
    BY <1>4, <1>6
  <2> QED
    BY <2>2, <2>3 DEF PointCount, seconds, C
<1> QED
  BY <1>8, <1>9, <1>10, <1>11

\* The parts end in order, the last where the series end.
LEMMA Samples ==
  ASSUME NEW upto \in Nat, NEW S, Gathered(S, upto)
  PROVE  /\ TimesOf(S) \in Seq(1..upto) /\ Len(TimesOf(S)) = PointCount(S)
         /\ TimesOf(S)[PointCount(S)] = LastTime(S) /\ InOrder(TimesOf(S))
<1> DEFINE from == FirstTime(S)
           to == LastTime(S)
           n == PointCount(S)
           t == TimesOf(S)
           q == (to - from) \div n
<1>1. from \in 1..upto /\ to \in 1..upto /\ from <= to /\ n \in Nat \ {0}
  BY Span
<1>2. t = [i \in 1..n |-> IF i = n THEN to ELSE from + i * q]
  BY DEF TimesOf, SampleTimes
<1> HIDE DEF from, to, n, t
<1>3. q \in Nat /\ \A i \in 0..n : i * q \in Nat /\ i * q <= to - from
  <2>1. to - from \in Nat
    BY <1>1
  <2> QED
    BY <1>1, <2>1, Quotient
<1> HIDE DEF q
<1>4. \A i \in 1..n : t[i] = IF i = n THEN to ELSE from + i * q
  BY <1>2
<1>5. \A i \in 1..n : t[i] \in 1..upto /\ t[i] <= to
  <2> SUFFICES ASSUME NEW i \in 1..n PROVE t[i] \in 1..upto /\ t[i] <= to
    OBVIOUS
  <2>1. i * q \in Nat /\ i * q <= to - from
    BY <1>1, <1>3
  <2> QED
    BY <1>1, <1>4, <2>1
<1>6. t \in Seq(1..upto) /\ Len(t) = n
  <2>1. t \in [1..n -> 1..upto]
    BY <1>2, <1>5
  <2>2. t \in Seq(1..upto)
    BY <1>1, <2>1, IsASeq
  <2> QED
    BY <1>1, <2>1, <2>2
<1>7. ASSUME NEW j \in 1..n, NEW i \in 1..n, j <= i PROVE t[j] <= t[i]
  <2>1. CASE i = n
    BY <1>1, <1>4, <1>5, <2>1
  <2>2. CASE i # n
    <3>1. j # n
      BY <1>1, <1>7, <2>2
    <3>2. i * q \in Nat /\ j * q \in Nat /\ j * q <= i * q
      BY <1>3, <1>7, Multiples
    <3> QED
      BY <1>1, <1>4, <2>2, <3>1, <3>2
  <2> QED
    BY <2>1, <2>2
<1>8. t[n] = to
  BY <1>1, <1>4
<1> QED
  BY <1>6, <1>7, <1>8 DEF InOrder, t, n, to

\* Where the cursor is moved from a: past what is not after the sample.
Passed(times, time, a) == {j \in a..Len(times) : \A k \in (a + 1)..j : times[k] <= time}
\* What the cursor stops at is the first point after the sample.
LEMMA Reached ==
  ASSUME NEW upto \in Nat, NEW times \in Seq(1..upto), NEW time \in 1..upto, NEW a \in 0..Len(times)
  PROVE  /\ Max(Passed(times, time, a)) \in a..Len(times)
         /\ \A k \in (a + 1)..Max(Passed(times, time, a)) : times[k] <= time
         /\ Max(Passed(times, time, a)) < Len(times) => times[Max(Passed(times, time, a)) + 1] > time
<1> DEFINE P == Passed(times, time, a)
           b == Max(P)
<1>0. Len(times) \in Nat /\ a \in Nat /\ a <= Len(times)
  OBVIOUS
<1>1. a \in P
  BY <1>0 DEF Passed
<1>2. P \in SUBSET Int /\ IsFiniteSet(P)
  <2>1. P \in SUBSET (a..Len(times))
    BY DEF Passed
  <2>2. IsFiniteSet(a..Len(times))
    BY <1>0, FS_Interval
  <2> QED
    BY <2>1, <2>2, FS_Subset
<1>3. b \in P /\ \A y \in P : b >= y
  <2> HIDE DEF P
  <2> QED
    BY <1>1, <1>2, Extremes
<1> HIDE DEF b
<1>4. b \in a..Len(times) /\ \A k \in (a + 1)..b : times[k] <= time
  BY <1>3 DEF Passed
<1>5. ASSUME b < Len(times), ~(times[b + 1] > time) PROVE FALSE
  <2>1. b + 1 \in 1..Len(times) /\ times[b + 1] \in 1..upto
    BY <1>0, <1>4, <1>5
  <2>2. times[b + 1] <= time
    BY <1>5, <2>1
  <2>3. \A k \in (a + 1)..(b + 1) : k = b + 1 \/ k \in (a + 1)..b
    BY <1>0, <1>4
  <2>4. \A k \in (a + 1)..(b + 1) : times[k] <= time
    BY <1>4, <2>2, <2>3
  <2>5. b + 1 \in a..Len(times)
    BY <1>0, <1>4, <2>1
  <2>6. b + 1 \in P
    BY <2>4, <2>5 DEF Passed
  <2> QED
    BY <1>3, <1>4, <2>6
<1> QED
  BY <1>4, <1>5 DEF b

\* After a sample the cursor has passed exactly the points not after it.
TakenRule(times, samples, f) ==
  f = [i \in 0..Len(samples) |->
         IF i = 0 THEN 0
         ELSE Max({j \in f[i - 1]..Len(times) :
                     \A k \in (f[i - 1] + 1)..j : times[k] <= samples[i]})]
\* So the cursor counts the points up to the end of each part.
LEMMA Cursor ==
  ASSUME NEW upto \in Nat, NEW times \in Seq(1..upto), InOrder(times),
         NEW samples \in Seq(1..upto), InOrder(samples)
  PROVE  /\ Taken(times, samples)[0] = 0
         /\ \A i \in 0..Len(samples) : Taken(times, samples)[i] \in 0..Len(times)
         /\ \A i \in 1..Len(samples) : \A k \in 1..Len(times) :
              times[k] <= samples[i] <=> k <= Taken(times, samples)[i]
<1> DEFINE m == Len(times)
           n == Len(samples)
           To(i, a) == Max(Passed(times, samples[i], a))
           G == [x \in (1..n) \X (0..m) |-> To(x[1], x[2])]
<1>0. m \in Nat /\ n \in Nat /\ (\A k \in 1..m : times[k] \in 1..upto)
      /\ \A i \in 1..n : samples[i] \in 1..upto
  OBVIOUS
<1>1. ASSUME NEW i \in 1..n, NEW a \in 0..m
      PROVE  /\ To(i, a) \in a..m /\ \A k \in (a + 1)..To(i, a) : times[k] <= samples[i]
             /\ To(i, a) < m => times[To(i, a) + 1] > samples[i]
  BY <1>0, Reached
<1> HIDE DEF m, n, To
<1>2. G \in [(1..n) \X (0..m) -> 0..m] /\ \A i \in 1..n, a \in 0..m : G[<<i, a>>] = To(i, a)
  <2>1. \A i \in 1..n, a \in 0..m : To(i, a) \in 0..m
    BY <1>0, <1>1
  <2> QED
    BY <2>1
<1> HIDE DEF G
<1>3. \E f : TakenRule(times, samples, f)
  <2>1. Stepwise(n, 0..m, 0, G)
    <3>1. 0 \in 0..m
      BY <1>0
    <3> QED
      BY <1>0, <1>2, <3>1, Recursion
  <2>2. PICK f \in [0..n -> 0..m] : f[0] = 0 /\ \A i \in 1..n : f[i] = G[<<i, f[i - 1]>>]
    BY <2>1 DEF Stepwise
  <2>3. ASSUME NEW i \in 0..n PROVE f[i] = IF i = 0 THEN 0 ELSE To(i, f[i - 1])
    <3>1. CASE i = 0
      BY <2>2, <3>1
    <3>2. CASE i \in 1..n
      <4>1. f[i - 1] \in 0..m
        BY <1>0, <3>2
      <4> QED
        BY <1>2, <2>2, <3>2, <4>1
    <3> QED
      BY <1>0, <3>1, <3>2
  <2>4. f = [i \in 0..n |-> f[i]]
    OBVIOUS
  <2>5. f = [i \in 0..n |-> IF i = 0 THEN 0 ELSE To(i, f[i - 1])]
    BY <2>3, <2>4, Zenon
  <2> QED
    BY <2>5, Zenon DEF TakenRule, n, To, Passed
<1> DEFINE f == CHOOSE f : TakenRule(times, samples, f)
<1>4. TakenRule(times, samples, f)
  BY <1>3
<1>5. Taken(times, samples) = f
  BY Zenon DEF Taken, TakenRule
<1> HIDE DEF f
<1>6. \A i \in 0..n : f[i] = IF i = 0 THEN 0 ELSE To(i, f[i - 1])
  BY <1>4, Zenon DEF TakenRule, n, To, Passed
<1> DEFINE Used(i) == f[i] \in 0..m
                      /\ (i = 0 \/ \A k \in 1..m : times[k] <= samples[i] <=> k <= f[i])
           T == {i \in Nat : i <= n => Used(i)}
<1>7. 0 \in T
  BY <1>0, <1>6
<1>8. ASSUME NEW i \in 0..(n - 1), i \in T PROVE i + 1 \in T
  <2> DEFINE a == f[i]
             b == f[i + 1]
  <2>1. i \in Nat /\ i + 1 \in 1..n /\ (i + 1) - 1 = i /\ i + 1 # 0 /\ i + 1 \in 0..n /\ i <= n
    BY <1>0
  <2>2. Used(i)
    BY <1>8, <2>1
  <2>3. a \in 0..m
    BY <2>2
  <2>4. b = To(i + 1, a)
    BY <1>6, <2>1
  <2> DEFINE time == samples[i + 1]
  <2>5. /\ b \in a..m /\ (\A k \in (a + 1)..b : times[k] <= time)
        /\ b < m => times[b + 1] > time
    BY <1>1, <2>1, <2>3, <2>4
  <2>6. b \in 0..m /\ time \in 1..upto
    BY <1>0, <2>1, <2>3, <2>5
  <2>7. ASSUME NEW k \in 1..m PROVE times[k] <= time <=> k <= b
    <3>1. CASE k <= a
      <4>1. i # 0 /\ i \in 1..n
        <5>1. f[0] = 0
          BY <1>0, <1>6
        <5> QED
          BY <2>1, <3>1, <5>1
      <4>2. times[k] <= samples[i]
        BY <2>2, <3>1, <4>1
      <4>3. samples[i] <= time
        BY <1>0, <2>1, <4>1 DEF InOrder, n
      <4> QED
        BY <1>0, <2>3, <2>5, <2>6, <3>1, <4>1, <4>2, <4>3
    <3>2. CASE k \in (a + 1)..b
      BY <2>5, <2>6, <3>2
    <3>3. CASE k > b
      <4>1. b + 1 \in 1..m /\ b + 1 <= k /\ b < m
        BY <1>0, <2>6, <3>3
      <4>2. times[b + 1] <= times[k]
        BY <4>1 DEF InOrder, m
      <4>3. times[b + 1] > time
        BY <2>5, <4>1
      <4>4. times[b + 1] \in Int /\ times[k] \in Int /\ time \in Int /\ k \in Int /\ b \in Int
        BY <1>0, <2>6, <4>1
      <4> HIDE DEF b, time
      <4> QED
        BY <3>3, <4>2, <4>3, <4>4
    <3>4. k <= a \/ k \in (a + 1)..b \/ k > b
      <4>1. k \in Int /\ a \in Int /\ b \in Int
        BY <1>0, <2>3, <2>6
      <4> HIDE DEF a, b
      <4> QED
        BY <4>1
    <3> QED
      BY <3>1, <3>2, <3>3, <3>4
  <2>8. Used(i + 1)
    BY <2>6, <2>7
  <2> HIDE DEF Used
  <2> QED
    BY <2>1, <2>8
<1>9. \A i \in 0..n : i \in T
  <2> HIDE DEF T
  <2> QED
    BY <1>0, <1>7, <1>8, UpTo
<1>10. \A i \in 0..n : Used(i)
  BY <1>0, <1>9
<1>11. f[0] = 0 /\ \A i \in 1..n : i \in 0..n /\ i # 0
  BY <1>0, <1>6
<1> QED
  BY <1>5, <1>10, <1>11 DEF m, n

\* Every point of every series is in the total once, in the first part that
\* does not end before it.
LEMMA EachPointHasAPart ==
  ASSUME NEW upto \in Nat, NEW S, Gathered(S, upto) PROVE EachPointCounts(S)
<1> DEFINE t == TimesOf(S)
           n == PointCount(S)
<1>1. /\ t \in Seq(1..upto) /\ Len(t) = n /\ t[n] = LastTime(S) /\ InOrder(t)
      /\ n \in Nat \ {0} /\ DOMAIN t = 1..n
  BY Samples, Span
<1> HIDE DEF t, n
<1> SUFFICES ASSUME NEW s \in S, NEW k \in DOMAIN s.times
    PROVE \E i \in DOMAIN t : /\ k \in Part(s.times, t, i) /\ s.times[k] <= t[i]
                              /\ \A j \in 1..(i - 1) : t[j] < s.times[k] /\ k \notin Part(s.times, t, j)
  BY DEF EachPointCounts, t
<1> DEFINE u == s.times
           f == Taken(u, t)
           E == {i \in 1..n : u[k] <= t[i]}
           i == Min(E)
<1>2. u \in Seq(1..upto) /\ InOrder(u) /\ k \in 1..Len(u) /\ k \in Nat /\ u[k] \in 1..upto
  BY DEF Gathered, IsSeries
<1>3. /\ f[0] = 0 /\ \A j \in 0..n : f[j] \in 0..Len(u)
      /\ \A j \in 1..n : u[k] <= t[j] <=> k <= f[j]
  BY <1>1, <1>2, Cursor
<1>4. n \in E
  BY <1>1, <1>2, Span
<1>5. i \in 1..n /\ u[k] <= t[i] /\ \A j \in 1..n : u[k] <= t[j] => i <= j
  <2>1. i \in E /\ \A j \in E : i <= j
    <3>1. E \in SUBSET Nat
      OBVIOUS
    <3> HIDE DEF E
    <3> QED
      BY <1>4, <3>1, LeastNumber
  <2> QED
    BY <2>1
<1> HIDE DEF i, f
<1>6. k \in Part(u, t, i)
  <2>1. f[i - 1] + 1 <= k
    <3>1. CASE i = 1
      BY <1>2, <1>3, <3>1
    <3>2. CASE i # 1
      <4>1. i - 1 \in 1..n /\ i - 1 \in 0..n /\ ~(i <= i - 1)
        BY <1>1, <1>5, <3>2
      <4>2. ~(k <= f[i - 1])
        BY <1>3, <1>5, <4>1
      <4> QED
        BY <1>2, <1>3, <4>1, <4>2
    <3> QED
      BY <3>1, <3>2
  <2>2. k <= f[i]
    BY <1>3, <1>5
  <2>3. f[i] \in Int /\ f[i - 1] \in Int
    BY <1>1, <1>3, <1>5
  <2> QED
    BY <1>2, <2>1, <2>2, <2>3 DEF Part, f
<1>7. ASSUME NEW j \in 1..(i - 1) PROVE t[j] < u[k] /\ k \notin Part(u, t, j)
  <2>1. j \in 1..n /\ ~(i <= j)
    BY <1>1, <1>5
  <2>2. ~(u[k] <= t[j]) /\ ~(k <= f[j]) /\ t[j] \in 1..upto
    BY <1>1, <1>3, <1>5, <2>1
  <2>3. f[j] \in Int /\ f[j - 1] \in Int
    BY <1>1, <1>3, <2>1
  <2> QED
    BY <1>2, <2>2, <2>3 DEF Part, f
<1> QED
  BY <1>1, <1>5, <1>6, <1>7

\* The mean of the values there are is a number, if there are any.
LEMMA MeanOfValid ==
  ASSUME NEW values, NEW places, IsFiniteSet(places),
         \A i \in places : values[i] \in Int \cup {Invalid}
  PROVE  IF \E i \in places : values[i] # Invalid THEN Mean(values, Valid(values, places)) \in Int
         ELSE Mean(values, Valid(values, places)) = Invalid
<1> DEFINE V == Valid(values, places)
<1>1. IsFiniteSet(V) /\ \A i \in V : values[i] \in Int
  BY FS_Subset DEF Valid
<1>2. V = {} <=> ~\E i \in places : values[i] # Invalid
  BY DEF Valid
<1> HIDE DEF V
<1>3. V # {} => Mean(values, V) \in Int
  <2> SUFFICES ASSUME V # {} PROVE Mean(values, V) \in Int
    OBVIOUS
  <2>1. Sum(values, V) \in Int
    BY <1>1, SumInt
  <2>2. Cardinality(V) \in Nat \ {0}
    BY <1>1, FS_CardinalityType, FS_EmptySet
  <2>3. Mean(values, V) = Sum(values, V) \div Cardinality(V)
    BY DEF Mean, Sum
  <2>4. Sum(values, V) \div Cardinality(V) \in Int
    BY <2>1, <2>2
  <2> QED
    BY <2>3, <2>4
<1>4. V = {} => Mean(values, V) = Invalid
  BY DEF Mean
<1> QED
  BY <1>2, <1>3, <1>4 DEF V

\* So it is with the values of a series.
LEMMA ValueOfSeries ==
  ASSUME NEW values \in Seq(Int \cup {Invalid})
  PROVE  IF \E k \in DOMAIN values : values[k] # Invalid THEN GetValue(values) \in Int
         ELSE GetValue(values) = Invalid
<1>1. IsFiniteSet(DOMAIN values) /\ \A k \in DOMAIN values : values[k] \in Int \cup {Invalid}
  <2>1. DOMAIN values = 1..Len(values) /\ Len(values) \in Nat
    OBVIOUS
  <2> QED
    BY <2>1, FS_Interval
<1> QED
  BY <1>1, MeanOfValid DEF GetValue

\* The time of a series, or of samples, is within its bounds.
LEMMA TimeOfSeries ==
  ASSUME NEW upto \in Nat, NEW times \in Seq(1..upto), Len(times) # 0
  PROVE  GetTime(times) \in 1..upto
<1> DEFINE n == Len(times)
           sum == Sum(times, 1..n)
<1>1. n \in Nat \ {0} /\ DOMAIN times = 1..n
      /\ \A k \in 1..n : times[k] \in Int /\ 1 <= times[k] /\ times[k] <= upto
  OBVIOUS
<1>2. GetTime(times) = sum \div n
  BY <1>1 DEF GetTime, Sum
<1>3. IsFiniteSet(1..n) /\ Cardinality(1..n) = n
  BY <1>1, Interval
<1> HIDE DEF n
<1>4. sum \in Int /\ 1 * n <= sum /\ sum <= upto * n
  <2> DEFINE low == 1
  <2>1. low \in Int /\ upto \in Int /\ \A k \in 1..n : low <= times[k]
    BY <1>1
  <2> HIDE DEF low
  <2>2. sum \in Int /\ low * Cardinality(1..n) <= sum /\ sum <= upto * Cardinality(1..n)
    BY <1>1, <1>3, <2>1, SumBetween
  <2> QED
    BY <1>3, <2>2 DEF low
<1> HIDE DEF sum
<1>5. sum \div n \in Int /\ 1 <= sum \div n /\ sum \div n <= upto
  BY <1>1, <1>4, MeanBetween
<1> QED
  BY <1>2, <1>5

\* A total has a time, and a value if any of the points in it has.
LEMMA TotalIsTyped ==
  ASSUME NEW upto \in Nat, NEW S, Gathered(S, upto),
         \E s \in S : \E k \in DOMAIN s.values : s.values[k] # Invalid
  PROVE  GetTotalValue(S).time \in 1..upto /\ GetTotalValue(S).value \in Int
<1> DEFINE t == TimesOf(S)
           n == PointCount(S)
           Sampled(i) == [s \in S |-> SampleValues(s, t)[i]]
           There(i) == {s \in S : Sampled(i)[s] # Invalid}
           total == TotalValues(S, t)
<1>1. t \in Seq(1..upto) /\ Len(t) = n /\ n \in Nat \ {0} /\ DOMAIN t = 1..n /\ InOrder(t)
  BY Samples, Span
<1>2. \A i \in 1..n : total[i] = IF There(i) = {} THEN Invalid ELSE Sum(Sampled(i), There(i))
  BY <1>1, Zenon DEF TotalValues, Sum
<1>3. DOMAIN total = 1..n
  BY <1>1 DEF TotalValues
<1> HIDE DEF t, n, total
<1>4. ASSUME NEW s \in S, NEW i \in 1..n
      PROVE  IF \E k \in Part(s.times, t, i) : s.values[k] # Invalid
             THEN Sampled(i)[s] \in Int ELSE Sampled(i)[s] = Invalid
  <2> DEFINE u == s.times
             P == Part(u, t, i)
             f == Taken(u, t)
  <2>1. /\ u \in Seq(1..upto) /\ InOrder(u) /\ Len(u) \in Nat
        /\ \A k \in 1..Len(u) : s.values[k] \in Int \cup {Invalid}
    BY DEF Gathered, IsSeries
  <2>2. \A j \in 0..n : f[j] \in 0..Len(u)
    BY <1>1, <2>1, Cursor
  <2>3. f[i - 1] \in 0..Len(u) /\ f[i] \in 0..Len(u)
    BY <1>1, <2>2
  <2>4. P \in SUBSET (1..Len(u)) /\ IsFiniteSet(P)
    <3> HIDE DEF f, u
    <3>1. P = (f[i - 1] + 1)..f[i]
      BY DEF Part, f
    <3>2. P \in SUBSET (1..Len(u))
      BY <2>1, <2>3, <3>1
    <3>3. IsFiniteSet(1..Len(u))
      BY <2>1, Interval
    <3> QED
      BY <3>2, <3>3, FS_Subset
  <2>5. Sampled(i)[s] = Mean(s.values, Valid(s.values, P))
    BY <1>1 DEF SampleValues
  <2> HIDE DEF P, u, Sampled
  <2>6. \A k \in P : s.values[k] \in Int \cup {Invalid}
    BY <2>1, <2>4
  <2>7. IF \E k \in P : s.values[k] # Invalid THEN Mean(s.values, Valid(s.values, P)) \in Int
        ELSE Mean(s.values, Valid(s.values, P)) = Invalid
    BY <2>4, <2>6, MeanOfValid
  <2> QED
    BY <2>5, <2>7 DEF P, u
<1> HIDE DEF Sampled
<1>5. \A i \in 1..n : IF There(i) # {} THEN total[i] \in Int ELSE total[i] = Invalid
  <2> SUFFICES ASSUME NEW i \in 1..n, There(i) # {} PROVE total[i] \in Int
    BY <1>2
  <2>1. IsFiniteSet(There(i))
    BY FS_Subset DEF Gathered
  <2>2. \A s \in There(i) : Sampled(i)[s] \in Int
    BY <1>4
  <2> HIDE DEF There
  <2>3. Sum(Sampled(i), There(i)) \in Int
    BY <2>1, <2>2, SumInt
  <2> QED
    BY <1>2, <2>3
<1>6. \E i \in 1..n : There(i) # {}
  <2>0. PICK s \in S : \E k \in DOMAIN s.values : s.values[k] # Invalid
    OBVIOUS
  <2>1. PICK k \in DOMAIN s.values : s.values[k] # Invalid
    BY <2>0
  <2>2. k \in DOMAIN s.times
    <3>1. s.times \in Seq(1..upto) /\ s.values \in Seq(Int \cup {Invalid}) /\ Len(s.values) = Len(s.times)
      BY DEF Gathered, IsSeries
    <3> QED
      BY <3>1
  <2>3. PICK i \in DOMAIN t : k \in Part(s.times, t, i)
    BY <2>2, EachPointHasAPart DEF EachPointCounts, t
  <2>4. i \in 1..n /\ Sampled(i)[s] \in Int
    BY <1>1, <1>4, <2>1, <2>3
  <2>5. s \in There(i)
    BY <2>4, TotalsAssumption DEF TotalsAssumption
  <2> QED
    BY <2>4, <2>5
<1> HIDE DEF There
<1>7. GetValue(total) \in Int
  <2>1. IsFiniteSet(1..n)
    BY <1>1, FS_Interval
  <2>2. \E i \in 1..n : total[i] # Invalid
    BY <1>5, <1>6, TotalsAssumption DEF TotalsAssumption
  <2>3. Mean(total, Valid(total, 1..n)) \in Int
    BY <1>5, <2>1, <2>2, MeanOfValid
  <2> QED
    BY <1>3, <2>3 DEF GetValue
<1>8. GetTime(t) \in 1..upto
  BY <1>1, TimeOfSeries
<1> QED
  BY <1>7, <1>8 DEF GetTotalValue, t, total
-----------------------------------------------------------------------------
(* Types.  TypeOK is not inductive: an item has a value because it comes   *)
(* from what was fetched, which TypeOK says nothing about.                 *)

Recorded == [init : BOOLEAN, lastTime : 0..now, lastInterval : 0..(TimeWidth - 1), smoothed : Int, trend : Int]
Judged == [metric : Metrics \cup {Pattern}, host : Addresses, time : 1..now, value : Int]
Checking == [pc : {"none", "retrieved", "judging", "feeding", "judged"},
             abnormal : SUBSET Key, noValid : SUBSET Key, missed : SUBSET (Metrics \cup {Pattern}),
             todo : SUBSET Judged, item : SUBSET Judged]
Said == [at : {0} \cup Start..now, abnormal : SUBSET Key, noValid : SUBSET Key,
         missed : SUBSET (Metrics \cup {Pattern})]
Fetched(root) ==
  IsFiniteSet(root)
  /\ \A s \in root : IsSeries(s, now) /\ s.metric \in policy.metrics /\ s.host \in Hosts
FetchedData(p) == data[p] # <<>> => DOMAIN data[p] = Ranges /\ \A i \in Ranges : Fetched(data[p][i])

TypeInv ==
  /\ now \in Start..Max({Start, MaxTime}) /\ policy \in Policies
  /\ served \in {"old", "cleared", "factors", "replaced", "new"}
  /\ DOMAIN data = Packages /\ \A p \in Packages : FetchedData(p)
  /\ check \in [Packages -> Checking]
  /\ \A p \in Packages : (check[p].item # {}) = At(p, "feeding")
  /\ report \in [Packages -> Said]
  /\ DOMAIN trend \subseteq Key /\ trend \in [DOMAIN trend -> Recorded]

\* Of the constants.
LEMMA Assumed ==
  /\ StringToIP \in [Hosts -> Nat] /\ Pattern \notin Metrics /\ Specs \subseteq Nat
  /\ Start \in Nat \ {0} /\ MaxTime \in Nat /\ Expire[ExpireOf] \in Nat
  /\ TimeWidth \in Nat /\ TimeWidth > 0 /\ MaxTime < TimeWidth
  /\ SmoothingFactor[FactorsOf] \in Int /\ TrendFactor[FactorsOf] \in Int
  /\ Second \in Nat \ {0} /\ Invalid \notin Int
<1>1. /\ StringToIP \in [Hosts -> Nat] /\ Pattern \notin Metrics /\ Specs \subseteq Nat
      /\ SmoothingFactor \in [Packages -> {0, 1}] /\ TrendFactor \in [Packages -> {0, 1}]
      /\ Expire \in [Packages -> Nat] /\ Start \in Nat \ {0} /\ MaxTime \in Nat
      /\ TimeWidth \in Nat /\ MaxTime < TimeWidth
  BY CheckAssumption, Zenon DEF CheckAssumption
<1>2. Second \in Nat \ {0} /\ Invalid \notin Int
  BY TotalsAssumption, Zenon DEF TotalsAssumption
<1>3. FactorsOf \in Packages /\ ExpireOf \in Packages
  BY DEF FactorsOf, ExpireOf, Packages
<1> QED
  BY <1>1, <1>2, <1>3

\* The bound of time lies behind the start.
LEMMA End == Max({Start, MaxTime}) \in Nat /\ Max({Start, MaxTime}) >= Start /\ Max({Start, MaxTime}) >= MaxTime
<1>1. IsFiniteSet({Start} \cup {MaxTime}) /\ {Start, MaxTime} = {Start} \cup {MaxTime}
  BY FS_AddElement, FS_Singleton
<1>2. {Start, MaxTime} \in SUBSET Int /\ {Start, MaxTime} # {}
  BY Assumed
<1> DEFINE m == Max({Start, MaxTime})
<1>3. m \in {Start, MaxTime} /\ \A y \in {Start, MaxTime} : m >= y
  BY <1>1, <1>2, Extremes
<1> HIDE DEF m
<1>4. m \in Nat /\ m >= Start /\ m >= MaxTime
  BY <1>3, Assumed
<1> QED
  BY <1>4 DEF m

\* A later time makes a series no worse.
LEMMA SeriesStays ==
  ASSUME NEW s, NEW a \in Nat, NEW b \in Nat, a <= b, IsSeries(s, a) PROVE IsSeries(s, b)
<1>1. s.times \in [1..Len(s.times) -> 1..b] /\ Len(s.times) \in Nat
  BY DEF IsSeries
<1>2. s.times \in Seq(1..b)
  BY <1>1, IsASeq
<1> QED
  BY <1>2 DEF IsSeries

\* A series a data source has answered is one when it is stamped.
LEMMA StampedSeries ==
  ASSUME now \in Nat, now >= Start, NEW q \in Policies, NEW s, Answered(q, s)
  PROVE  /\ IsSeries(Stamped(s), now)
         /\ Stamped(s).metric \in q.metrics /\ Stamped(s).host \in Hosts
<1> DEFINE n == Len(s.ago)
           t == [k \in 1..n |-> now - s.ago[k]]
<1>1. /\ s.ago \in Seq(0..(Start - 1)) /\ n \in Nat /\ DOMAIN s.ago = 1..n
      /\ s.values \in Seq(Int \cup {Invalid}) /\ Len(s.values) = n
      /\ \A k \in 1..n : s.ago[k] \in 0..(Start - 1)
      /\ \A j, k \in 1..n : j < k => s.ago[j] >= s.ago[k]
  <2>1. /\ s.ago \in Seq(0..(Start - 1)) /\ s.values \in Seq(Int \cup {Invalid})
        /\ Len(s.ago) = Len(s.values)
        /\ \A j, k \in DOMAIN s.ago : j < k => s.ago[j] >= s.ago[k]
    BY Zenon DEF Answered
  <2> DEFINE a == s.ago
             R == 0..(Start - 1)
  <2>2. a \in Seq(R)
    BY <2>1
  <2> HIDE DEF R
  <2>3. Len(a) \in Nat /\ DOMAIN a = 1..Len(a) /\ \A k \in 1..Len(a) : a[k] \in R
    BY <2>2
  <2> QED
    BY <2>1, <2>3 DEF R
<1>2. Stamped(s) = [metric |-> s.metric, host |-> s.host, values |-> s.values, times |-> t]
  BY <1>1 DEF Stamped
<1> HIDE DEF n
<1>3. \A k \in 1..n : t[k] \in 1..now
  BY <1>1, Assumed
<1>4. t \in Seq(1..now) /\ Len(t) = n
  <2>1. t \in [1..n -> 1..now]
    BY <1>3
  <2> HIDE DEF t
  <2>2. t \in Seq(1..now)
    BY <1>1, <2>1, IsASeq
  <2> QED
    BY <1>1, <2>1, <2>2
<1>5. \A j, k \in 1..n : j <= k => t[j] <= t[k]
  <2> SUFFICES ASSUME NEW j \in 1..n, NEW k \in 1..n, j <= k PROVE t[j] <= t[k]
    OBVIOUS
  <2>1. s.ago[j] >= s.ago[k]
    BY <1>1
  <2>2. t[j] = now - s.ago[j] /\ t[k] = now - s.ago[k]
    OBVIOUS
  <2> QED
    BY <1>1, <2>1, <2>2
<1> HIDE DEF t
<1>6. IsSeries(Stamped(s), now)
  BY <1>1, <1>2, <1>4, <1>5 DEF IsSeries, InOrder
<1>7. Stamped(s).metric \in q.metrics /\ Stamped(s).host \in Hosts
  BY <1>2 DEF Answered
<1> QED
  BY <1>6, <1>7

\* So is all of an answer, or the part of it a data source has.
LEMMA FetchedAnswer ==
  ASSUME now \in Nat, now >= Start, policy \in Policies, NEW answer \in policy.answers, NEW spec
  PROVE  Fetched(From(spec, answer))
<1> DEFINE A == {t \in answer : spec \in SpecsOf[t.metric]}
           g == [t \in A |-> Stamped(t)]
<1>1. IsFiniteSet(answer) /\ \A s \in answer : Answered(policy, s)
  BY CheckAssumption DEF CheckAssumption
<1>2. IsFiniteSet(A)
  BY <1>1, FS_Subset
<1>3. From(spec, answer) = {g[t] : t \in A}
  BY DEF From
<1>4. IsFiniteSet({g[t] : t \in A})
  <2> HIDE DEF A, g
  <2> QED
    BY <1>2, FiniteImage
<1>5. \A s \in From(spec, answer) : \E t \in answer : s = Stamped(t)
  BY DEF From
<1> QED
  BY <1>1, <1>3, <1>4, <1>5, StampedSeries DEF Fetched

\* Of the policy.
LEMMA OfPolicy ==
  ASSUME policy \in Policies
  PROVE  /\ policy.metrics \subseteq Metrics
         /\ policy.kind \in {"threshold", "trend", "cycle", "singularity", "availability"}
         /\ policy.type \in {"single", "host total", "metric total"}
         /\ policy.kind = "cycle" => policy.cycles > 0
         /\ policy.cycles \in Nat /\ policy.up \in Int /\ policy.down \in Int
BY CheckAssumption, Zenon DEF CheckAssumption

\* Of the series that have a value one is kept for each metric and
\* address.
LEMMA AddedSeries ==
  ASSUME NEW root, Fetched(root)
  PROVE  /\ Added(root) \subseteq Usable(root) /\ Usable(root) \subseteq root
         /\ IsFiniteSet(Added(root))
         /\ \A s, t \in Added(root) : Addressed(s) = Addressed(t) => s = t
         /\ \A s \in Usable(root) : FirstOf(root, Addressed(s)) \in Added(root)
                                    /\ Addressed(FirstOf(root, Addressed(s))) = Addressed(s)
<1>1. Usable(root) \subseteq root
  BY DEF Usable, Unfiltered
<1>2. ASSUME NEW s \in Usable(root)
      PROVE  FirstOf(root, Addressed(s)) \in Usable(root) /\ Addressed(FirstOf(root, Addressed(s))) = Addressed(s)
  BY Zenon DEF FirstOf
<1>3. Added(root) \subseteq Usable(root)
  BY <1>2 DEF Added
<1>4. ASSUME NEW s \in Added(root), NEW t \in Added(root), Addressed(s) = Addressed(t) PROVE s = t
  <2>1. PICK u \in Usable(root), v \in Usable(root) :
          s = FirstOf(root, Addressed(u)) /\ t = FirstOf(root, Addressed(v))
    BY DEF Added
  <2>2. Addressed(u) = Addressed(v)
    BY <1>2, <1>4, <2>1
  <2> QED
    BY <2>1, <2>2
<1>5. IsFiniteSet(Added(root))
  BY <1>1, <1>3, FS_Subset DEF Fetched
<1> QED
  BY <1>1, <1>2, <1>3, <1>4, <1>5 DEF Added

\* They have values.
LEMMA UsableSeries ==
  ASSUME NEW root, Fetched(root), NEW s \in root
  PROVE  /\ (\E k \in DOMAIN s.values : s.values[k] # Invalid) => GetValue(s.values) \in Int
         /\ (\A k \in DOMAIN s.values : s.values[k] = Invalid) => GetValue(s.values) = Invalid
         /\ s \in Usable(root) => GetValue(s.values) \in Int
                                  /\ \E k \in DOMAIN s.values : s.values[k] # Invalid
                                  /\ Len(s.times) # 0
<1>1. s.values \in Seq(Int \cup {Invalid})
  BY DEF Fetched, IsSeries
<1>2. IF \E k \in DOMAIN s.values : s.values[k] # Invalid THEN GetValue(s.values) \in Int
      ELSE GetValue(s.values) = Invalid
  BY <1>1, ValueOfSeries
<1>3. (\E k \in DOMAIN s.values : TRUE) => Len(s.times) # 0
  <2>1. Len(s.values) = Len(s.times)
    BY DEF Fetched, IsSeries
  <2> QED
    BY <1>1, <2>1
<1> QED
  BY <1>2, <1>3 DEF Usable

\* Whatever part of them is totalled, the total has a time and a value.
LEMMA TotalTyped ==
  ASSUME now \in Nat, NEW root, Fetched(root), NEW S \in SUBSET Added(root), S # {}
  PROVE  /\ Gathered(S, now)
         /\ GetTotalValue(S).time \in 1..now /\ GetTotalValue(S).value \in Int
<1>1. S \subseteq root /\ IsFiniteSet(S)
  BY AddedSeries, FS_Subset
<1>2. Gathered(S, now)
  <2>1. \A s \in S : s \in root /\ s \in Usable(root)
    BY <1>1, AddedSeries
  <2> QED
    BY <1>1, <2>1, UsableSeries DEF Gathered, Fetched
<1>3. \E s \in S : \E k \in DOMAIN s.values : s.values[k] # Invalid
  <2>1. PICK s \in S : s \in Usable(root)
    BY AddedSeries
  <2> QED
    BY <1>1, <2>1, UsableSeries
<1> QED
  BY <1>2, <1>3, TotalIsTyped

\* What is judged has a time and a value, and no two items are of the same
\* metric and host.
Distinct(items) == \A x, y \in items : KeyOf(x) = KeyOf(y) => x = y
\* The items of every type of policy.
LEMMA ItemsTyped ==
  ASSUME now \in Nat, policy \in Policies, NEW root, Fetched(root)
  PROVE  Items(root) \subseteq Judged /\ Distinct(Items(root))
<1>1. CASE policy.type = "single"
  <2>1. Items(root) = {Single(s) : s \in Added(root)}
    BY <1>1 DEF Items
  <2>2. ASSUME NEW s \in Added(root) PROVE Single(s) \in Judged /\ KeyOf(Single(s)) = Addressed(s)
    <3>1. s \in root /\ s \in Usable(root)
      BY AddedSeries
    <3>2. GetValue(s.values) \in Int
      BY <3>1, UsableSeries
    <3>3. GetTime(s.times) \in 1..now
      <4>1. s.times \in Seq(1..now) /\ Len(s.times) # 0
        BY <3>1, UsableSeries DEF Fetched, IsSeries
      <4> QED
        BY <4>1, TimeOfSeries
    <3>4. s.metric \in Metrics /\ s.host \in Hosts
      BY <3>1, OfPolicy DEF Fetched
    <3> QED
      BY <3>2, <3>3, <3>4 DEF Single, Judged, KeyOf, Addressed, Addresses
  <2>3. ASSUME NEW s \in Added(root), NEW t \in Added(root), KeyOf(Single(s)) = KeyOf(Single(t))
        PROVE  s = t
    BY <2>2, <2>3, AddedSeries
  <2> QED
    BY <2>1, <2>2, <2>3 DEF Distinct
<1>2. CASE policy.type = "host total"
  <2> DEFINE M == {n \in policy.metrics : OfMetric(root, n) # {}}
  <2>1. ASSUME NEW x \in Items(root) PROVE \E m \in M : x = Total(m, OfMetric(root, m))
    <3>1. Totalled(root) = {<<m, OfMetric(root, m)>> : m \in M}
      BY <1>2 DEF Totalled
    <3>2. PICK t \in Totalled(root) : x = Total(t[1], t[2])
      BY <1>2 DEF Items
    <3>3. PICK m \in M : t = <<m, OfMetric(root, m)>>
      BY <3>1
    <3>4. t[1] = m /\ t[2] = OfMetric(root, m)
      BY <3>3
    <3> QED
      BY <3>2, <3>4
  <2>2. ASSUME NEW m \in M
        PROVE  Total(m, OfMetric(root, m)) \in Judged /\ KeyOf(Total(m, OfMetric(root, m))) = <<m, 0>>
    <3>1. OfMetric(root, m) \in SUBSET Added(root) /\ OfMetric(root, m) # {} /\ m \in Metrics
      BY OfPolicy DEF OfMetric
    <3>2. /\ GetTotalValue(OfMetric(root, m)).time \in 1..now
          /\ GetTotalValue(OfMetric(root, m)).value \in Int
      BY <3>1, TotalTyped
    <3> QED
      BY <3>1, <3>2 DEF Total, Judged, KeyOf, Addresses
  <2> HIDE DEF M
  <2>3. Items(root) \subseteq Judged
    BY <2>1, <2>2
  <2>4. ASSUME NEW x \in Items(root), NEW y \in Items(root), KeyOf(x) = KeyOf(y) PROVE x = y
    <3>1. PICK m \in M, n \in M : x = Total(m, OfMetric(root, m)) /\ y = Total(n, OfMetric(root, n))
      BY <2>1
    <3>2. m = n
      BY <2>2, <2>4, <3>1
    <3> QED
      BY <3>1, <3>2
  <2> QED
    BY <2>3, <2>4 DEF Distinct
<1>3. CASE policy.type = "metric total"
  <2>1. ASSUME NEW x \in Items(root) PROVE Added(root) # {} /\ x = Total(Pattern, Added(root))
    <3>1. Totalled(root) = IF Added(root) = {} THEN {} ELSE {<<Pattern, Added(root)>>}
      BY <1>3 DEF Totalled
    <3>2. PICK t \in Totalled(root) : x = Total(t[1], t[2])
      BY <1>3 DEF Items
    <3>3. Added(root) # {} /\ t = <<Pattern, Added(root)>>
      BY <3>1
    <3>4. t[1] = Pattern /\ t[2] = Added(root)
      BY <3>3
    <3> QED
      BY <3>2, <3>3, <3>4
  <2>2. Added(root) # {} => Total(Pattern, Added(root)) \in Judged
    <3> SUFFICES ASSUME Added(root) # {} PROVE Total(Pattern, Added(root)) \in Judged
      OBVIOUS
    <3>1. GetTotalValue(Added(root)).time \in 1..now /\ GetTotalValue(Added(root)).value \in Int
      BY TotalTyped
    <3> QED
      BY <3>1 DEF Total, Judged, Addresses
  <2> QED
    BY <2>1, <2>2 DEF Distinct
<1> QED
  BY <1>1, <1>2, <1>3, OfPolicy

\* What is found wrong has a metric and an address.
LEMMA KeysOfItems ==
  ASSUME NEW S \in SUBSET Judged PROVE {KeyOf(x) : x \in S} \subseteq Key
BY DEF Judged, KeyOf, Key

\* What is found wrong, without data or missing is the policy's own.
LEMMA FoundTyped ==
  ASSUME now \in Nat, policy \in Policies, NEW roots, Fetched(roots[1])
  PROVE  /\ Abnormal(roots) \subseteq Key /\ NoValidData(roots[1]) \subseteq Key
         /\ Missed(roots[1]) \subseteq Metrics \cup {Pattern}
<1>1. Items(roots[1]) \subseteq Judged
  BY ItemsTyped
<1>2. Abnormal(roots) \subseteq Key
  <2> DEFINE items == Items(roots[1])
             Keys(wrong) == {KeyOf(x) : x \in wrong}
             T == {x \in items : BeyondBounds(x)}
             C == {x \in items : CycleDiffers(roots, x)}
             S == {x \in items : FarFromAverage(items, x)}
  <2>1. Keys(T) \subseteq Key /\ Keys(C) \subseteq Key /\ Keys(S) \subseteq Key
    <3>1. T \in SUBSET Judged /\ C \in SUBSET Judged /\ S \in SUBSET Judged
      BY <1>1
    <3> HIDE DEF T, C, S
    <3> QED
      BY <3>1, KeysOfItems
  <2>2. <<Pattern, 0>> \in Key
    BY DEF Key, Addresses
  <2>3. \/ Abnormal(roots) = Keys(T) \/ Abnormal(roots) = Keys(C) \/ Abnormal(roots) = Keys(S)
        \/ Abnormal(roots) = {<<Pattern, 0>>} \/ Abnormal(roots) = {}
    BY OfPolicy DEF Abnormal
  <2> HIDE DEF Keys, T, C, S
  <2> QED
    BY <2>1, <2>2, <2>3
<1>3. NoValidData(roots[1]) \subseteq Key
  <2>1. \A s \in roots[1] : s.metric \in Metrics /\ s.host \in Hosts
    BY OfPolicy DEF Fetched
  <2> QED
    <3>1. \A s \in roots[1] : Addressed(s) \in Key
      BY <2>1 DEF Addressed, Key, Addresses
    <3> QED
      BY <3>1 DEF NoValidData, Unfiltered
<1>4. Missed(roots[1]) \subseteq Metrics \cup {Pattern}
  BY OfPolicy DEF Missed
<1> QED
  BY <1>2, <1>3, <1>4

\* Types that depend on the time alone, while it stands still.
Still == now' = now /\ policy' = policy
\* The types are the same after a step that takes no time.
LEMMA StillTypes ==
  ASSUME Still
  PROVE  /\ Checking' = Checking /\ Said' = Said /\ Recorded' = Recorded /\ Judged' = Judged
         /\ Ranges' = Ranges /\ \A root : Fetched(root)' = Fetched(root)
BY DEF Still, Checking, Said, Recorded, Judged, Fetched, Ranges

\* There is always a present.
LEMMA Now == ASSUME TypeInv PROVE now \in Nat \ {0} /\ now >= Start
BY End, Assumed DEF TypeInv

\* The first state has its types.
LEMMA TypeInit == Init => TypeInv
<1> SUFFICES ASSUME Init PROVE TypeInv
  OBVIOUS
<1>1. now \in Start..Max({Start, MaxTime}) /\ policy \in Policies /\ served = "old"
  BY Assumed, End DEF Init
<1>2. DOMAIN data = Packages /\ \A p \in Packages : data[p] = <<>>
  BY DEF Init
<1>3. NoCheck \in Checking /\ NoCheck.item = {} /\ NoCheck.pc = "none"
  BY DEF NoCheck, Checking
<1>4. check \in [Packages -> Checking] /\ \A p \in Packages : check[p] = NoCheck
  BY <1>3 DEF Init
<1>5. Silent \in Said
  BY DEF Silent, Said
<1>6. report \in [Packages -> Said]
  BY <1>5 DEF Init
<1>7. DOMAIN trend \subseteq Key /\ trend \in [DOMAIN trend -> Recorded]
  BY DEF Init
<1> QED
  BY <1>1, <1>2, <1>3, <1>4, <1>6, <1>7 DEF TypeInv, FetchedData, At

\* The steps that change nothing but how far a reload is.
Onward == SetFactors \/ SetAutoExpireTimeUs \/ NextRound
\* They change no type.
LEMMA TypeOnward == ASSUME TypeInv, Onward PROVE TypeInv'
<1>1. Still /\ UNCHANGED <<data, check, trend, report>> /\ served' \in {"factors", "replaced", "new"}
  BY DEF Onward, SetFactors, SetAutoExpireTimeUs, NextRound, Still
<1> QED
  BY <1>1, StillTypes DEF TypeInv, FetchedData, At, Still

\* A package that takes the history over drops part of it.
LEMMA TypeTakeOver == ASSUME TypeInv, TakeOver PROVE TypeInv'
<1>1. Still /\ UNCHANGED <<data, check, report>> /\ served' = "cleared"
  BY DEF TakeOver, Still
<1>2. DOMAIN trend' \subseteq Key /\ trend' \in [DOMAIN trend' -> Recorded]
  BY DEF TakeOver, TypeInv, ClearExpiredData
<1> QED
  BY <1>1, <1>2, StillTypes DEF TypeInv, FetchedData, At, Still

\* What is fetched is what was answered, stamped.
LEMMA TypeRetrieve == ASSUME TypeInv, NEW p \in Packages, Retrieve(p) PROVE TypeInv'
<1>1. /\ Still /\ UNCHANGED <<trend, report, served>> /\ At(p, "none")
      /\ check' = [check EXCEPT ![p].pc = "retrieved"]
  BY DEF Retrieve, Still
<1>2. /\ check' \in [Packages -> Checking]
      /\ \A q \in Packages : (check'[q].item # {}) = (check'[q].pc = "feeding")
  <2>1. check \in [Packages -> Checking] /\ \A q \in Packages : (check[q].item # {}) = (check[q].pc = "feeding")
    BY DEF TypeInv, At
  <2> DEFINE c == [check[p] EXCEPT !.pc = "retrieved"]
  <2>2. c \in Checking /\ c.pc = "retrieved" /\ c.item = check[p].item
    BY <2>1 DEF Checking
  <2>3. check' = [check EXCEPT ![p] = c]
    BY <1>1
  <2>4. check[p].item = {}
    BY <1>1, <2>1 DEF At
  <2> HIDE DEF c
  <2> QED
    BY <2>1, <2>2, <2>3, <2>4
<1>3. DOMAIN data' = Packages /\ \A q \in Packages : FetchedData(q)'
  <2>0. DOMAIN data = Packages /\ \A q \in Packages : FetchedData(q)
    BY DEF TypeInv
  <2>1. CASE data' = data
    BY <1>1, <2>0, <2>1, StillTypes DEF FetchedData
  <2>2. CASE data' # data
    <3>1. PICK answers \in [Ranges -> policy.answers] :
            data' = [data EXCEPT ![p] = [i \in Ranges |-> From(Max(PolicySpecs), answers[i])]]
      BY <2>2 DEF Retrieve
    <3> DEFINE d == [i \in Ranges |-> From(Max(PolicySpecs), answers[i])]
    <3>2. \A i \in Ranges : Fetched(d[i])
      <4>1. now \in Nat /\ now >= Start /\ policy \in Policies
        BY Now, Assumed DEF TypeInv
      <4> QED
        BY <4>1, FetchedAnswer
    <3>3. DOMAIN d = Ranges
      OBVIOUS
    <3> HIDE DEF d
    <3>4. data'[p] = d /\ \A q \in Packages : q # p => data'[q] = data[q]
      BY <2>0, <3>1 DEF d
    <3>5. DOMAIN data' = Packages
      BY <2>0, <3>1
    <3>6. ASSUME NEW q \in Packages PROVE FetchedData(q)'
      BY <1>1, <2>0, <3>2, <3>3, <3>4, StillTypes DEF FetchedData
    <3> QED
      BY <3>5, <3>6
  <2> QED
    BY <2>1, <2>2
<1> QED
  BY <1>1, <1>2, <1>3, StillTypes DEF TypeInv, At, Still

\* How a checker changes.
CheckChanges(p, c) ==
  check' = [check EXCEPT ![p] = c] /\ c \in Checking /\ (c.item # {}) = (c.pc = "feeding")
\* A checker that changes so has its type, and the others too.
LEMMA TypeChecker ==
  ASSUME TypeInv, Still, NEW p \in Packages, NEW c, CheckChanges(p, c)
  PROVE  /\ check' \in [Packages -> Checking']
         /\ \A q \in Packages : (check[q].item # {})' = At(q, "feeding")'
         /\ check'[p] = c /\ \A q \in Packages : q # p => check'[q] = check[q]
<1>1. check \in [Packages -> Checking] /\ \A q \in Packages : (check[q].item # {}) = (check[q].pc = "feeding")
  BY DEF TypeInv, At
<1> QED
  BY <1>1, StillTypes DEF CheckChanges, At

\* Nothing to check.
LEMMA NoCheckTyped == NoCheck \in Checking /\ NoCheck.item = {} /\ NoCheck.pc = "none"
BY DEF NoCheck, Checking

\* A report that is written has its type.
LEMMA TypeReport ==
  ASSUME TypeInv, Still, NEW p \in Packages, NEW r \in Said, report' = [report EXCEPT ![p] = r]
  PROVE  report' \in [Packages -> Said']
<1>1. report \in [Packages -> Said]
  BY DEF TypeInv
<1> QED
  BY <1>1, StillTypes

\* A check without a data source leaves the types.
LEMMA TypeNothing == ASSUME TypeInv, NEW p \in Packages, CheckNothing(p) PROVE TypeInv'
<1> DEFINE r == [Silent EXCEPT !.at = now]
<1>1. /\ Still /\ UNCHANGED <<data, trend, served>> /\ check' = [check EXCEPT ![p] = NoCheck]
      /\ report' = [report EXCEPT ![p] = r]
  BY DEF CheckNothing, Still
<1>2. CheckChanges(p, NoCheck)
  BY <1>1, NoCheckTyped DEF CheckChanges
<1>3. r \in Said
  <2>1. now \in Start..now
    BY Now, Assumed
  <2> QED
    BY <2>1 DEF Said, Silent
<1>4. report' \in [Packages -> Said']
  BY <1>1, <1>3, TypeReport
<1> QED
  BY <1>1, <1>2, <1>4, TypeChecker, StillTypes DEF TypeInv, FetchedData, Still

\* What a checker makes of what was fetched.
NoValidOf(p) == IF policy.type = "single" THEN NoValidData(data[p][1]) ELSE {}
ToJudge(p) == IF policy.kind = "trend" THEN Items(data[p][1]) ELSE {}
Verdict(p) ==
  [pc |-> IF ToJudge(p) = {} THEN "judged" ELSE "judging", abnormal |-> Abnormal(data[p]),
   noValid |-> NoValidOf(p), missed |-> Missed(data[p][1]), todo |-> ToJudge(p), item |-> {}]
\* The verdict has its type.
LEMMA CheckGives ==
  ASSUME TypeInv, NEW p \in Packages, Check(p)
  PROVE  /\ Still /\ UNCHANGED <<data, trend, report, served>> /\ data[p] # <<>>
         /\ CheckChanges(p, Verdict(p)) /\ Fetched(data[p][1]) /\ Items(data[p][1]) \subseteq Judged
<1>1. /\ Still /\ UNCHANGED <<data, trend, report, served>> /\ data[p] # <<>>
      /\ check' = [check EXCEPT ![p] = Verdict(p)]
  BY DEF Check, CheckWith, Still, Verdict, NoValidOf, ToJudge
<1>2. Fetched(data[p][1])
  <2>0. policy \in Policies
    BY DEF TypeInv
  <2>1. policy.cycles \in Nat
    BY <2>0, OfPolicy
  <2>2. 1 \in Ranges
    BY <2>1 DEF Ranges
  <2> QED
    BY <1>1, <2>2 DEF TypeInv, FetchedData
<1>3. now \in Nat /\ policy \in Policies
  BY Now DEF TypeInv
<1>4. Items(data[p][1]) \subseteq Judged
  BY <1>2, <1>3, ItemsTyped
<1>5. /\ Abnormal(data[p]) \subseteq Key /\ NoValidOf(p) \subseteq Key
      /\ Missed(data[p][1]) \subseteq Metrics \cup {Pattern}
  BY <1>2, <1>3, FoundTyped DEF NoValidOf
<1>6. Verdict(p) \in Checking /\ Verdict(p).item = {} /\ Verdict(p).pc # "feeding"
  <2>1. ToJudge(p) \subseteq Judged
    BY <1>4 DEF ToJudge
  <2> QED
    BY <1>5, <2>1 DEF Verdict, Checking
<1> QED
  BY <1>1, <1>2, <1>4, <1>6 DEF CheckChanges

\* A check leaves the types.
LEMMA TypeCheck == ASSUME TypeInv, NEW p \in Packages, Check(p) PROVE TypeInv'
<1>1. Still /\ UNCHANGED <<data, trend, report, served>> /\ CheckChanges(p, Verdict(p))
  BY CheckGives
<1> QED
  BY <1>1, TypeChecker, StillTypes DEF TypeInv, FetchedData, Still

\* Records of the history.
LEMMA MetaTyped ==
  ASSUME TypeInv, NEW k PROVE Meta(k) \in Recorded
<1>1. NoMeta \in Recorded
  BY Now, Assumed DEF NoMeta, Recorded
<1> QED
  BY <1>1 DEF Meta, TypeInv

\* A record that is written has its type, and the others too.
LEMMA TypeTrend ==
  ASSUME TypeInv, Still, NEW k \in Key, NEW m \in Recorded, trend' = WithMeta(k, m)
  PROVE  DOMAIN trend' \subseteq Key /\ trend' \in [DOMAIN trend' -> Recorded']
<1>1. DOMAIN trend \subseteq Key /\ trend \in [DOMAIN trend -> Recorded]
  BY DEF TypeInv
<1> QED
  BY <1>1, StillTypes DEF WithMeta

\* A forecast leaves the types.
LEMMA TypeForecast ==
  ASSUME TypeInv, NEW p \in Packages, NEW x \in check[p].todo, Forecast(p, x) PROVE TypeInv'
<1>1. /\ Still /\ UNCHANGED <<data, report, served>> /\ trend' \in {trend, WithMeta(KeyOf(x), NoMeta)}
      /\ At(p, "judging")
  BY DEF Forecast, ForecastWith, Still
<1>2. check \in [Packages -> Checking] /\ check[p] \in Checking
  BY DEF TypeInv
<1>3. x \in Judged /\ KeyOf(x) \in Key
  BY <1>2 DEF Checking, Judged, KeyOf, Key
<1>4. \E a \in {check[p].abnormal, check[p].abnormal \cup {KeyOf(x)}} :
        CheckChanges(p, [check[p] EXCEPT !.pc = "feeding", !.todo = @ \ {x}, !.item = {x}, !.abnormal = a])
  <2>1. PICK a \in {check[p].abnormal, check[p].abnormal \cup {KeyOf(x)}} :
          check' = [check EXCEPT ![p] =
            [check[p] EXCEPT !.pc = "feeding", !.todo = @ \ {x}, !.item = {x}, !.abnormal = a]]
    BY <1>2 DEF Forecast, ForecastWith
  <2> DEFINE d == [check[p] EXCEPT !.pc = "feeding", !.todo = @ \ {x}, !.item = {x}, !.abnormal = a]
  <2>2. d \in Checking /\ d.item = {x} /\ d.pc = "feeding"
    BY <1>2, <1>3 DEF Checking
  <2> HIDE DEF d
  <2>3. CheckChanges(p, d)
    BY <2>1, <2>2 DEF CheckChanges, d
  <2> QED
    BY <2>3 DEF d
<1>5. NoMeta \in Recorded
  BY Now, Assumed DEF NoMeta, Recorded
<1>6. DOMAIN trend' \subseteq Key /\ trend' \in [DOMAIN trend' -> Recorded']
  <2>1. CASE trend' = trend
    BY <1>1, <2>1, StillTypes DEF TypeInv
  <2>2. CASE trend' = WithMeta(KeyOf(x), NoMeta)
    BY <1>1, <1>3, <1>5, <2>2, TypeTrend
  <2> QED
    BY <1>1, <2>1, <2>2
<1>7. /\ check' \in [Packages -> Checking']
      /\ \A q \in Packages : (check[q].item # {})' = At(q, "feeding")'
  BY <1>1, <1>4, TypeChecker
<1> QED
  BY <1>1, <1>6, <1>7, StillTypes DEF TypeInv, FetchedData, Still

\* What is fed into the history.
LEMMA TypeFeed ==
  ASSUME TypeInv, NEW p \in Packages, NEW x \in check[p].item, Feed(p, x) PROVE TypeInv'
<1> DEFINE k == KeyOf(x)
           meta == Meta(k)
           interval == Since(x.time, meta)
           before == IF meta.init THEN meta.smoothed ELSE x.value
           a == SmoothingFactor[FactorsOf]
           b == TrendFactor[FactorsOf]
           smoothed == a * x.value + (1 - a) * (before + meta.trend)
           slope == b * (smoothed - before) + (1 - b) * meta.trend
           m == [init |-> TRUE, lastTime |-> x.time, lastInterval |-> interval,
                 smoothed |-> smoothed, trend |-> slope]
           c == [check[p] EXCEPT !.item = {}, !.pc = IF check[p].todo = {} THEN "judged" ELSE "judging"]
<1>1. /\ Still /\ UNCHANGED <<data, report, served>> /\ trend' = WithMeta(k, m)
      /\ check' = [check EXCEPT ![p] = c]
  BY DEF Feed, FeedWith, Still
<1>2. check \in [Packages -> Checking] /\ check[p] \in Checking
  BY DEF TypeInv
<1>3. x \in Judged /\ k \in Key
  BY <1>2 DEF Checking, Judged, KeyOf, Key
<1>4. c \in Checking /\ c.item = {} /\ c.pc # "feeding"
  BY <1>2 DEF Checking
<1>5. CheckChanges(p, c)
  BY <1>1, <1>4 DEF CheckChanges
<1>6. meta \in Recorded
  BY MetaTyped
<1>7. a \in Int /\ b \in Int
  BY Assumed
<1> HIDE DEF meta, c, k, a, b
<1>8. meta.lastTime \in Int /\ meta.smoothed \in Int /\ meta.trend \in Int /\ x.value \in Int /\ x.time \in 0..now
  BY <1>3, <1>6, Now DEF Recorded, Judged
<1>9. interval \in 0..(TimeWidth - 1)
  BY <1>8, Assumed DEF Since
<1>10. before \in Int
  BY <1>8
<1>11. smoothed \in Int
  <2>1. a * x.value \in Int /\ (1 - a) * (before + meta.trend) \in Int
    <3> HIDE DEF before
    <3> QED
      BY <1>7, <1>8, <1>10
  <2> QED
    BY <2>1
<1> HIDE DEF smoothed, before, interval
<1>12. slope \in Int
  <2>1. b * (smoothed - before) \in Int /\ (1 - b) * meta.trend \in Int
    BY <1>7, <1>8, <1>10, <1>11
  <2> QED
    BY <2>1
<1> HIDE DEF slope
<1>13. m \in Recorded
  BY <1>8, <1>9, <1>11, <1>12 DEF Recorded
<1> HIDE DEF m
<1>14. DOMAIN trend' \subseteq Key /\ trend' \in [DOMAIN trend' -> Recorded']
  BY <1>1, <1>3, <1>13, TypeTrend
<1>15. /\ check' \in [Packages -> Checking']
       /\ \A q \in Packages : (check[q].item # {})' = At(q, "feeding")'
  BY <1>1, <1>5, TypeChecker
<1> QED
  BY <1>1, <1>14, <1>15, StillTypes DEF TypeInv, FetchedData, Still

\* What an alarm says.
MissedToSay(p) ==
  IF RemoveShielded(check[p].noValid) = {}
  THEN {m \in check[p].missed : ~Shielded(<<m, 0>>, now)} ELSE {}
Saying(p) ==
  [at |-> now, abnormal |-> RemoveShielded(check[p].abnormal),
   noValid |-> RemoveShielded(check[p].noValid), missed |-> MissedToSay(p)]
\* The message that is written has its type.
LEMMA ContentGives ==
  ASSUME TypeInv, NEW p \in Packages, Content(p)
  PROVE  /\ Still /\ UNCHANGED <<data, trend, served>> /\ At(p, "judged")
         /\ report' = [report EXCEPT ![p] = Saying(p)] /\ Saying(p) \in Said
         /\ CheckChanges(p, NoCheck)
<1>1. /\ Still /\ UNCHANGED <<data, trend, served>> /\ At(p, "judged")
      /\ report' = [report EXCEPT ![p] = Saying(p)] /\ check' = [check EXCEPT ![p] = NoCheck]
  BY DEF Content, Still, Saying, MissedToSay
<1>2. CheckChanges(p, NoCheck)
  BY <1>1, NoCheckTyped DEF CheckChanges
<1>3. check[p].abnormal \subseteq Key /\ check[p].noValid \subseteq Key
      /\ check[p].missed \subseteq Metrics \cup {Pattern}
  BY DEF TypeInv, Checking
<1>4. now \in Start..now
  BY Now, Assumed
<1>5. Saying(p) \in Said
  BY <1>3, <1>4 DEF Said, Saying, MissedToSay, RemoveShielded
<1> QED
  BY <1>1, <1>2, <1>5

\* Writing the message leaves the types.
LEMMA TypeContent == ASSUME TypeInv, NEW p \in Packages, Content(p) PROVE TypeInv'
<1>1. /\ Still /\ UNCHANGED <<data, trend, served>> /\ CheckChanges(p, NoCheck)
      /\ report' = [report EXCEPT ![p] = Saying(p)] /\ Saying(p) \in Said
  BY ContentGives
<1>2. report' \in [Packages -> Said']
  BY <1>1, TypeReport
<1> QED
  BY <1>1, <1>2, TypeChecker, StillTypes DEF TypeInv, FetchedData, Still

\* As time goes by.
LEMMA TypeTick == ASSUME TypeInv, Tick PROVE TypeInv'
<1>1. /\ now' = now + 1 /\ now < MaxTime /\ policy' = policy
      /\ UNCHANGED <<served, data, check, trend, report>>
  BY DEF Tick
<1>2. now \in Nat \ {0} /\ now >= Start /\ now' \in Nat /\ now <= now'
  BY <1>1, Now
<1>3. now' \in Start..Max({Start, MaxTime})
  BY <1>1, <1>2, End, Assumed
<1>4. Recorded \subseteq Recorded' /\ Judged \subseteq Judged'
  BY <1>1, <1>2 DEF Recorded, Judged
<1>5. Checking \subseteq Checking'
  BY <1>1, <1>4 DEF Checking
<1>6. Said \subseteq Said'
  BY <1>1, <1>2, Assumed DEF Said
<1>7. ASSUME NEW root, Fetched(root) PROVE Fetched(root)'
  <2>1. \A s \in root : IsSeries(s, now')
    BY <1>2, <1>7, SeriesStays DEF Fetched
  <2> QED
    BY <1>1, <1>7, <2>1 DEF Fetched
<1>8. Ranges' = Ranges
  BY <1>1 DEF Ranges
<1>9. \A p \in Packages : FetchedData(p)'
  BY <1>1, <1>7, <1>8 DEF TypeInv, FetchedData
<1>10. check' \in [Packages -> Checking'] /\ report' \in [Packages -> Said']
       /\ trend' \in [DOMAIN trend' -> Recorded']
  BY <1>1, <1>4, <1>5, <1>6 DEF TypeInv
<1> QED
  BY <1>1, <1>3, <1>9, <1>10 DEF TypeInv, At

\* Every step does.
LEMMA TypeStep == TypeInv /\ [Next]_vars => TypeInv'
<1> SUFFICES ASSUME TypeInv, [Next]_vars PROVE TypeInv'
  OBVIOUS
<1>1. CASE Tick
  BY <1>1, TypeTick
<1>2. CASE TakeOver
  BY <1>2, TypeTakeOver
<1>3. CASE Onward
  BY <1>3, TypeOnward
<1>4. ASSUME NEW p \in Packages, Retrieve(p) PROVE TypeInv'
  BY <1>4, TypeRetrieve
<1>5. ASSUME NEW p \in Packages, CheckNothing(p) PROVE TypeInv'
  BY <1>5, TypeNothing
<1>6. ASSUME NEW p \in Packages, Check(p) PROVE TypeInv'
  BY <1>6, TypeCheck
<1>7. ASSUME NEW p \in Packages, Content(p) PROVE TypeInv'
  BY <1>7, TypeContent
<1>8. ASSUME NEW p \in Packages, NEW x \in check[p].todo, Forecast(p, x) PROVE TypeInv'
  BY <1>8, TypeForecast
<1>9. ASSUME NEW p \in Packages, NEW x \in check[p].item, Feed(p, x) PROVE TypeInv'
  BY <1>9, TypeFeed
<1>10. CASE UNCHANGED vars
  <2>1. Still /\ UNCHANGED <<data, check, trend, report, served>>
    BY <1>10 DEF vars, Still
  <2> QED
    BY <2>1, StillTypes DEF TypeInv, FetchedData, At, Still
<1> QED
  BY <1>1, <1>2, <1>3, <1>4, <1>5, <1>6, <1>7, <1>8, <1>9, <1>10 DEF Next, Onward

\* The types hold throughout.
LEMMA TypeInvariant == Spec => []TypeInv
BY TypeInit, TypeStep, PTL DEF Spec

\* The properties' types are part of them.
LEMMA TypeInvOK == TypeInv => TypeOK
<1> SUFFICES ASSUME TypeInv PROVE TypeOK
  OBVIOUS
<1>1. ASSUME NEW p \in Packages
      PROVE  /\ check[p].pc \in {"none", "retrieved", "judging", "feeding", "judged"}
             /\ check[p].abnormal \cup check[p].noValid \subseteq Key
             /\ check[p].missed \subseteq Metrics \cup {Pattern}
             /\ (check[p].item # {}) = At(p, "feeding")
             /\ \A x \in check[p].todo \cup check[p].item :
                  KeyOf(x) \in Key /\ x.time \in 1..now /\ x.value \in Int
             /\ report[p].at \in {0} \cup Start..now
  <2>1. check[p] \in Checking /\ report[p] \in Said /\ (check[p].item # {}) = At(p, "feeding")
    BY DEF TypeInv
  <2>2. \A x \in Judged : KeyOf(x) \in Key /\ x.time \in 1..now /\ x.value \in Int
    BY DEF Judged, KeyOf, Key
  <2> QED
    BY <2>1, <2>2 DEF Checking, Said
<1>2. \A k \in DOMAIN trend :
        /\ trend[k].init \in BOOLEAN /\ trend[k].lastTime \in 0..now
        /\ trend[k].lastInterval \in 0..(TimeWidth - 1)
        /\ trend[k].smoothed \in Int /\ trend[k].trend \in Int
  BY DEF TypeInv, Recorded
<1> QED
  BY <1>1, <1>2 DEF TypeOK, TypeInv

\* What is checked, and what is kept of a trend, is of the policy's metrics
\* and hosts, with times that have been, and values that are numbers.
THEOREM TypeCorrect == Spec => []TypeOK
BY TypeInvariant, TypeInvOK, PTL
-----------------------------------------------------------------------------
(* Totals are whole.                                                       *)

\* Whatever the hosts answer, no point of theirs is left out of a total, and
\* none is in it twice.
THEOREM NoPointIsLost == Spec => []EveryValueCounts
<1>1. TypeInv => EveryValueCounts
  <2> SUFFICES ASSUME TypeInv, NEW p \in Packages, NEW i \in DOMAIN data[p],
                      NEW t \in Totalled(data[p][i])
               PROVE  EachPointCounts(t[2])
    BY DEF EveryValueCounts
  <2> DEFINE root == data[p][i]
  <2>1. Fetched(root)
    BY DEF TypeInv, FetchedData
  <2> HIDE DEF root
  <2>2. t[2] # {} /\ t[2] \in SUBSET Added(root)
    <3>1. policy.type \in {"single", "host total", "metric total"}
      BY OfPolicy DEF TypeInv
    <3>2. t \in Totalled(root)
      BY DEF root
    <3>3. CASE policy.type = "single"
      BY <3>2, <3>3 DEF Totalled
    <3>4. CASE policy.type = "host total"
      <4>1. PICK m \in policy.metrics : OfMetric(root, m) # {} /\ t = <<m, OfMetric(root, m)>>
        BY <3>2, <3>4 DEF Totalled
      <4> QED
        BY <4>1 DEF OfMetric
    <3>5. CASE policy.type = "metric total"
      <4>1. Added(root) # {} /\ t = <<Pattern, Added(root)>>
        <5>1. Totalled(root) = IF Added(root) = {} THEN {} ELSE {<<Pattern, Added(root)>>}
          BY <3>5 DEF Totalled
        <5> QED
          BY <3>2, <5>1
      <4> QED
        BY <4>1
    <3> QED
      BY <3>1, <3>3, <3>4, <3>5
  <2>3. Gathered(t[2], now) /\ now \in Nat
    BY <2>1, <2>2, Now, TotalTyped
  <2> QED
    BY <2>3, EachPointHasAPart
<1> QED
  BY <1>1, TypeInvariant, PTL
-----------------------------------------------------------------------------
(* The judgement.                                                          *)

\* What is judged, and found, follows from what was fetched and the policy.
LEMMA SameItems ==
  ASSUME policy' = policy
  PROVE  /\ \A root : Usable(root)' = Usable(root) /\ Unfiltered(root)' = Unfiltered(root)
         /\ \A root : Items(root)' = Items(root) /\ Missed(root)' = Missed(root)
                      /\ NoValidData(root)' = NoValidData(root)
<1>1. \A root : Unfiltered(root)' = Unfiltered(root)
  BY DEF Unfiltered
<1>2. \A root : Usable(root)' = Usable(root)
  BY <1>1, Zenon DEF Usable
<1>3. \A root, key : FirstOf(root, key)' = FirstOf(root, key)
  BY <1>2, Zenon DEF FirstOf
<1>4. \A root : Added(root)' = Added(root)
  BY <1>2, <1>3 DEF Added
<1>5. \A root, m : OfMetric(root, m)' = OfMetric(root, m)
  BY <1>4, Zenon DEF OfMetric
<1>6. \A root : Totalled(root)' = Totalled(root)
  BY <1>4, <1>5 DEF Totalled
<1>7. \A root : Items(root)' = Items(root)
  BY <1>4, <1>6 DEF Items
<1>8. \A root : Missed(root)' = Missed(root)
  BY <1>4, <1>5 DEF Missed
<1>9. \A root : NoValidData(root)' = NoValidData(root)
  BY <1>1, <1>2 DEF NoValidData
<1> QED
  BY <1>1, <1>2, <1>7, <1>8, <1>9

\* The verdict follows from them.
LEMMA SameVerdict ==
  ASSUME policy' = policy PROVE \A roots : Abnormal(roots)' = Abnormal(roots)
<1>1. \A root : Items(root)' = Items(root)
  BY SameItems
<1>2. \A current, base : DiffTooMuch(current, base)' = DiffTooMuch(current, base)
  BY DEF DiffTooMuch
<1>3. \A roots, x : Known(roots, x)' = Known(roots, x)
  BY <1>1 DEF Known
<1>4. \A root, x : ValueIn(root, x)' = ValueIn(root, x)
  BY <1>1 DEF ValueIn
<1>5. \A roots, x : CycleDiffers(roots, x)' = CycleDiffers(roots, x)
  BY <1>2, <1>3, <1>4 DEF CycleDiffers
<1>6. \A items, x : FarFromAverage(items, x)' = FarFromAverage(items, x)
  BY <1>2 DEF FarFromAverage
<1>7. (\A x : BeyondBounds(x)' = BeyondBounds(x)) /\ \A items : TooFewHosts(items)' = TooFewHosts(items)
  BY DEF BeyondBounds, TooFewHosts
<1> QED
  BY <1>1, <1>5, <1>6, <1>7 DEF Abnormal

\* What a checker knows while it judges, and when it has judged.
Judgement(p) ==
  check[p].pc \in {"judging", "feeding", "judged"} =>
    /\ data[p] # <<>>
    /\ check[p].noValid = NoValidOf(p) /\ check[p].missed = Missed(data[p][1])
    /\ policy.kind # "trend" => At(p, "judged") /\ check[p].abnormal = Abnormal(data[p])
    /\ check[p].todo \cup check[p].item \subseteq Items(data[p][1])
    /\ check[p].todo \cap check[p].item = {}

\* It is not changed by what changes nothing of the package.
LEMMA JudgementStays ==
  ASSUME NEW p \in Packages, Judgement(p),
         policy' = policy, data'[p] = data[p], check'[p] = check[p]
  PROVE  Judgement(p)'
<1>1. \A root : Items(root)' = Items(root) /\ Missed(root)' = Missed(root)
                /\ NoValidData(root)' = NoValidData(root)
  BY SameItems
<1>2. \A roots : Abnormal(roots)' = Abnormal(roots)
  BY SameVerdict
<1>3. NoValidOf(p)' = NoValidOf(p) /\ At(p, "judged")' = At(p, "judged")
  BY <1>1 DEF NoValidOf, At
<1> QED
  BY <1>1, <1>2, <1>3 DEF Judgement

\* A step of one package leaves the others alone.
LEMMA OnePackage ==
  ASSUME TypeInv, NEW p \in Packages,
         \/ Retrieve(p) \/ CheckNothing(p) \/ Check(p) \/ Content(p)
         \/ \E x \in check[p].todo : Forecast(p, x)
         \/ \E x \in check[p].item : Feed(p, x)
  PROVE  /\ now' = now /\ policy' = policy /\ served' = served
         /\ \A q \in Packages \ {p} :
              data'[q] = data[q] /\ check'[q] = check[q] /\ report'[q] = report[q]
<1>1. DOMAIN data = Packages /\ DOMAIN check = Packages /\ DOMAIN report = Packages
  BY DEF TypeInv
<1>2. CASE Retrieve(p)
  BY <1>1, <1>2 DEF Retrieve
<1>3. CASE CheckNothing(p)
  BY <1>1, <1>3 DEF CheckNothing
<1>4. CASE Check(p)
  BY <1>1, <1>4 DEF Check, CheckWith
<1>5. CASE Content(p)
  BY <1>1, <1>5 DEF Content
<1>6. CASE \E x \in check[p].todo : Forecast(p, x)
  BY <1>1, <1>6 DEF Forecast, ForecastWith
<1>7. CASE \E x \in check[p].item : Feed(p, x)
  BY <1>1, <1>7 DEF Feed, FeedWith
<1> QED
  BY <1>2, <1>3, <1>4, <1>5, <1>6, <1>7

\* How a package's own steps change what it knows.
LEMMA JudgementStep ==
  ASSUME TypeInv, NEW p \in Packages, Judgement(p),
         \/ Retrieve(p) \/ CheckNothing(p) \/ Check(p) \/ Content(p)
         \/ \E x \in check[p].todo : Forecast(p, x)
         \/ \E x \in check[p].item : Feed(p, x)
  PROVE  Judgement(p)'
<1>1. p \in DOMAIN check /\ check[p] \in Checking
  BY DEF TypeInv
<1>2. CASE Retrieve(p)
  <2>1. check'[p] = [check[p] EXCEPT !.pc = "retrieved"]
    BY <1>1, <1>2 DEF Retrieve
  <2> QED
    BY <1>1, <2>1 DEF Judgement, Checking
<1>3. CASE CheckNothing(p) \/ Content(p)
  <2>1. check'[p] = NoCheck
    BY <1>1, <1>3 DEF CheckNothing, Content
  <2> QED
    BY <2>1 DEF Judgement, NoCheck
<1>4. CASE Check(p)
  <2>1. /\ policy' = policy /\ data' = data /\ data[p] # <<>> /\ check'[p] = Verdict(p)
    BY <1>1, <1>4, CheckGives DEF Still, CheckChanges
  <2>2. /\ \A root : Items(root)' = Items(root) /\ Missed(root)' = Missed(root)
                      /\ NoValidData(root)' = NoValidData(root)
        /\ \A roots : Abnormal(roots)' = Abnormal(roots)
    BY <2>1, SameItems, SameVerdict
  <2>3. NoValidOf(p)' = NoValidOf(p) /\ ToJudge(p) \subseteq Items(data[p][1])
        /\ (policy.kind # "trend" => ToJudge(p) = {})
    BY <2>1, <2>2 DEF NoValidOf, ToJudge
  <2>4. /\ Verdict(p).noValid = NoValidOf(p) /\ Verdict(p).missed = Missed(data[p][1])
        /\ Verdict(p).abnormal = Abnormal(data[p])
        /\ Verdict(p).todo = ToJudge(p) /\ Verdict(p).item = {}
        /\ ToJudge(p) = {} => Verdict(p).pc = "judged"
    BY DEF Verdict
  <2> QED
    BY <2>1, <2>2, <2>3, <2>4 DEF Judgement, At
<1>5. CASE \E x \in check[p].todo : Forecast(p, x)
  <2>1. PICK x \in check[p].todo : Forecast(p, x)
    BY <1>5
  <2>2. /\ policy' = policy /\ data' = data /\ check[p].pc = "judging"
        /\ check'[p].noValid = check[p].noValid /\ check'[p].missed = check[p].missed
        /\ check'[p].todo = check[p].todo \ {x} /\ check'[p].item = {x}
    BY <1>1, <2>1 DEF Forecast, ForecastWith, At, Checking
  <2>3. /\ \A root : Items(root)' = Items(root) /\ Missed(root)' = Missed(root)
                      /\ NoValidData(root)' = NoValidData(root)
    BY <2>2, SameItems
  <2>4. NoValidOf(p)' = NoValidOf(p) /\ policy.kind = "trend"
    BY <2>2, <2>3 DEF NoValidOf, Judgement, At
  <2> QED
    BY <2>1, <2>2, <2>3, <2>4 DEF Judgement
<1>6. CASE \E x \in check[p].item : Feed(p, x)
  <2>1. PICK x \in check[p].item : Feed(p, x)
    BY <1>6
  <2>2. /\ policy' = policy /\ data' = data /\ check[p].pc = "feeding"
        /\ check'[p].noValid = check[p].noValid /\ check'[p].missed = check[p].missed
        /\ check'[p].todo = check[p].todo /\ check'[p].item = {}
    BY <1>1, <2>1 DEF Feed, FeedWith, At, Checking
  <2>3. /\ \A root : Items(root)' = Items(root) /\ Missed(root)' = Missed(root)
                      /\ NoValidData(root)' = NoValidData(root)
    BY <2>2, SameItems
  <2>4. NoValidOf(p)' = NoValidOf(p) /\ policy.kind = "trend"
    BY <2>2, <2>3 DEF NoValidOf, Judgement, At
  <2> QED
    BY <2>2, <2>3, <2>4 DEF Judgement
<1> QED
  BY <1>2, <1>3, <1>4, <1>5, <1>6

JudgementInv == \A p \in Packages : Judgement(p)
\* Checkers know this throughout.
LEMMA JudgementInvariant == Spec => []JudgementInv
<1>1. Init => JudgementInv
  BY DEF Init, JudgementInv, Judgement, NoCheck
<1>2. TypeInv /\ JudgementInv /\ [Next]_vars => JudgementInv'
  <2> SUFFICES ASSUME TypeInv, JudgementInv, [Next]_vars, NEW q \in Packages PROVE Judgement(q)'
    BY DEF JudgementInv
  <2>1. Judgement(q)
    BY DEF JudgementInv
  <2>2. CASE Tick \/ TakeOver \/ Onward \/ UNCHANGED vars
    <3>1. policy' = policy /\ data' = data /\ check' = check
      BY <2>2 DEF Tick, TakeOver, Onward, SetFactors, SetAutoExpireTimeUs, NextRound, vars
    <3> QED
      BY <2>1, <3>1, JudgementStays
  <2>3. ASSUME NEW p \in Packages,
               \/ Retrieve(p) \/ CheckNothing(p) \/ Check(p) \/ Content(p)
               \/ \E x \in check[p].todo : Forecast(p, x)
               \/ \E x \in check[p].item : Feed(p, x)
        PROVE  Judgement(q)'
    <3>1. CASE p = q
      BY <2>1, <2>3, <3>1, JudgementStep
    <3>2. CASE p # q
      <4>1. policy' = policy /\ data'[q] = data[q] /\ check'[q] = check[q]
        BY <2>3, <3>2, OnePackage
      <4> QED
        BY <2>1, <4>1, JudgementStays
    <3> QED
      BY <3>1, <3>2
  <2> QED
    BY <2>2, <2>3 DEF Next, Onward
<1> QED
  BY <1>1, <1>2, TypeInvariant, PTL DEF Spec

\* The checkers' assertions: a total has a value, no item is judged twice,
\* there are cycles before the present one, and no missing total is hidden
\* by a host without valid data.
THEOREM NoAssertionFails == Spec => []AssertionsHold
<1>1. TypeInv /\ JudgementInv => AssertionsHold
  <2> SUFFICES ASSUME TypeInv, JudgementInv, NEW p \in Packages
      PROVE /\ data[p] # <<>> =>
                 /\ \A i \in DOMAIN data[p] : \A x \in Items(data[p][i]) : x.value # Invalid
                 /\ policy.kind = "cycle" => Len(data[p]) > 1
            /\ At(p, "feeding") => \A x \in check[p].item, y \in check[p].todo : KeyOf(x) # KeyOf(y)
            /\ At(p, "judged") /\ (\E k \in check[p].noValid : ~Shielded(k, now)) => check[p].missed = {}
    BY DEF AssertionsHold
  <2>1. now \in Nat /\ policy \in Policies
    BY Now DEF TypeInv
  <2>2. ASSUME data[p] # <<>>, NEW i \in DOMAIN data[p] PROVE Fetched(data[p][i])
    BY <2>2 DEF TypeInv, FetchedData
  <2>3. ASSUME data[p] # <<>>, NEW i \in DOMAIN data[p], NEW x \in Items(data[p][i])
        PROVE  x.value # Invalid
    <3>1. x \in Judged
      BY <2>1, <2>2, <2>3, ItemsTyped
    <3> QED
      BY <3>1, Assumed DEF Judged
  <2>4. ASSUME data[p] # <<>>, policy.kind = "cycle" PROVE Len(data[p]) > 1
    <3>1. DOMAIN data[p] = 1..(1 + policy.cycles)
      BY <2>4 DEF TypeInv, FetchedData, Ranges
    <3>2. policy.cycles \in Nat /\ policy.cycles > 0
      <4>1. policy.cycles \in Nat /\ (policy.kind = "cycle" => policy.cycles > 0)
        BY <2>1, OfPolicy
      <4> QED
        BY <2>4, <4>1
    <3> QED
      BY <3>1, <3>2
  <2>5. ASSUME At(p, "feeding"), NEW x \in check[p].item, NEW y \in check[p].todo
        PROVE  KeyOf(x) # KeyOf(y)
    <3>1. /\ data[p] # <<>> /\ x \in Items(data[p][1]) /\ y \in Items(data[p][1]) /\ x # y
      BY <2>5 DEF JudgementInv, Judgement, At
    <3>2. 1 \in DOMAIN data[p]
      <4>1. policy.cycles \in Nat
        BY <2>1, OfPolicy
      <4>2. DOMAIN data[p] = Ranges
        BY <3>1 DEF TypeInv, FetchedData
      <4> QED
        BY <4>1, <4>2 DEF Ranges
    <3>3. Distinct(Items(data[p][1]))
      BY <2>1, <2>2, <3>1, <3>2, ItemsTyped
    <3> QED
      BY <3>1, <3>3 DEF Distinct
  <2>6. ASSUME At(p, "judged"), \E k \in check[p].noValid : ~Shielded(k, now)
        PROVE  check[p].missed = {}
    <3>1. check[p].noValid = NoValidOf(p) /\ check[p].missed = Missed(data[p][1])
      BY <2>6 DEF JudgementInv, Judgement, At
    <3>2. policy.type = "single"
      BY <2>6, <3>1 DEF NoValidOf
    <3> QED
      BY <3>1, <3>2 DEF Missed
  <2> QED
    BY <2>3, <2>4, <2>5, <2>6
<1> QED
  BY <1>1, TypeInvariant, JudgementInvariant, PTL
-----------------------------------------------------------------------------
(* What an alarm says.                                                     *)

\* A metric on a host is open when every row that matches it has run out.
Open(keys, time) == {k \in keys : ~Shielded(k, time)}
\* The maximum the code takes says just that.
LEMMA NotShielded ==
  ASSUME NEW time \in Nat, NEW key
  PROVE  ~Shielded(key, time) <=> \A t \in {Shields[i].until : i \in Rows(key)} : t <= time
<1> DEFINE R == Rows(key)
           g == [i \in R |-> Shields[i].until]
           U == {Shields[i].until : i \in R}
<1>1. R \in SUBSET DOMAIN Shields
  BY DEF Rows
<1>2. IsFiniteSet(DOMAIN Shields) /\ \A i \in DOMAIN Shields : Shields[i].until \in Nat
  BY CheckAssumption, Zenon DEF CheckAssumption
<1>3. IsFiniteSet(R) /\ \A t \in U : t \in Nat
  BY <1>1, <1>2, FS_Subset
<1>4. U = {g[i] : i \in R}
  OBVIOUS
<1>5. IsFiniteSet(U)
  <2> HIDE DEF U, g, R
  <2> QED
    BY <1>3, <1>4, FiniteImage
<1> HIDE DEF U
<1> DEFINE A == {0} \cup U
<1>6. IsFiniteSet(A) /\ A \in SUBSET Int /\ A # {}
  <2>1. IsFiniteSet(U \cup {0}) /\ A = U \cup {0}
    BY <1>5, FS_AddElement
  <2> QED
    BY <1>3, <2>1
<1>7. ShieldTime(key) = Max(A)
  BY Zenon DEF ShieldTime, U
<1>8. 0 \in A /\ U \subseteq A /\ \A t \in A : t = 0 \/ t \in U
  OBVIOUS
<1> HIDE DEF A
<1>9. Max(A) \in A /\ \A t \in A : Max(A) >= t
  BY <1>6, Extremes
<1> DEFINE m == Max(A)
<1>10. m \in A /\ m \in Nat /\ \A t \in U : t \in Nat /\ t <= m
  <2>1. m \in A /\ \A t \in U : t <= m
    <3>1. \A t \in A : m >= t
      BY <1>9
    <3>2. \A t \in U : t \in Nat /\ m >= t
      BY <1>3, <1>8, <3>1
    <3>3. m \in Int
      BY <1>6, <1>9
    <3> QED
      BY <1>9, <3>2, <3>3
  <2>2. m = 0 \/ m \in U
    BY <1>8, <2>1
  <2> HIDE DEF m
  <2>3. m \in Nat
    BY <1>3, <2>2
  <2> QED
    BY <1>3, <2>1, <2>3
<1> HIDE DEF m
<1>11. time < m <=> ~(\A t \in U : t <= time)
  <2>1. CASE time < m
    <3>1. m \in U
      BY <1>8, <1>10, <2>1
    <3> QED
      BY <1>10, <2>1, <3>1
  <2>2. CASE ~(time < m)
    <3>1. \A t \in U : t <= time
      BY <1>10, <2>2
    <3> QED
      BY <2>2, <3>1
  <2> QED
    BY <2>1, <2>2
<1> QED
  BY <1>7, <1>11 DEF Shielded, U, m

\* What an alarm message that has been written is made of.
Reported(p) ==
  report[p].at > 0 /\ At(p, "none") /\ data[p] # <<>> =>
    /\ report[p].noValid = Open(NoValidOf(p), report[p].at)
    /\ report[p].missed =
         IF report[p].noValid = {}
         THEN {m \in Missed(data[p][1]) : ~Shielded(<<m, 0>>, report[p].at)} ELSE {}
    /\ \A k \in report[p].abnormal : ~Shielded(k, report[p].at)
    /\ policy.kind # "trend" => report[p].abnormal = Open(Abnormal(data[p]), report[p].at)

\* It is not changed by what changes nothing of the package.
LEMMA ReportedStays ==
  ASSUME NEW p \in Packages, Reported(p),
         policy' = policy, data'[p] = data[p], check'[p] = check[p], report'[p] = report[p]
  PROVE  Reported(p)'
<1>1. \A root : Missed(root)' = Missed(root) /\ NoValidData(root)' = NoValidData(root)
  BY SameItems
<1>2. \A roots : Abnormal(roots)' = Abnormal(roots)
  BY SameVerdict
<1>3. NoValidOf(p)' = NoValidOf(p) /\ At(p, "none")' = At(p, "none")
  BY <1>1 DEF NoValidOf, At
<1> QED
  BY <1>1, <1>2, <1>3 DEF Reported, Open

\* How a package's own steps change it.
LEMMA ReportedStep ==
  ASSUME TypeInv, NEW p \in Packages, Judgement(p), Reported(p),
         \/ Retrieve(p) \/ CheckNothing(p) \/ Check(p) \/ Content(p)
         \/ \E x \in check[p].todo : Forecast(p, x)
         \/ \E x \in check[p].item : Feed(p, x)
  PROVE  Reported(p)'
<1>1. p \in DOMAIN check /\ check[p] \in Checking /\ p \in DOMAIN report
  BY DEF TypeInv
<1>2. CASE Content(p)
  <2>1. /\ Still /\ data' = data /\ check[p].pc = "judged" /\ report'[p] = Saying(p)
    BY <1>1, <1>2, ContentGives DEF At
  <2>2. /\ check[p].noValid = NoValidOf(p) /\ check[p].missed = Missed(data[p][1])
        /\ policy.kind # "trend" => check[p].abnormal = Abnormal(data[p])
    BY <2>1 DEF Judgement
  <2>3. /\ report'[p].at = now /\ report'[p].abnormal = Open(check[p].abnormal, now)
        /\ report'[p].noValid = Open(check[p].noValid, now)
        /\ report'[p].missed = IF report'[p].noValid = {}
                               THEN {m \in check[p].missed : ~Shielded(<<m, 0>>, now)} ELSE {}
    BY <2>1 DEF Saying, MissedToSay, RemoveShielded, Open
  <2>4. \A root : Missed(root)' = Missed(root) /\ NoValidData(root)' = NoValidData(root)
    BY <2>1, SameItems DEF Still
  <2>5. \A roots : Abnormal(roots)' = Abnormal(roots)
    BY <2>1, SameVerdict DEF Still
  <2>6. NoValidOf(p)' = NoValidOf(p) /\ policy' = policy
    BY <2>1, <2>4 DEF NoValidOf, Still
  <2>7. \A k \in report'[p].abnormal : ~Shielded(k, report'[p].at)
    BY <2>3 DEF Open
  <2> QED
    BY <2>1, <2>2, <2>3, <2>4, <2>5, <2>6, <2>7 DEF Reported, Open
<1>3. CASE CheckNothing(p)
  <2>1. data'[p] = <<>>
    BY <1>3 DEF CheckNothing
  <2> QED
    BY <2>1 DEF Reported
<1>4. CASE \/ Retrieve(p) \/ Check(p) \/ (\E x \in check[p].todo : Forecast(p, x))
            \/ (\E x \in check[p].item : Feed(p, x))
  <2>1. check'[p].pc # "none"
    <3>1. CASE Retrieve(p)
      BY <1>1, <3>1 DEF Retrieve, Checking
    <3>2. CASE Check(p)
      BY <1>1, <3>2 DEF Check, CheckWith
    <3>3. ASSUME NEW x \in check[p].todo, Forecast(p, x) PROVE check'[p].pc = "feeding"
      BY <1>1, <3>3 DEF Forecast, ForecastWith, Checking
    <3>4. ASSUME NEW x \in check[p].item, Feed(p, x) PROVE check'[p].pc \in {"judged", "judging"}
      BY <1>1, <3>4 DEF Feed, FeedWith, Checking
    <3> QED
      BY <1>4, <3>1, <3>2, <3>3, <3>4
  <2> QED
    BY <2>1 DEF Reported, At
<1> QED
  BY <1>2, <1>3, <1>4

ReportedInv == \A p \in Packages : Reported(p)
\* Messages are made of this throughout.
LEMMA ReportedInvariant == Spec => []ReportedInv
<1>1. Init => ReportedInv
  BY DEF Init, ReportedInv, Reported, Silent
<1>2. TypeInv /\ JudgementInv /\ ReportedInv /\ [Next]_vars => ReportedInv'
  <2> SUFFICES ASSUME TypeInv, JudgementInv, ReportedInv, [Next]_vars, NEW q \in Packages
               PROVE  Reported(q)'
    BY DEF ReportedInv
  <2>1. Reported(q) /\ Judgement(q)
    BY DEF ReportedInv, JudgementInv
  <2>2. CASE Tick \/ TakeOver \/ Onward \/ UNCHANGED vars
    <3>1. policy' = policy /\ data' = data /\ check' = check /\ report' = report
      BY <2>2 DEF Tick, TakeOver, Onward, SetFactors, SetAutoExpireTimeUs, NextRound, vars
    <3> QED
      BY <2>1, <3>1, ReportedStays
  <2>3. ASSUME NEW p \in Packages,
               \/ Retrieve(p) \/ CheckNothing(p) \/ Check(p) \/ Content(p)
               \/ \E x \in check[p].todo : Forecast(p, x)
               \/ \E x \in check[p].item : Feed(p, x)
        PROVE  Reported(q)'
    <3>1. CASE p = q
      BY <2>1, <2>3, <3>1, ReportedStep
    <3>2. CASE p # q
      <4>1. policy' = policy /\ data'[q] = data[q] /\ check'[q] = check[q] /\ report'[q] = report[q]
        BY <2>3, <3>2, OnePackage
      <4> QED
        BY <2>1, <4>1, ReportedStays
    <3> QED
      BY <3>1, <3>2
  <2> QED
    BY <2>2, <2>3 DEF Next, Onward
<1> QED
  BY <1>1, <1>2, TypeInvariant, JudgementInvariant, PTL DEF Spec

\* The series a policy is about, once it has been fetched, and the rows that
\* shield them.
LEMMA WhatIsSaid ==
  ASSUME TypeInv, ReportedInv, NEW p \in Packages, report[p].at > 0, At(p, "none"), data[p] # <<>>,
         NEW k \in Key
  PROVE  LET root == data[p][1]
             open == \A t \in {Shields[i].until : i \in Rows(k)} : t <= report[p].at
         IN /\ Fetched(root) /\ now \in Nat /\ policy \in Policies
            /\ Says(p, k) => open
            /\ policy.type = "single" => report[p].missed = {}
                 /\ (open /\ k \in NoValidData(root) => Says(p, k))
            /\ policy.type # "single" /\ open =>
                 \A m \in Missed(root) : k = <<m, 0>> => Says(p, k)
            /\ policy.kind # "trend" /\ open =>
                 (k \in report[p].abnormal <=> k \in Abnormal(data[p]))
<1> DEFINE root == data[p][1]
           at == report[p].at
           open == \A t \in {Shields[i].until : i \in Rows(k)} : t <= at
<1>1. /\ report[p].noValid = Open(NoValidOf(p), at)
      /\ report[p].missed = IF report[p].noValid = {}
                            THEN {m \in Missed(root) : ~Shielded(<<m, 0>>, at)} ELSE {}
      /\ \A a \in report[p].abnormal : ~Shielded(a, at)
      /\ policy.kind # "trend" => report[p].abnormal = Open(Abnormal(data[p]), at)
  BY Zenon DEF ReportedInv, Reported
<1>2. at \in Nat /\ now \in Nat /\ policy \in Policies
  BY Now, Assumed DEF TypeInv, Said
<1>3. ~Shielded(k, at) <=> open
  BY <1>2, NotShielded
<1>4. Fetched(root)
  <2>1. policy.cycles \in Nat
    BY <1>2, OfPolicy
  <2>2. 1 \in Ranges
    BY <2>1 DEF Ranges
  <2> QED
    BY <2>2 DEF TypeInv, FetchedData
<1> HIDE DEF root, at, open
<1>5. Says(p, k) => ~Shielded(k, at)
  <2>1. CASE k \in report[p].abnormal
    BY <1>1, <2>1
  <2>2. CASE k \in report[p].noValid
    BY <1>1, <2>2 DEF Open
  <2>3. ASSUME NEW m \in report[p].missed, k = <<m, 0>> PROVE ~Shielded(k, at)
    BY <1>1, <2>3
  <2> QED
    BY <2>1, <2>2, <2>3 DEF Says
<1>6. ASSUME policy.type = "single"
      PROVE  report[p].missed = {} /\ (open /\ k \in NoValidData(root) => Says(p, k))
  <2>1. Missed(root) = {} /\ NoValidOf(p) = NoValidData(root)
    BY <1>6 DEF Missed, NoValidOf, root
  <2> QED
    BY <1>1, <1>3, <2>1 DEF Open, Says
<1>7. ASSUME policy.type # "single", open, NEW m \in Missed(root), k = <<m, 0>> PROVE Says(p, k)
  <2>1. report[p].noValid = {}
    BY <1>1, <1>7 DEF NoValidOf, Open
  <2>2. m \in report[p].missed
    BY <1>1, <1>3, <1>7, <2>1
  <2> QED
    BY <1>7, <2>2 DEF Says
<1>8. ASSUME policy.kind # "trend", open
      PROVE  k \in report[p].abnormal <=> k \in Abnormal(data[p])
  BY <1>1, <1>3, <1>8 DEF Open
<1> QED
  BY <1>2, <1>3, <1>4, <1>5, <1>6, <1>7, <1>8 DEF root, at, open

\* What an alarm says is what was fetched: nothing in it is shielded, each
\* address without valid data is in it, and of a threshold each at which all
\* series are beyond it, and none at which all are within.
THEOREM AlarmsSayWhatIsWrong == Spec => []ReportsWhatIsWrong
<1>1. TypeInv /\ ReportedInv => ReportsWhatIsWrong
  <2> SUFFICES ASSUME TypeInv, ReportedInv, NEW p \in Packages,
                      report[p].at > 0, At(p, "none"), data[p] # <<>>
      PROVE LET fetched == {s \in data[p][1] : Addressed(s) \notin policy.filtered}
                valid(s) == \E k \in DOMAIN s.values : s.values[k] # Invalid
                until(k) == {Shields[i].until : i \in Rows(k)}
                beyond(s) == GetValue(s.values) \notin policy.down..policy.up
                open(k) == \A t \in until(k) : t <= report[p].at
            IN /\ \A k \in Key : Says(p, k) => open(k)
               /\ policy.type = "single" =>
                    \A s \in fetched : ~valid(s) /\ open(Addressed(s)) => Says(p, Addressed(s))
               /\ policy.type = "host total" =>
                    \A m \in policy.metrics :
                      (\A s \in fetched : s.metric = m => ~valid(s)) /\ open(<<m, 0>>) => Says(p, <<m, 0>>)
               /\ policy.type = "metric total" /\ (\A s \in fetched : ~valid(s)) /\ open(<<Pattern, 0>>) =>
                    Says(p, <<Pattern, 0>>)
               /\ policy.kind = "threshold" /\ policy.type = "single" =>
                    \A k \in Key : LET there == {s \in fetched : Addressed(s) = k} IN
                      /\ Says(p, k) => \E s \in there : ~valid(s) \/ beyond(s)
                      /\ there # {} /\ open(k) /\ (\A s \in there : ~valid(s) \/ beyond(s))
                           => Says(p, k)
    BY Zenon DEF ReportsWhatIsWrong
  <2> DEFINE root == data[p][1]
             fetched == {s \in root : Addressed(s) \notin policy.filtered}
             valid(s) == \E k \in DOMAIN s.values : s.values[k] # Invalid
             until(k) == {Shields[i].until : i \in Rows(k)}
             beyond(s) == GetValue(s.values) \notin policy.down..policy.up
             open(k) == \A t \in until(k) : t <= report[p].at
  <2>1. /\ Fetched(root) /\ now \in Nat /\ policy \in Policies
        /\ \A k \in Key : Says(p, k) => open(k)
    <3>1. <<Pattern, 0>> \in Key
      BY DEF Key, Addresses
    <3>2. /\ Fetched(root) /\ now \in Nat /\ policy \in Policies
      BY <3>1, WhatIsSaid
    <3>3. \A k \in Key : Says(p, k) => open(k)
      BY WhatIsSaid
    <3> QED
      BY <3>2, <3>3
  <2>2. \A k \in Key : policy.type = "single" =>
           report[p].missed = {} /\ (open(k) /\ k \in NoValidData(root) => Says(p, k))
    BY WhatIsSaid
  <2>3. \A k \in Key : policy.type # "single" /\ open(k) =>
           \A m \in Missed(root) : k = <<m, 0>> => Says(p, k)
    BY WhatIsSaid
  <2>4. \A k \in Key : policy.kind # "trend" /\ open(k) =>
           (k \in report[p].abnormal <=> k \in Abnormal(data[p]))
    BY WhatIsSaid
  <2>5. fetched = Unfiltered(root)
    BY DEF Unfiltered
  <2>6. \A s \in fetched : /\ valid(s) <=> s \in Usable(root)
                           /\ valid(s) => GetValue(s.values) \in Int
                           /\ s \in root /\ Addressed(s) \in Key /\ s.metric \in policy.metrics
    <3> SUFFICES ASSUME NEW s \in fetched
        PROVE /\ valid(s) <=> s \in Usable(root)
              /\ valid(s) => GetValue(s.values) \in Int
              /\ s \in root /\ Addressed(s) \in Key /\ s.metric \in policy.metrics
      OBVIOUS
    <3>1. s \in root
      OBVIOUS
    <3>2. /\ valid(s) => GetValue(s.values) \in Int
          /\ ~valid(s) => GetValue(s.values) = Invalid
      BY <2>1, <3>1, UsableSeries
    <3>3. s.metric \in policy.metrics /\ s.host \in Hosts /\ policy.metrics \subseteq Metrics
      BY <2>1, <3>1, OfPolicy DEF Fetched
    <3>4. Addressed(s) \in Key
      BY <3>3 DEF Addressed, Key, Addresses
    <3> QED
      BY <2>5, <3>1, <3>2, <3>3, <3>4, Assumed DEF Usable
  <2> HIDE DEF fetched, open, valid, root
  <2>7. ASSUME policy.type = "single", NEW s \in fetched, ~valid(s), open(Addressed(s))
        PROVE  Says(p, Addressed(s))
    <3>1. Addressed(s) \in NoValidData(root)
      BY <2>5, <2>6, <2>7 DEF NoValidData
    <3> QED
      BY <2>2, <2>6, <2>7, <3>1
  <2>8. Added(root) \subseteq Usable(root) /\ Usable(root) \subseteq fetched
    <3>1. Added(root) \subseteq Usable(root)
      BY <2>1, AddedSeries
    <3> QED
      BY <2>5, <3>1 DEF Usable
  <2>9. ASSUME policy.type = "host total", NEW m \in policy.metrics,
               \A s \in fetched : s.metric = m => ~valid(s), open(<<m, 0>>)
        PROVE  Says(p, <<m, 0>>)
    <3>1. OfMetric(root, m) = {}
      BY <2>6, <2>8, <2>9 DEF OfMetric
    <3>2. m \in Missed(root)
      BY <2>9, <3>1 DEF Missed
    <3>3. <<m, 0>> \in Key
      BY <2>1, OfPolicy DEF Key, Addresses
    <3> QED
      BY <2>3, <2>9, <3>2, <3>3
  <2>10. ASSUME policy.type = "metric total", \A s \in fetched : ~valid(s), open(<<Pattern, 0>>)
         PROVE  Says(p, <<Pattern, 0>>)
    <3>1. Added(root) = {}
      BY <2>6, <2>8, <2>10
    <3>2. Pattern \in Missed(root)
      BY <2>10, <3>1 DEF Missed
    <3>3. <<Pattern, 0>> \in Key
      BY DEF Key, Addresses
    <3> QED
      BY <2>3, <2>10, <3>2, <3>3
  <2> HIDE DEF beyond
  <2>11. ASSUME policy.kind = "threshold", policy.type = "single", NEW k \in Key
         PROVE  LET there == {s \in fetched : Addressed(s) = k} IN
                /\ Says(p, k) => \E s \in there : ~valid(s) \/ beyond(s)
                /\ there # {} /\ open(k) /\ (\A s \in there : ~valid(s) \/ beyond(s)) => Says(p, k)
    <3> DEFINE there == {s \in fetched : Addressed(s) = k}
    <3>1. Abnormal(data[p]) = {KeyOf(x) : x \in {y \in Items(root) : BeyondBounds(y)}}
      BY <2>11 DEF Abnormal, root
    <3>2. Items(root) = {Single(t) : t \in Added(root)}
      BY <2>11 DEF Items
    <3>3. \A t \in Added(root) : KeyOf(Single(t)) = Addressed(t) /\ t \in fetched /\ valid(t)
                                /\ (BeyondBounds(Single(t)) <=> beyond(t))
      <4> SUFFICES ASSUME NEW t \in Added(root)
          PROVE KeyOf(Single(t)) = Addressed(t) /\ t \in fetched /\ valid(t)
                /\ (BeyondBounds(Single(t)) <=> beyond(t))
        OBVIOUS
      <4>1. KeyOf(Single(t)) = Addressed(t)
        BY DEF Single, KeyOf, Addressed
      <4>2. t \in fetched /\ valid(t) /\ GetValue(t.values) \in Int
        BY <2>6, <2>8
      <4>3. policy.up \in Int /\ policy.down \in Int
        BY <2>1, OfPolicy
      <4>4. BeyondBounds(Single(t)) <=> beyond(t)
        BY <4>2, <4>3 DEF BeyondBounds, Single, beyond
      <4> QED
        BY <4>1, <4>2, <4>4
    <3>4. k \in Abnormal(data[p]) <=> \E t \in Added(root) : Addressed(t) = k /\ beyond(t)
      <4>1. ASSUME k \in Abnormal(data[p])
            PROVE  \E t \in Added(root) : Addressed(t) = k /\ beyond(t)
        <5>1. PICK x \in Items(root) : BeyondBounds(x) /\ KeyOf(x) = k
          BY <3>1, <4>1
        <5>2. PICK t \in Added(root) : x = Single(t)
          BY <3>2, <5>1
        <5> QED
          BY <3>3, <5>1, <5>2
      <4>2. ASSUME NEW t \in Added(root), Addressed(t) = k, beyond(t)
            PROVE  k \in Abnormal(data[p])
        <5>1. Single(t) \in Items(root) /\ KeyOf(Single(t)) = k /\ BeyondBounds(Single(t))
          BY <3>2, <3>3, <4>2
        <5> QED
          BY <3>1, <5>1
      <4> QED
        BY <4>1, <4>2
    <3>5. ASSUME Says(p, k) PROVE \E s \in there : ~valid(s) \/ beyond(s)
      <4>1. report[p].missed = {}
        BY <2>2, <2>11
      <4>2. open(k)
        BY <2>1, <2>11, <3>5
      <4>3. CASE k \in report[p].abnormal
        <5>1. k \in Abnormal(data[p])
          BY <2>4, <2>11, <4>2, <4>3
        <5>2. PICK t \in Added(root) : Addressed(t) = k /\ beyond(t)
          BY <3>4, <5>1
        <5> QED
          BY <3>3, <5>2
      <4>4. CASE k \in report[p].noValid
        <5>1. k \in NoValidData(root)
          BY <2>11, <4>4 DEF ReportedInv, Reported, Open, NoValidOf, root
        <5>2. PICK t \in Unfiltered(root) \ Usable(root) : Addressed(t) = k
          BY <5>1 DEF NoValidData
        <5> QED
          BY <2>5, <2>6, <5>2
      <4> QED
        BY <3>5, <4>1, <4>3, <4>4 DEF Says
    <3>6. ASSUME there # {}, open(k), \A s \in there : ~valid(s) \/ beyond(s) PROVE Says(p, k)
      <4>1. PICK s \in fetched : Addressed(s) = k
        BY <3>6
      <4>2. CASE ~valid(s)
        BY <2>7, <2>11, <3>6, <4>1, <4>2
      <4>3. CASE valid(s)
        <5>1. s \in Usable(root)
          BY <2>6, <4>3
        <5> DEFINE t == FirstOf(root, k)
        <5>2. t \in Added(root) /\ Addressed(t) = k
          BY <2>1, <4>1, <5>1, AddedSeries
        <5> HIDE DEF t
        <5>3. t \in there /\ valid(t)
          BY <3>3, <5>2
        <5>4. beyond(t)
          BY <3>6, <5>3
        <5>5. k \in Abnormal(data[p])
          BY <3>4, <5>2, <5>4
        <5>6. k \in report[p].abnormal
          BY <2>4, <2>11, <3>6, <5>5
        <5> QED
          BY <5>6 DEF Says
      <4> QED
        BY <4>2, <4>3
    <3> QED
      BY <3>5, <3>6
  <2> QED
    BY <2>1, <2>7, <2>9, <2>10, <2>11 DEF fetched, valid, beyond, open, root
<1> QED
  BY <1>1, TypeInvariant, ReportedInvariant, PTL
-----------------------------------------------------------------------------
(* The history of a trend.                                                 *)

\* A record is dropped, or reset, only when its last sample is older than
\* what a history may be.
THEOREM HistoryIsKept == Spec => OnlyOldHistoryIsDropped
<1> DEFINE Kept ==
      \A k \in DOMAIN trend :
        trend[k].init /\ (k \notin DOMAIN trend' \/ ~trend'[k].init)
          => now - trend[k].lastTime > Expire[ExpireOf]
<1>1. TypeInv /\ [Next]_vars => [Kept]_vars
  <2> SUFFICES ASSUME TypeInv, Next PROVE Kept
    OBVIOUS
  <2> SUFFICES ASSUME NEW k \in DOMAIN trend, trend[k].init, k \notin DOMAIN trend' \/ ~trend'[k].init
               PROVE  now - trend[k].lastTime > Expire[ExpireOf]
    OBVIOUS
  <2>1. now \in Nat /\ trend[k].lastTime \in 0..now
    BY Now DEF TypeInv, Recorded
  <2>2. trend' # trend
    OBVIOUS
  <2>3. CASE TakeOver
    <3>1. k \notin ClearExpiredData
      BY <2>3 DEF TakeOver
    <3> QED
      BY <2>1, <3>1, Assumed DEF ClearExpiredData
  <2>4. ASSUME NEW p \in Packages, NEW x \in check[p].todo, Forecast(p, x)
        PROVE  now - trend[k].lastTime > Expire[ExpireOf]
    <3> DEFINE meta == Meta(KeyOf(x))
    <3>1. /\ ~(x.time < meta.lastTime) /\ Since(x.time, meta) > Expire[ExpireOf]
          /\ trend' = WithMeta(KeyOf(x), NoMeta)
      BY <2>2, <2>4, Zenon DEF Forecast, ForecastWith
    <3>2. k = KeyOf(x) /\ meta = trend[k]
      BY <3>1 DEF WithMeta, Meta
    <3>3. x.time \in 1..now
      BY DEF TypeInv, Checking, Judged
    <3> DEFINE d == x.time - trend[k].lastTime
    <3>4. d \in Nat /\ d <= now - trend[k].lastTime
      BY <2>1, <3>1, <3>2, <3>3
    <3>5. d % TimeWidth > Expire[ExpireOf]
      BY <3>1, <3>2 DEF Since
    <3> HIDE DEF d
    <3>6. d % TimeWidth \in Nat /\ d % TimeWidth <= d
      <4>1. TimeWidth \in Nat \ {0}
        BY Assumed
      <4> QED
        BY <3>4, <4>1, Remainder
    <3> QED
      BY <2>1, <3>4, <3>5, <3>6, Assumed
  <2>5. ASSUME NEW p \in Packages, NEW x \in check[p].item, Feed(p, x)
        PROVE  now - trend[k].lastTime > Expire[ExpireOf]
    <3>1. \E m : m.init /\ trend' = WithMeta(KeyOf(x), m)
      BY <2>5 DEF Feed, FeedWith
    <3> QED
      BY <3>1 DEF WithMeta
  <2> QED
    BY <2>2, <2>3, <2>4, <2>5 DEF Next, Tick, SetFactors, SetAutoExpireTimeUs, NextRound,
      Retrieve, CheckNothing, Check, CheckWith, Content
<1> QED
  BY <1>1, TypeInvariant, PTL DEF Spec, OnlyOldHistoryIsDropped
=============================================================================
