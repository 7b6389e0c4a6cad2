------------------------------- MODULE Totals -------------------------------
(***************************************************************************)
(* What NormalizedMetricData makes of the series a data source answers:    *)
(* one value and time per series, and the total of several series, whose   *)
(* points lie at different times.  The span of the series is divided into  *)
(* as many parts as the longest has points, but none shorter than a        *)
(* second; a series counts in each with the mean of its points there.      *)
(*                                                                         *)
(* A series has the fields times and values, sequences of the same length, *)
(* times in order.  Values are integers, to be chosen so that means come   *)
(* out whole.                                                              *)
(***************************************************************************)
EXTENDS Integers, Sequences, FiniteSets, FiniteSetsExt

CONSTANTS Invalid,  \* INVALID_METRIC_DATA
          Second    \* MICROSECONDS

ASSUME TotalsAssumption == Invalid \notin Int /\ Second \in Nat \ {0}

Mean(values, places) ==
  IF places = {} THEN Invalid
  ELSE MapThenSumSet(LAMBDA i : values[i], places) \div Cardinality(places)
Valid(values, places) == {i \in places : values[i] # Invalid}

GetValue(values) == Mean(values, Valid(values, DOMAIN values))
GetTime(times) == MapThenSumSet(LAMBDA i : times[i], DOMAIN times) \div Len(times)

FirstTime(S) == Min({s.times[1] : s \in S})
LastTime(S) == Max({s.times[Len(s.times)] : s \in S})
PointCount(S) ==
  LET longest == Max({Len(s.times) : s \in S})
      seconds == (LastTime(S) - FirstTime(S)) \div Second IN
  IF longest > seconds THEN Max({1, seconds}) ELSE longest

\* Mutant: what the division leaves over is cut off.
SampleTimesUneven(from, to, n) == [i \in 1..n |-> from + i * ((to - from) \div n)]
SampleTimes(from, to, n) ==
  [i \in 1..n |-> IF i = n THEN to ELSE from + i * ((to - from) \div n)]
TimesOf(S) == SampleTimes(FirstTime(S), LastTime(S), PointCount(S))

\* How many points of a series have been used up after each sample.
Taken(times, samples) ==
  LET upTo[i \in 0..Len(samples)] ==
        IF i = 0 THEN 0
        ELSE Max({j \in upTo[i - 1]..Len(times) :
                    \A k \in (upTo[i - 1] + 1)..j : times[k] <= samples[i]})
  IN upTo
Part(times, samples, i) == (Taken(times, samples)[i - 1] + 1)..Taken(times, samples)[i]
SampleValues(s, samples) ==
  [i \in DOMAIN samples |-> Mean(s.values, Valid(s.values, Part(s.times, samples, i)))]

TotalValues(S, samples) ==
  [i \in DOMAIN samples |->
     LET sampled == [s \in S |-> SampleValues(s, samples)[i]]
         there == {s \in S : sampled[s] # Invalid} IN
     IF there = {} THEN Invalid ELSE MapThenSumSet(LAMBDA s : sampled[s], there)]

GetTotalValue(S) ==
  [time |-> GetTime(TimesOf(S)), value |-> GetValue(TotalValues(S, TimesOf(S)))]
-----------------------------------------------------------------------------
(* Every point of every series is in the total once, in the first part     *)
(* that does not end before it.                                            *)
EachPointCounts(S) ==
  \A s \in S : \A k \in DOMAIN s.times : \E i \in DOMAIN TimesOf(S) :
    /\ k \in Part(s.times, TimesOf(S), i)
    /\ s.times[k] <= TimesOf(S)[i]
    /\ \A j \in 1..(i - 1) : TimesOf(S)[j] < s.times[k] /\ k \notin Part(s.times, TimesOf(S), j)
=============================================================================
