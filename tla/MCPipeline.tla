----------------------------- MODULE MCPipeline -----------------------------
(* Instances of Pipeline.  Two policies share a checker and an alarm       *)
(* thread; the second alarms by mail.  With two fetchers both mutexes are  *)
(* contended, and the checker and alarm queues, of one slot, make their    *)
(* producers block while they hold them.  The Time instance has one policy *)
(* and a longer clock, in which records of alarms expire.                  *)
EXTENDS Pipeline
CONSTANTS f1, f2, c1, a1
OneFetcher == {f1}
TwoFetchers == {f1, f2}
OneChecker == {c1}
OneAlarmer == {a1}
All == Package
OnlyFirst == {1}
TwoGroups == [p \in Package |-> 2]
OneGroup == [p \in Package |-> 1]
AnyOutcome == {"ok", "fail"}
Interval1 == [p \in Package |-> 1]
Interval2 == [p \in Package |-> 2]
RestrainFirstLess == [k \in Key |-> IF k = 1 THEN 1 ELSE 2]
Restrain2 == [k \in Key |-> 2]
Always == [p \in Package |-> 0..MaxTime]
\* The second policy has an effective time range with a hole.
SecondNotAlways == [p \in Package |-> IF p = 1 THEN 0..MaxTime ELSE {Start, Start + 2}]
Longest == {0}
Spread == {0, Start, Start + 2}
NothingOwed == {}
OkOwed == {2}
=============================================================================
