----------------------------- MODULE PolicyCheck -----------------------------
(***************************************************************************)
(* What is done with one policy between a fetch and the text of its alarm: *)
(* FetcherManager::retrieveMetrics gathers the series of its metrics, a    *)
(* PolicyChecker judges them, by the policy's kind, and getAlarmMsgContent *)
(* names what is wrong and not shielded.                                   *)
(*                                                                         *)
(* Policies of the kind trend compare a value with a forecast from those   *)
(* before it, which they keep in TrendData.  A reload of the metric tree   *)
(* makes a new package of the policy, which shares the TrendData of the    *)
(* old one, and the pools may have both at once.  module Pipeline has the  *)
(* threads: one at a time works on a package.                              *)
(*                                                                         *)
(* Data sources name hosts; a checker knows them by their addresses, and   *)
(* takes a name that is no address for host 0.  Host 0 also stands for a   *)
(* total over hosts, and the metric Pattern, the policy's own, for a total *)
(* over metrics.  Values are integers.                                     *)
(***************************************************************************)
EXTENDS Totals

CONSTANTS
  Metrics, Hosts,   \* what the policy's metric matches; the names of hosts
  StringToIP,       \* the address a name is, 0 for one that is none
  Specs,            \* the data sources, numbered in the order of their names
  SpecsOf,          \* the data sources that have a metric
  Pattern,
  Policies,         \* the policies to choose one from
  Shields,          \* the rows of the table shield: metrics, hosts and until when
  SmoothingFactor, TrendFactor,  \* of the configuration each package is made of
  Expire,           \* _autoExpireTimeUs, of each package's fetch interval
  TimeWidth,        \* 2^64: times are unsigned
  Start, MaxTime,   \* bounds: the time at first and at last
  ReloadedKinds     \* bound: the kinds of policies whose package is replaced

Packages == {"old", "new"}
Deviation == [value : Nat, ratio : Nat]

\* A series a data source answers: a few points, or none, the oldest first.
Answered(q, s) ==
  /\ s.metric \in q.metrics /\ s.host \in Hosts
  /\ s.ago \in Seq(0..(Start - 1)) /\ s.values \in Seq(Int \cup {Invalid})
  /\ Len(s.ago) = Len(s.values)
  /\ \A j, k \in DOMAIN s.ago : j < k => s.ago[j] >= s.ago[k]

Addresses == {0} \cup {StringToIP[h] : h \in Hosts}

ASSUME CheckAssumption ==
  /\ StringToIP \in [Hosts -> Nat] /\ Pattern \notin Metrics
  /\ Specs \subseteq Nat /\ SpecsOf \in [Metrics -> SUBSET Specs]
  /\ SmoothingFactor \in [Packages -> {0, 1}] /\ TrendFactor \in [Packages -> {0, 1}]
  /\ Expire \in [Packages -> Nat] /\ Start \in Nat \ {0} /\ MaxTime \in Nat
  /\ TimeWidth \in Nat /\ MaxTime < TimeWidth
  /\ IsFiniteSet(DOMAIN Shields) /\ \A i \in DOMAIN Shields : Shields[i].until \in Nat
  /\ \A q \in Policies :
       /\ q.kind \in {"threshold", "trend", "cycle", "singularity", "availability"}
       /\ q.type \in {"single", "host total", "metric total"}
       /\ q.kind \in {"singularity", "availability"} => q.type = "single"
       /\ q.metrics \subseteq Metrics /\ q.filtered \subseteq Metrics \X Addresses
       /\ q.up \in Int /\ q.down \in Int /\ q.asc \in Deviation /\ q.desc \in Deviation
       /\ q.cycles \in Nat /\ (q.kind = "cycle" => q.cycles > 0)
       /\ \A root \in q.answers : IsFiniteSet(root) /\ \A s \in root : Answered(q, s)

VARIABLES
  now,
  policy,   \* the one that is checked
  served,   \* whose package the main loop takes: the old one's, also while the
            \* new one is made and when it is, or the new one's
  data,     \* per package: _metricDataRoots, the present one first
  sources,  \* history: what each data source answered for the present
  check,    \* per package: the PolicyChecker, or that there is none
  trend,    \* TrendData::_data, which both packages share
  report    \* per package: what the last alarm message says, and since when

vars == <<now, policy, served, data, sources, check, trend, report>>

Key == (Metrics \cup {Pattern}) \X Addresses
KeyOf(item) == <<item.metric, item.host>>
NoMeta == [init |-> FALSE, lastTime |-> 0, lastInterval |-> 0, smoothed |-> 0, trend |-> 0]
NoCheck == [pc |-> "none", abnormal |-> {}, noValid |-> {}, missed |-> {}, todo |-> {},
            item |-> {}]
Silent == [at |-> 0, abnormal |-> {}, noValid |-> {}, missed |-> {}]

Init == /\ now = Start /\ policy \in Policies /\ served = "old"
        /\ data = [p \in Packages |-> <<>>]
        /\ sources = [p \in Packages |-> <<>>]
        /\ check = [p \in Packages |-> NoCheck]
        /\ trend = [k \in {} |-> NoMeta]
        /\ report = [p \in Packages |-> Silent]

At(p, step) == check[p].pc = step
-----------------------------------------------------------------------------
(* FetcherManager::retrieveMetrics                                         *)

PolicySpecs == UNION {SpecsOf[m] : m \in policy.metrics}
Ranges == 1..(IF policy.kind = "cycle" THEN 1 + policy.cycles ELSE 1)
Stamped(s) == [metric |-> s.metric, host |-> s.host, values |-> s.values,
               times |-> [k \in DOMAIN s.ago |-> now - s.ago[k]]]
From(spec, answer) == {Stamped(s) : s \in {t \in answer : spec \in SpecsOf[t.metric]}}

\* A source's answer replaces that of the one before it.
Retrieve(p) ==
  /\ At(p, "none") /\ (p = "new") = (served = "new")
  /\ IF PolicySpecs = {} THEN UNCHANGED <<data, sources>>
     ELSE \E answers \in [Ranges -> policy.answers] :
            /\ data' = [data EXCEPT ![p] = [i \in Ranges |-> From(Max(PolicySpecs), answers[i])]]
            /\ sources' = [sources EXCEPT ![p] = [s \in PolicySpecs |-> From(s, answers[1])]]
  /\ check' = [check EXCEPT ![p].pc = "retrieved"]
  /\ UNCHANGED <<now, policy, served, trend, report>>
-----------------------------------------------------------------------------
(* PolicyChecker::check                                                    *)

Addressed(s) == <<s.metric, StringToIP[s.host]>>
Unfiltered(root) == {s \in root : Addressed(s) \notin policy.filtered}
Usable(root) == {s \in Unfiltered(root) : GetValue(s.values) # Invalid}
NoValidData(root) == {Addressed(s) : s \in Unfiltered(root) \ Usable(root)}

Single(s) ==
  [metric |-> s.metric, host |-> StringToIP[s.host],
   time |-> GetTime(s.times), value |-> GetValue(s.values)]
Total(metric, S) ==
  [metric |-> metric, host |-> 0, time |-> GetTotalValue(S).time, value |-> GetTotalValue(S).value]

\* addMetricData: of several series of a metric at an address the first counts,
\* and all the hosts whose names are no addresses have one.
FirstOf(root, key) == CHOOSE s \in Usable(root) : Addressed(s) = key
Added(root) == {FirstOf(root, Addressed(s)) : s \in Usable(root)}
OfMetric(root, m) == {s \in Added(root) : s.metric = m}

\* The sets of series that are totalled, with the metric that stands for each.
Totalled(root) ==
  CASE policy.type = "single" -> {}
    [] policy.type = "host total" ->
         {<<m, OfMetric(root, m)>> : m \in {n \in policy.metrics : OfMetric(root, n) # {}}}
    [] policy.type = "metric total" ->
         IF Added(root) = {} THEN {} ELSE {<<Pattern, Added(root)>>}
Items(root) ==
  IF policy.type = "single" THEN {Single(s) : s \in Added(root)}
  ELSE {Total(t[1], t[2]) : t \in Totalled(root)}
Missed(root) ==
  CASE policy.type = "single" -> {}
    [] policy.type = "host total" -> {m \in policy.metrics : OfMetric(root, m) = {}}
    [] policy.type = "metric total" -> IF Added(root) = {} THEN {Pattern} ELSE {}

\* DeviationPolicyItem: a bound of 0 is none.
DiffTooMuch(current, base) ==
  LET diff == current - base
      Over(d, bound) == /\ bound # [value |-> 0, ratio |-> 0]
                        /\ bound.value = 0 \/ d >= bound.value
                        /\ bound.ratio = 0 \/ d >= bound.ratio * base IN
  (diff > 0 /\ Over(diff, policy.asc)) \/ (diff < 0 /\ Over(-diff, policy.desc))

\* The cycles before in which the same item has a value, and that value.
Known(roots, x) == {i \in 2..Len(roots) : \E y \in Items(roots[i]) : KeyOf(y) = KeyOf(x)}
ValueIn(root, x) == (CHOOSE y \in Items(root) : KeyOf(y) = KeyOf(x)).value
CycleDiffers(roots, x) ==
  LET off == {i \in Known(roots, x) : DiffTooMuch(x.value, ValueIn(roots[i], x))} IN
  Cardinality(off) > Cardinality(Known(roots, x)) \div 2

Average(S) == MapThenSumSet(LAMBDA x : x.value, S) \div Cardinality(S)

BeyondBounds(x) == x.value > policy.up \/ x.value < policy.down
FarFromAverage(items, x) == DiffTooMuch(x.value, Average(items))
TooFewHosts(items) == Cardinality(items) < policy.minHosts

Abnormal(roots) ==
  LET items == Items(roots[1])
      keys(wrong) == {KeyOf(x) : x \in wrong} IN
  CASE policy.kind = "threshold" -> keys({x \in items : BeyondBounds(x)})
    [] policy.kind = "cycle" -> keys({x \in items : CycleDiffers(roots, x)})
    [] policy.kind = "singularity" -> keys({x \in items : FarFromAverage(items, x)})
    [] policy.kind = "availability" -> IF TooFewHosts(items) THEN {<<Pattern, 0>>} ELSE {}
    [] policy.kind = "trend" -> {}

\* Nothing was fetched: the policy has no data source.
CheckNothing(p) ==
  /\ At(p, "retrieved") /\ data[p] = <<>>
  /\ check' = [check EXCEPT ![p] = NoCheck]
  /\ report' = [report EXCEPT ![p] = [Silent EXCEPT !.at = now]]
  /\ UNCHANGED <<now, policy, served, data, sources, trend>>

\* A trend is judged item by item, under its lock, the others in one go.
CheckWith(p, noValid) ==
  LET root == data[p][1]
      todo == IF policy.kind = "trend" THEN Items(root) ELSE {} IN
  /\ At(p, "retrieved") /\ data[p] # <<>>
  /\ check' = [check EXCEPT ![p] =
       [pc |-> IF todo = {} THEN "judged" ELSE "judging", abnormal |-> Abnormal(data[p]),
        noValid |-> noValid, missed |-> Missed(root), todo |-> todo, item |-> {}]]
  /\ UNCHANGED <<now, policy, served, data, sources, trend, report>>

\* Mutant: hosts without valid data are kept beside a total.
CheckWithoutClearing(p) == CheckWith(p, NoValidData(data[p][1]))
Check(p) == CheckWith(p, IF policy.type = "single" THEN NoValidData(data[p][1]) ELSE {})
-----------------------------------------------------------------------------
(* TrendData, and TrendPolicyChecker::checkValue.                          *)

\* The package whose configuration the factors, and the expiry, are of.
FactorsOf == IF served \in {"old", "cleared"} THEN "old" ELSE "new"
ExpireOf == IF served \in {"old", "cleared", "factors"} THEN "old" ELSE "new"

Meta(k) == IF k \in DOMAIN trend THEN trend[k] ELSE NoMeta
WithMeta(k, meta) == [j \in DOMAIN trend \cup {k} |-> IF j = k THEN meta ELSE trend[j]]
Since(time, meta) == (time - meta.lastTime) % TimeWidth

\* getForecastVal of item x: too old a history is reset, and no forecast made.
ForecastWith(p, x, older) ==
  LET meta == Meta(KeyOf(x))
      known == meta.init /\ meta.lastInterval # 0
      stale == known /\ ~older /\ Since(x.time, meta) > Expire[ExpireOf]
      forecast == IF older THEN meta.smoothed
                  ELSE meta.smoothed + meta.trend * (Since(x.time, meta) \div meta.lastInterval)
      wrong == known /\ ~stale /\ DiffTooMuch(x.value, forecast)  \* checkValue
  IN /\ At(p, "judging") /\ x \in check[p].todo
     /\ trend' = IF stale THEN WithMeta(KeyOf(x), NoMeta) ELSE trend
     /\ check' = [check EXCEPT ![p].pc = "feeding", ![p].todo = @ \ {x}, ![p].item = {x},
                               ![p].abnormal = IF wrong THEN @ \cup {KeyOf(x)} ELSE @]
     /\ UNCHANGED <<now, policy, served, data, sources, report>>

\* Mutant: a sample older than the last one is not told apart.
ForecastOfAnyAge(p, x) == ForecastWith(p, x, FALSE)
Forecast(p, x) == ForecastWith(p, x, x.time < Meta(KeyOf(x)).lastTime)

FeedWith(p, x, interval) ==
  LET meta == Meta(KeyOf(x))
      before == IF meta.init THEN meta.smoothed ELSE x.value
      a == SmoothingFactor[FactorsOf]
      b == TrendFactor[FactorsOf]
      smoothed == a * x.value + (1 - a) * (before + meta.trend)
  IN /\ At(p, "feeding") /\ x \in check[p].item
     /\ trend' = WithMeta(KeyOf(x),
          [init |-> TRUE, lastTime |-> x.time, lastInterval |-> interval, smoothed |-> smoothed,
           trend |-> b * (smoothed - before) + (1 - b) * meta.trend])
     /\ check' = [check EXCEPT ![p].item = {},
                               ![p].pc = IF check[p].todo = {} THEN "judged" ELSE "judging"]
     /\ UNCHANGED <<now, policy, served, data, sources, report>>

\* Mutant: the interval is taken for a signed number.
FeedSigned(p, x) == FeedWith(p, x, x.time - Meta(KeyOf(x)).lastTime)
Feed(p, x) == FeedWith(p, x, Since(x.time, Meta(KeyOf(x))))

ClearExpiredData ==
  {k \in DOMAIN trend : trend[k].init /\ now - trend[k].lastTime <= Expire[ExpireOf]}

\* TreeManager::genProcessPackages: the new package takes the history over,
\* cleared by the old expiry; then it sets the factors, and its own expiry.
TakeOver ==
  /\ policy.kind \in ReloadedKinds
  /\ served = "old" /\ served' = "cleared"
  /\ trend' = [k \in ClearExpiredData |-> trend[k]]
  /\ UNCHANGED <<now, policy, data, sources, check, report>>

SetFactors ==
  /\ served = "cleared" /\ served' = "factors"
  /\ UNCHANGED <<now, policy, data, sources, check, trend, report>>

SetAutoExpireTimeUs ==
  /\ served = "factors" /\ served' = "replaced"
  /\ UNCHANGED <<now, policy, data, sources, check, trend, report>>

\* The main loop has come round and takes the new package's map.
NextRound ==
  /\ served = "replaced" /\ served' = "new"
  /\ UNCHANGED <<now, policy, data, sources, check, trend, report>>
-----------------------------------------------------------------------------
(* getAlarmMsgContent                                                      *)

Rows(key) == {i \in DOMAIN Shields : key[1] \in Shields[i].metrics /\ key[2] \in Shields[i].hosts}
\* Mutant: the first row that matches decides.
ShieldTimeOfFirst(key) == IF Rows(key) = {} THEN 0 ELSE Shields[Min(Rows(key))].until
ShieldTime(key) == Max({0} \cup {Shields[i].until : i \in Rows(key)})
Shielded(key, time) == time < ShieldTime(key)
RemoveShielded(keys) == {k \in keys : ~Shielded(k, now)}

Content(p) ==
  LET noValid == RemoveShielded(check[p].noValid)
      missed == {m \in check[p].missed : ~Shielded(<<m, 0>>, now)}
  IN /\ At(p, "judged")
     /\ report' = [report EXCEPT ![p] =
          [at |-> now, abnormal |-> RemoveShielded(check[p].abnormal), noValid |-> noValid,
           missed |-> IF noValid = {} THEN missed ELSE {}]]
     /\ check' = [check EXCEPT ![p] = NoCheck]
     /\ UNCHANGED <<now, policy, served, data, sources, trend>>
-----------------------------------------------------------------------------
Tick == /\ now < MaxTime /\ now' = now + 1
        /\ UNCHANGED <<policy, served, data, sources, check, trend, report>>

Next ==
  \/ Tick \/ TakeOver \/ SetFactors \/ SetAutoExpireTimeUs \/ NextRound
  \/ \E p \in Packages :
       \/ Retrieve(p) \/ CheckNothing(p) \/ Check(p) \/ Content(p)
       \/ \E x \in check[p].todo : Forecast(p, x)
       \/ \E x \in check[p].item : Feed(p, x)

Spec == Init /\ [][Next]_vars
-----------------------------------------------------------------------------
TypeOK ==
  /\ now \in Start..Max({Start, MaxTime}) /\ policy \in Policies
  /\ served \in {"old", "cleared", "factors", "replaced", "new"}
  /\ \A p \in Packages :
       /\ check[p].pc \in {"none", "retrieved", "judging", "feeding", "judged"}
       /\ check[p].abnormal \cup check[p].noValid \subseteq Key
       /\ check[p].missed \subseteq Metrics \cup {Pattern}
       /\ (check[p].item # {}) = At(p, "feeding")
       /\ \A x \in check[p].todo \cup check[p].item :
            KeyOf(x) \in Key /\ x.time \in 1..now /\ x.value \in Int
       /\ report[p].at \in {0} \cup Start..now
  /\ DOMAIN trend \subseteq Key
  /\ \A k \in DOMAIN trend :
       /\ trend[k].init \in BOOLEAN /\ trend[k].lastTime \in 0..now
       /\ trend[k].lastInterval \in 0..(TimeWidth - 1)
       /\ trend[k].smoothed \in Int /\ trend[k].trend \in Int

(* The assertions of the checkers: each total has a value, an item is     *)
(* judged abnormal once, a cycle has others to be compared with, and what *)
(* an alarm says of hosts without valid data leaves no missing total out. *)
AssertionsHold ==
  \A p \in Packages :
    /\ data[p] # <<>> =>
         /\ \A i \in DOMAIN data[p] : \A x \in Items(data[p][i]) : x.value # Invalid
         /\ policy.kind = "cycle" => Len(data[p]) > 1
    /\ At(p, "feeding") => \A x \in check[p].item, y \in check[p].todo : KeyOf(x) # KeyOf(y)
    /\ At(p, "judged") /\ (\E k \in check[p].noValid : ~Shielded(k, now)) => check[p].missed = {}

(* Every point of every series that is totalled is in the total once,      *)
(* however the points of the hosts lie to each other.                      *)
EveryValueCounts ==
  \A p \in Packages : \A i \in DOMAIN data[p] : \A t \in Totalled(data[p][i]) :
    EachPointCounts(t[2])

(* What an alarm says is what was fetched: nothing in it is shielded; each *)
(* address, metric or total that has no valid data and is not shielded is  *)
(* in it; and of a threshold on single hosts, the addresses one of whose   *)
(* series is beyond it, all of them if there are several.  An address      *)
(* stands for one host, but 0, at which all are whose names are no         *)
(* addresses: that one of them is wrong, and the first is not, is not said.*)
Says(p, key) ==
  key \in report[p].abnormal \cup report[p].noValid \cup {<<m, 0>> : m \in report[p].missed}
ReportsWhatIsWrong ==
  \A p \in Packages : report[p].at > 0 /\ At(p, "none") /\ data[p] # <<>> =>
    LET fetched == {s \in data[p][1] : Addressed(s) \notin policy.filtered}
        valid(s) == \E k \in DOMAIN s.values : s.values[k] # Invalid
        beyond(s) == GetValue(s.values) \notin policy.down..policy.up
        until(k) == {Shields[i].until : i \in Rows(k)}
        open(k) == \A t \in until(k) : t <= report[p].at
    IN /\ \A k \in Key : Says(p, k) => open(k)
       /\ policy.type = "single" =>
            \A s \in fetched : ~valid(s) /\ open(Addressed(s)) => Says(p, Addressed(s))
       /\ policy.type = "host total" =>
            \A m \in policy.metrics :
              (\A s \in fetched : s.metric = m => ~valid(s)) /\ open(<<m, 0>>) => Says(p, <<m, 0>>)
       /\ policy.type = "metric total" /\ (\A s \in fetched : ~valid(s)) /\ open(<<Pattern, 0>>) =>
            Says(p, <<Pattern, 0>>)
       /\ policy.kind = "threshold" /\ policy.type = "single" =>
            \A k \in Key : LET there == {s \in fetched : Addressed(s) = k} IN
              /\ Says(p, k) => \E s \in there : ~valid(s) \/ beyond(s)
              /\ there # {} /\ open(k) /\ (\A s \in there : ~valid(s) \/ beyond(s)) => Says(p, k)

(* Nothing is forgotten of a trend before its history has become too old,  *)
(* whichever package feeds it, in whatever order its samples come, and     *)
(* however a reload changes what is too old.                               *)
OnlyOldHistoryIsDropped ==
  [][\A k \in DOMAIN trend :
       trend[k].init /\ (k \notin DOMAIN trend' \/ ~trend'[k].init)
         => now - trend[k].lastTime > Expire[ExpireOf]]_vars

(* The policy's rules are applied to what every data source answers: "It   *)
(* grabs metric data from dataSource such as graphite or ganglia, to check *)
(* whether current metric values are normal by some configurable rules."   *)
EverySourceIsChecked ==
  \A p \in Packages : data[p] # <<>> =>
    \A s \in DOMAIN sources[p] : sources[p][s] \subseteq data[p][1]
=============================================================================
