# RedAlert in TLA+

Specifications of RedAlert's own logic, the TLC runs that check them on small
instances and the TLAPS proofs that hold for every instance. Paths without a
leading directory are under `src/RAServer/ra/`; paths that begin with `RAWeb/`
or `RAServer/` are under `src/`.

RedAlert is two programs. **RAServer** is a C++ daemon that, on each of several
machines, fetches metrics, checks the policies assigned to that machine and sends
alarms. **RAWeb** is a Python service in which people edit policies; it makes
versions of the configuration, stores them and tells the servers to load them.

Contents: [Inventory](#inventory) · [Modules and code](#modules-and-code) ·
[Runs](#runs) · [Proofs](#proofs) · [Disagreements found](#disagreements-found) ·
[Limits](#limits) · [Plan](#plan)

## Inventory

What each part keeps, does and must get right. The status of each, and every
hazard with its line, is in `PROJECT.json`.

| Part | State | Operations | What is hard, and what must hold |
|---|---|---|---|
| Thread pool (`util/ThreadPool`) | queue, `_running`, mutex, two condition variables, threads | `start`, `stop`, `push`, `threadEntry`, destructor | lost wake-ups, stop with dummy items among real ones, threads that run before `start` is done. An accepted item is handled once, in order, or freed; stop returns |
| Main loop (`app/RaApp`) | the package map, the configuration in use | `run`, `checkLastAlarmTime`, `loadConfig`, `init`, `stop` | reads a package's state twice without a lock, works with the time a pass began with, waits for full queues |
| Process package (`tree/ProcessPackage`) | `_state`, last retrieve time, time of the last alarm, data | `isReady`, setters under a mutex, data handed out by reference after the mutex is released | the state alone keeps two threads from one package: at most one may have it |
| Fetcher stage (`process/Fetcher*`) | pool, time of its own last alarm | `pushProcessPackage`, `retrieveMetrics`, OK code of the internal alarm | the internal OK code is pushed in place of a package; time stamps without a lock |
| Checker stage (`process/Checker*`) | pool, mutex held across the push | `pushProcessPackage`, `process` | fetchers queue behind one that waits for room |
| Alarm stage (`alarm/*`) | pool, records of the last alarms, mutex held across the push | `pushAlarmMessage`, expiry of records, delivery to groups, `~AlarmMsg` | three kinds of thread push; the last reference to a message makes the package IDLE; a partial delivery; restraint must outlive the clearing of records |
| Tree manager (`tree/TreeManager`) | tree version and hash, the map it serves | the tree thread's work loop | builds new packages from old ones other threads still use; asks twice for the configuration; failures of the sources |
| Configuration of a server (`config/ConfigDownloader`, `util/ConfigUtil`, `service/LoadConfigHandler`) | versions in the local root, the version in use | `/api/load`: download and load; start-up | crashes between move and load, versions named out of order, copying what is being written. A server uses the newest good version and never goes back |
| RAWeb storage (`RAWeb/raweb/storage.py`) | version directories, the store | `deployNewVersion`, `upload` | the lock is made per request and locks nothing; uploads of one version meet |
| RAWeb administration (`RAWeb/raweb/ra_admin_views.py`) | the requests under way | deploy, reload, heartbeat, `sendHttpRequest` | servers that fail, die or are slow; a retry is left to the heartbeat |
| RAWeb node table (`RAWeb/raweb/heart_beats.py`, `main.py`) | the nodes and when each was heard of, the session of the table `RedAlert` | heartbeat, liveness thread, `dumpsRedAlert` | check-then-add by several threads; one session shared by all dumps, which lock, fail and replace each other; the liveness thread dies of an exception. The table shows who is alive, by ids that are never reused; who stops is found out |
| RAWeb tables (`RAWeb/raweb/load_raweb_json.py`, `conf_views.py`, `models.py`) | policies, shields, sources | edit, deploy, recover | edits of several authors; check-then-act on the modification time; a deploy commits table by table |
| Assignment (`config/RedAlertConfig`, `util/ConsistentHash`) | the ring of services | which server checks a policy | pure, worked out by each server alone: one server for each policy |
| Policy checkers (`process/PolicyChecker`, `*PolicyChecker`) | what is abnormal, invalid or missing in one check | check, text of the alarm | five kinds, three types; series that lack values or are missing; shields that overlap and end meanwhile. An alarm names what is wrong and not shielded |
| Totals and trends (`process/NormalizedMetricData`, `TrendData`) | smoothed value, trend, last time | sample, total, forecast, feed, expire | series that end at different times; late samples, unsigned times; two packages of one policy on one history |
| Metric tree and its patterns (`tree/MetricTree`) | tree of metrics | insert, match, merge, subtree, hash | pure, string patterns |

How they interact. The main loop hands a package to the fetcher pool, a fetcher
thread hands it to the checker pool, a checker thread that finds a violation puts
a message into the alarm pool; the main loop puts OK codes there itself. The tree
thread replaces the map the main loop takes at the start of each pass. The event
loop of the HTTP server handles `/api/load` and replaces the configuration the tree
thread will see. RAWeb's request threads write the store and call the servers; a
server's heartbeat makes RAWeb call it again when the versions differ. RAWeb's list
of nodes becomes the table `RedAlert`, each version of the configuration has a copy,
and by that copy each server decides which policies are its own.

## Modules and code

A critical section, or what a thread does between two accesses to state others
can see, is one action. A blocking `push` is an action that waits for room, and if
the code holds a mutex there, the mutex is a variable that stays taken meanwhile.

| Module | Models | How state and actions correspond |
|---|---|---|
| `HandOff` | what a pool promises (abstract) | a bounded FIFO queue: accepted, taken by one worker, finished, or dropped when the pool goes |
| `ThreadPool` | `util/ThreadPool.cpp` | `queue`, `running`; `waitEmpty`/`waitFull` are the threads in `pthread_cond_wait`; one action per critical section, and one for each access to `_running`, which has none. Refines `HandOff` |
| `Pipeline` | main loop, packages, fetchers, checkers, alarm threads | `mpc`, `fpc`, `cpc`, `sending` are the threads' steps; `fetchQ`, `checkQ`, `alarmQ` the pools, as `HandOff` has them; `cmLock`, `amLock` the two mutexes held across a push; `msgRefs` who holds a reference to a package's `AlarmMsg` (`DropRef` is its destructor); `BeginPush`/`EndPush` the two halves of `pushAlarmMessage`, used by three kinds of thread; the clock `now` counts ticks, `Sec` turns them into seconds where the code does. `showing` and `lastAccepted` are history |
| `TreeReload` | `tree/TreeManager.cpp` with the main loop and the pools that use its packages | a package is `<<version, policy>>`, since a version is built once; `tpc` is the step in `doWorkLoop`; the main loop's `left` is the map it took; the pools are reduced to three steps (work, alarm delivered, OK code delivered) that `Pipeline` has in full. `trend` says whose trend data a package uses |
| `ConfigLoad` | one server's `/api/load` and start-up, for many servers | `local` is the local root (a version can be loaded or not), `app` the version of `_configWrapper`, `hpc` the step of the request in the event loop, `temp` the temporary directory of the download. The store may change arbitrarily, even to a plain file where a directory was, and a request may name any version |
| `ConfigDelivery` | RAWeb's `storage.py` and the deploy, reload and heartbeat requests, composed with `ConfigLoad` | `dirs` are the version directories, `store` the uploaded ones (without file, torn, full, or a plain file of that name), `onto` which requests have the same file open; a request is a record with its step, its version and the servers it has still to call. A call is `Receive` of the server, an answer its `Respond`, a dead server a call that fails |
| `Assignment` | `RedAlertConfig`, `ConsistentHash`, the choice in `ConfigWrapper::loadConfig` | operators over a table; the two hash functions are parameters |
| `WebNodes` | `heart_beats.py`, the heartbeat handler, `main.checkNode`, the version a dump makes; uses `Assignment` | `aliveList` is the list, a node's id its place; `thread` has each request thread's step and locals, and those of the liveness thread `Checker`; `pending` and `broken` are the shared session, `tx` the transaction that has SQLite's write lock, `table` what is committed and `newest` the copy in the newest version. `Fail` is SQLAlchemy's exception, `Collect` the end of a session nobody refers to any more. `spoiled` is history |
| `Totals` | `NormalizedMetricData` | operators over sets of series, with a recursive function for the cursor that goes through a series |
| `PolicyCheck` | `retrieveMetrics`, `PolicyChecker` and its five kinds, `TrendData`, `getAlarmMsgContent`; uses `Totals` | `data` is `_metricDataRoots` of each of two packages of one policy, `check` the `PolicyChecker` while it works, `trend` the `TrendData` both share, `report` what the last alarm says. `StringToIP` is a parameter: an address for each host's name, or 0. A trend is judged and fed in steps of its own, as its lock is taken twice for each item, and a reload clears the history, sets the factors and sets the expiry in three; everything else a checker does is one step |

The environment's choices are explicit: data sources answer or fail, a check
finds a violation or does not, groups acknowledge or the delivery stops at any of
them, the store's disk fails, servers die and restart, SQLite's file is locked by
others for too long.

## Runs

Each run ends inside five minutes with two workers. Deadlock is checked except
where the system really stops: a pool that was destroyed and producers that have
pushed all they will. Each property has a mutant, a plausible mistake in the
modelled code that makes it fail under the same configuration.

| Run | Shows |
|---|---|
| `threadpool` | Two workers, two producers of two items each, two slots. Items are in one place at a time, wake-ups are not lost, the pool implements `HandOff`, stop returns, and what was accepted is handled or freed |
| `pipeline` | Two policies, two fetchers, one checker and one alarm thread, queues of one slot for checker and alarm. One owner per package, references counted, one message per package; nothing deadlocks, though two mutexes are held across pushes into full queues; and with fair threads a package that was taken up becomes IDLE again and the main loop comes round |
| `pipeline_time` | One policy over four seconds of two ticks: fetch intervals, alarm restraint and OK codes |
| `pipeline_stuck` | *violated*: a package whose turn comes with the internal alarm's OK code stays PROCESSING with nobody to end it |
| `tree` | Two configurations, the second without one of two policies, sources that fail and answer an empty tree: the main loop sees the packages of one configuration, ever newer ones, trend data and owed OK codes are taken over, and a new configuration is always taken up |
| `tree_interval` | *violated*: without a new configuration the sources are never asked again |
| `delivery` | Two overlapping requests, two versions, two servers, one crash: who waits for an answer is the only one, versions are made once, servers use the newest version they have unless it is broken, and never go back |
| `delivery_live` | Two request threads call the same two servers, at any time and as often as they like, under fairness: every request ends, although a server answers one at a time and the other request waits in line; and once no new version is made and requests no longer overlap, every server comes to use the newest version, through a crash, failed downloads and what uploads that met have left behind |
| `delivery_broken` | *violated*: a broken copy is never replaced |
| `nodes` | Two servers, one request thread and the liveness thread; a server stops, dumps run into each other and fail. Rows name nodes by their own address, what is committed gets into a version, an undisturbed dump shows who is alive, every policy has one server, and a server that stops is found out |
| `checks` | One policy of each kind and type over two metrics of two hosts known by address and two known by name only, with series that end at different times, lack values, are empty, missing or come twice, two overlapping shields, and a reload while a trend is checked, which changes the factors and the expiry. The code's assertions hold, totals count each point once, alarms say what is wrong at each address and not shielded, no recent history is dropped |
| `checks_sources` | *violated*: of a policy whose metrics come from two sources, only the last source's answer is checked |

### Bounds, and why they are enough

- *Threads and queues.* Two workers and two producers are the least with which a
  wake-up can reach the wrong sleeper and stop can leave a dummy behind. `Capacity`
  is the code's maximum of its argument and the number of threads, so a pool of two
  has two slots. In `pipeline` the checker and alarm queues have one slot, so that
  both mutexes are held across a full queue while a second fetcher and the main loop
  want them; two policies are the least with which one thread waits for another's.
- *Clock.* `Start` lies after `RecordExpire`, as the epoch does. In `pipeline_time`
  an interval is two ticks and a restraint two seconds over four, so that a restraint
  ends, a record expires and is cleared, and a fetch starts half a second late.
  `RecordExpire` is 2 s (86400 in the code) and is not below a minimal alarm interval.
- *Configurations.* `MaxVersion` 2 has an older version to go back to. `MaxDeploys`
  2 lets two requests choose the same number; further requests reload what there is
  without bound. `MaxCrashes` 1 may come at every step; a second crash meets the
  same state, because only `local` survives.
- `delivery_live` has a version delivered before (`MaxAtFirst` 1) and one deploy, so that
  the two requests meet with both making and sending, and a server has an older version
  to leave. `ServersConverge` is about what comes after requests have stopped
  overlapping, as two that go on uploading one version may disturb each other without
  end; but what they have left behind before stays, and two things do so for good: a broken copy
  (`delivery_broken`) and a plain file in a version's place (the tenth disagreement
  below). The property fails without either exception. `delivery_broken` needs one
  server and one version only. The safety properties are proved without these bounds.
- *Nodes.* Two dumps at once, of a request and of the liveness thread, are enough for
  every way to disturb one: the session is replaced before, between and after its
  SQL, its rows are added to the other's session, its lock is in the other's hands.
  `MaxNodes` 2 and `MaxDeaths` 1 have a server come, die and be missed by the other;
  two nodes of one address need a second request thread and are covered by the
  theorems, which have any number. `Silence` 0 means that a node is missed after one
  tick. `ForeignLocks` lets deploys of other tables hold SQLite's lock. The ring in
  `MCWebNodes` has a key two services want, the key 0, and metrics that hash to a
  key, between keys and above them all.
- *Checks.* Time goes from 6 to 8, in ticks of half a second (`Second` 2): a history
  (`Expire` 2 ticks, 1 after a reload) becomes too old, and both shields end in turn. Answers hold samples up
  to five ticks old, so a later answer may be older than what the trend has. Values
  are multiples of 12, whose means and sums over up to four are whole; `TimeWidth` 64
  stands for the 64 bits of a time, so that an unsigned difference wraps to a number
  far above any interval. Only a trend has state that outlives its package, so
  `ReloadedKinds` has reloads for that kind alone. `checks_sources` needs no time to
  pass. The factors are 1, the trend's 0 after a reload (the modules allow 0 and 1):
  other ones change numbers, not steps. Two hosts known by name are the least that
  share host 0, one of them beyond the bounds while the other is within.
- *Late threads.* With `LateThreads` TRUE a new thread first runs after `start` has
  set `_running`, which is what a run of the program nearly always does. With FALSE it
  may run earlier and leave (see the fifth disagreement below); the three invariants
  and the refinement are proved for both, the rest is checked for TRUE only, as a pool all of whose
  threads have left handles nothing.

### Fairness

- *Pool threads* are scheduled (WF). A thread queuing for a mutex that others take
  repeatedly gets it (SF on `FetcherMakeItem`, `FetcherAlarm`, `CheckerAlarm`, the
  main loop's pushes): the holder releases the
  mutex after one push, and the kernel wakes those that wait for it in turn; with WF
  alone a fetcher could lose every race. A producer asleep on
  `_full` is woken at every pop (SF on `PushAccepted`).
- *Tree thread*: WF on its steps; the sources do not fail for ever (SF on
  `GetMetricTree`). Nothing is assumed about how often they fail.
- *Delivery*: request threads run, and one that waits in line at a server gets its
  turn (SF); servers handle what they received and are started again (WF); a disk, or a
  transfer, does not fail for ever (`<>[][~ServeFails(s)]_vars`: nothing is said of how
  often it fails before); a heartbeat reports again every 15 seconds as long as the
  version differs (SF on `Heartbeat`: `service/HeartbeatClient.cpp`'s loop thread never
  ends).
- *Nodes*: time passes, request threads and the liveness thread run, replaced
  sessions are collected (WF; SQL that finds the lock taken fails after SQLite's
  timeout, so no thread waits for ever), and a server that runs finds an idle request
  thread for its heartbeat again and again (SF).

## Proofs

Checked by `tlapm`; they hold for any number of threads, packages, servers,
versions and requests. They assume what the modules' named `ASSUME`s say of the
constants (positive sizes, disjoint thread sets, a well-typed configuration, hashes that are
natural numbers, finitely many keys per service), which
TLC evaluates in the runs. Of the data sources they assume that an answer is finitely
many series, of any number of points, the oldest first, and of the shields that their
rows are finitely many. Of host names nothing is assumed: any number of them may be no
addresses, or the same one.

| Theorem | States |
|---|---|
| `ThreadPoolProofs!TypeCorrect`, `NobodySleepsThroughWork`, `ItemsCorrect` | types and the queue's bound; nobody sleeps on a condition that holds; an accepted item is in exactly one place |
| `ThreadPoolProofs!PoolHandsOff` | the pool implements `HandOff`: what is accepted is taken once, in order, or dropped at the end |
| `PipelineProofs!TypeCorrect` | `Spec => []TypeOK` |
| `PipelineProofs!CustodyHolds`, `Exclusion`, `ReferencesAreCounted`, `MessagesDoNotOvertake` | `Custody` and its three parts are invariants of the pipeline |
| `PipelineProofs!Pacing` | fetches of a policy are at least its interval apart |
| `PipelineProofs!Spacing` | alarms of a policy are at least its minimal interval apart, *if* no interval exceeds the life of a record (86400 s): the configuration does not enforce it |
| `PipelineProofs!OkCodesStop` | an OK code is owed only while a group shows an alarm |
| `ConfigLoadProofs!NewestIsUsed`, `NotBack`, `LocalStays` | a server uses the newest version it has unless that is broken, never goes back, never loses one, whatever happens to the store and whatever it is asked for |
| `DeliveryProofs!TypeCorrect`, `OneCallerOnly` | types; an answer reaches the one request that waits for it |
| `DeliveryProofs!NeverRewritten` | a version is made by one request and not touched once complete |
| `DeliveryProofs!DeliveryIsLoad`, `ServersWhileDelivering` | RAWeb with its servers implements `ConfigLoad`'s specification, so the three properties of the servers hold while RAWeb delivers |
| `TreeProofs!TypeCorrect`, `OneConfig`, `VersionsGrow` | types; what is served is one configuration's packages, and ever newer ones |
| `TreeProofs!OkCodeSurvives`, `TrendKept` | owed OK codes and trend data pass from a package to its successor |
| `NodesProofs!TypeCorrect`, `RowsCorrect`, `NewestCorrect` | types; a row names a node by its own address; what is committed gets into the newest version |
| `NodesProofs!TableCorrect` | an undisturbed dump shows who is alive |
| `NodesProofs!PoliciesCorrect` | each policy is checked by one server of a version whose table names none twice |
| `CheckProofs!TypeCorrect`, `NoAssertionFails` | types; the assertions of the checkers, among them that a total of series that have values has one |
| `CheckProofs!NoPointIsLost` | each point of each series is in a total once, however the series lie to each other |
| `CheckProofs!AlarmsSayWhatIsWrong` | an alarm names nothing that is shielded, leaves no address, metric or total out that has no valid data, and, of a threshold on single hosts, names an address only for a series that is wrong there, and always if all are |
| `CheckProofs!HistoryIsKept` | the history of a trend is dropped only when it is too old, by two packages in any order |

**Custody.** That at most one thread has a package is not inductive by itself. A
package becomes IDLE when the last reference to its message goes, so one needs that
references are exactly those of the threads and queues that have to do with it
(`RefsCounted`); and a *set* of holders counts right only while each kind of holder
is there once (`OneMessage`). The conjunction `Custody` is inductive relative to
`TypeOK`; `CustodyStep` has a case for each action.

**Times.** `FetchTimes` says, for each place a package passes on its way to the
stamp, that its next fetch was due before the time that place has: the pass's, the
clock's, the fetcher's own. A stamp disturbs nobody else's because of exclusion.
`RecordsTell` says that a kept record is the time of the last alarm, and that where
none is kept the last alarm is older than a record may get. `LastShows` says more than
`OkOnlyWhileShowing`: groups are told in order, so it is the *last* group that still
shows the alarm.

**Servers.** `LoadInv` adds to `NewestUnlessBroken` what makes it inductive: what
is in use can be loaded (`InUseIsGood`), what is being downloaded is above
every local version (`DownloadIsNewer`, which is why a move overwrites nothing), and
between the move and the load a server may lag (`NewestInUse`). It needs that a
non-empty set of versions has a maximum, which is proved from the well-foundedness of
`<` (`LeastNatural`, `HighestVersion`).

**Delivery.** `WebInv` says that versions are numbered without gaps, that the
number a request got is at most one above the highest, and that whoever opens or
fills a version's file is the only one (`OneMaker`). So the step that makes a
directory is the only place where two deploys with the same number meet, and mkdir
lets one through. `NextIsLoadNext` maps every step to one of `ConfigLoad` or a stutter.

**Pool.** `TypeInv` bounds the queue also while `stop` adds its dummies. That an item
is in one place is a statement about the number of its places; the invariant
`InPlaces` says the same without counting: what is in the queue is there once and
nowhere else, and so on for each kind of place. `OnePlace` gets the number back.

**Tree.** `Order` says how the version the thread has taken, the one it has noted and
the one in use stand to each other at each step, and that what is served is all of one
version (`Whole`). `Heirs` says of each package under construction that it has its
predecessor's history, and of each package whose OK code is owed where the debt is:
with it, with a copy not yet served, or with a policy that is `missed`.

**Nodes.** The list only grows and a node keeps its place and address (`ListStep`), so
`AllNameNodes` says of a row, wherever it is on its way (a thread's locals, the session,
a transaction, the table, the version), that it names its node. `TableInv` follows one
dump that has met no other (`DumpOK`): at each of its steps the session and the
transaction are its own and hold what it has done so far, and what it has selected is
still who is alive, or another dump is about to begin. For the policies, `OneOwner` says
that among rows with distinct addresses and services, of which one has a key
above 0, the ring gives each metric one row; `RowsCorrect` makes the services distinct.

**Hand-off.** The mapping takes the real items out of the queue and leaves `stop`'s
dummies behind; `RealItems` does that with a recursive function, and lemmas say how it
goes with what is appended, popped and left (`RealItemsAppend`, `RealItemsTail`,
`RealItemsDummies`). `HandOff` sees an item only in the step that accepts, takes,
finishes or drops it; all others are stutters. That an accepted item has not been seen
before comes from `InPlaces`.

**Induction over data.** The library states induction with an operator as parameter,
which cannot be instantiated here. `Induction` states the same with a *set* of numbers
in its place (`UpTo`, from the least number there is), and builds on it what the others
need: a function defined step by step exists (`Recursion`), a finite set can be gone
through one by one (`OneByOne`), has extremes (`Extremes`), and has a sum that lies
between the bounds of its terms (`SumBetween`, of the community modules' fold).

**Checks.** `Cursor` is the heart of the totals: after a sample, the cursor that goes
through a series has passed exactly the points not after it. As the parts end in order
(`Samples`), the last where the last series ends, every point is in the first part that does not
end before it, and in that only (`EachPointHasAPart`); so one valid point makes the
total valid (`TotalIsTyped`), and a time, being a mean, lies between those it is the
mean of (`MeanBetween`). The properties themselves need to know where things come from: `TypeInv`
adds to `TypeOK` that what was fetched is finite sets of series, `Judgement` that a checker's
findings are those of what was fetched, `Reported` that a message is these
findings without what is shielded. Of several series of a metric at one address only the
first counts (`Added`). Hosts known by name all have the address 0, so the property
speaks of addresses: one whose only series, or all of whose series, are wrong is named,
and none is named at which all are right; that one wrong series beside a right one is
named is not true of the code (the ninth disagreement below).

**Only model-checked**: the liveness properties, since fairness and ENABLED are beyond
the prover: `StopTerminates`, `QueuedItemsAreHandled`, `CustodyEnds`, `MainComesRound`,
`NewConfigIsTakenUp`, `RequestsEnd`, `ServersConverge`, `StoppedAreFound`. Every other
property of the runs is a theorem. The findings are counterexamples of TLC.

## Disagreements found

With a run:

1. `process/FetcherManager.cpp:114` returns success for a package it has not
   queued when the internal alarm's OK code is due; the package stays PROCESSING and
   its policy is never checked again (`pipeline_stuck`).
2. `tree/TreeManager.cpp:110` reads the clock once for all rounds, so
   `reloadTreeIntervalSec` has no effect after the first (`tree_interval`).
3. `config/ConfigDownloader.cpp:50` compares versions by number only, so a broken
   copy, taken while the version was uploaded again, is never replaced by the reload
   that `RAWeb/README.md:140` advises (`delivery_broken`).
4. `process/FetcherManager.cpp:204` swaps each source's answer into the root of its time
   range, over the answer of the source before: a policy whose metrics come from several
   sources is checked by the last one's only (`checks_sources`).

Met while modelling, without a run of their own:

5. `util/ThreadPool.cpp:74` sets `_running` after the threads are made; a thread that
   tests it first (line 53) leaves, and the pool has fewer threads than
   `RAServer/docs/ra-config.md:8` says. `ThreadPool` with
   `LateThreads = FALSE` has these behaviours: nothing is lost or handled twice, but if
   all threads leave, items wait until the pool is destroyed.
6. `RAWeb/raweb/ra_admin_views.py:56` stops at the first server that does not answer
   200; `RAWeb/README.md:140` promises that all are told. Heartbeats make up for it
   (`delivery_live`).
7. A policy that matches no metric has no data source and gets no roots
   (`process/FetcherManager.cpp:179`), so `PolicyChecker::check` returns at line 60
   and `":has no matched metric"` (line 294) is never said, although the tests of the
   checkers, which give them roots, expect it (`CheckNothing`).
8. A dump that runs into another, or fails, can leave a node that is alive out of the table; its
   heartbeats do not repair that, as nothing is written for a node whose status has
   not changed. It lasts until some node comes or goes (`spoiled` in `TableIsCurrent`).
9. `process/PolicyChecker.cpp:233` ignores that `Util::StringToIP` fails, as it does for
   host names such as an RRD directory's: all such hosts are host 0. Of their series of
   a metric only the first is kept (`process/NormalizedMetricData.cpp:21`), so another that
   is beyond the threshold goes unreported, a total has one of them, an availability
   policy counts them as one, and a filter or shield of host 0 has them all. No document
   says that hosts must be addresses (`Addressed`, `ReportsWhatIsWrong`).
10. An upload that finds its directory removed by another one leaves a plain file under
   the version's name (`shutil.copy`, `RAWeb/raweb/storage.py:35`) and reports success. Servers
   refuse it (`config/ConfigDownloader.cpp:45`), and later uploads of that version fail at
   `rmtree` (line 33) for good; only a new version helps (`UploadOpensName`, the second
   exception of `ServersConverge`).

## Limits

- *Thread pool*: a failing `pthread_create`, and a producer asleep when the pool is
  destroyed, are left out.
- *Pipeline*: the set of packages is fixed (`TreeReload` is about its change), the
  managers are started; what a policy makes of data is a choice (`PolicyCheck` is about
  that); error paths no caller can reach are left out. Mail and ucmt delivery leave the
  package alone and are one step. The alarm's record is made before its delivery
  (`alarm/AlarmManager.cpp:108`), so an alarm that could not be sent restrains the next
  ones: modelled, and no document says otherwise.
- *TreeReload* begins after `start()` has returned; the tree thread's internal
  alarms are not modelled. `tree/MetricTree.cpp:97` hashes names only, so that a metric
  that moves to another source leaves the hash as it was; a tree is its hash here.
- *ConfigLoad*: a local version is one that loads or one that does not; a plain file
  that was copied in a directory's place is of the second kind, though a restarted
  server would not take it for a version at all.
- *ConfigDelivery*: RAWeb does not die, its node table has all servers, and its
  tables do not change while they are copied. A torn file is copied as broken, or as
  good if it is completed in time. `rmtree` looks for the file and removes it in one step.
- *WebNodes*: the addresses of the table are those RAWeb has seen, as the servers
  know themselves by them; uploads and calls are in `ConfigDelivery`; copying the tables
  is one step, so a copy torn by a commit is not seen. A ring whose only key is 0
  makes `getService` find nothing, which `PoliciesHaveServers` leaves out.
- *PolicyCheck*: whole numbers, so nothing is said of rounding; the text of an alarm is
  the set of what it names; time ranges and mail are left out. A reload changes the
  configuration's factors and the fetch interval's expiry, not the policy's rules.

Not modelled, and why:

- *Edits, deploy and recover of RAWeb's tables* (`load_raweb_json.py`, `conf_views.py`).
  What these do by each line is check-then-act on a modification time of one second's
  grain, commits table by table, and rows deleted by author; the lost updates this
  allows are SQL's to define, and no document says what should happen instead.
- *Metric tree* (`tree/MetricTree`): string patterns over a tree, without state of its
  own that threads share; `TreeReload` has its version and hash.
- *Parsing* (`config/PolicyConfig`, `DataSourceConfig`, `TimeRange`, JSON, SQLite):
  formats; that a file loads or does not is a choice in `ConfigLoad`.
- *Start-up and shutdown of `RaApp`*: a straight line at the start; at the end producers
  may be asleep in a pool that is destroyed, which is undefined behaviour at the
  end of the process.
- *HTTP, mail, pages, file helpers*: I/O around libraries.
- *Plugins of RAServer* (`RAServer/contrib`): the fetchers for Graphite and RRD, which
  turn answers of these systems into series, and the local file system, of which the
  copy of a directory is in `ConfigLoad` and the rest is file access.
- *Vendored code*: `RAServer/deps` and, under `RAWeb`, `uwsgi`, `simplejson`,
  `sqlalchemy` and `werkzeug` are other projects' and make up most of the repository's
  lines.

## Plan

Done, in this order: `ThreadPool` refining `HandOff`; `Pipeline`; `TreeReload`;
`ConfigLoad` and `ConfigDelivery`; `Assignment` and `WebNodes`; `Totals` and
`PolicyCheck`; and proofs beside each.

Worth adding, the most important first:

1. `AuxTables`: edits of several authors against deploy and recover, once it is decided
   what a deploy promises its author.
2. `Cluster`: `WebNodes` with `ConfigDelivery`, whose list of servers is then the
   table's, so that a policy's change of server can be followed to both servers.
3. The metric tree's pattern match and subtree, as functions beside a reference definition.
4. `Shutdown`: `RaApp::stop` against producers asleep in a pool's push.
