------------------------------ MODULE Pipeline ------------------------------
(***************************************************************************)
(* The checking pipeline of a RAServer daemon, from the main loop of       *)
(* RaApp::run to the delivery of alarm messages:                           *)
(*                                                                         *)
(*   main loop --> fetcher pool --> checker pool --> alarm pool            *)
(*       \______________________________________________^  (OK codes)      *)
(*                                                                         *)
(* A policy's ProcessPackage is handed from thread to thread.  Its state   *)
(* (IDLE or PROCESSING) is all that keeps the main loop from starting it   *)
(* twice; it goes back to IDLE where a fetch fails or where the last       *)
(* reference to its AlarmMsg is dropped (AlarmMsg::~AlarmMsg).             *)
(*                                                                         *)
(* Each step is what one thread does between two accesses to state other   *)
(* threads can see.  A pool is its bounded queue (module ThreadPool        *)
(* implements it): a blocking push is a step that waits for room, and a    *)
(* push made under a mutex keeps the mutex while it waits.  The set of     *)
(* packages is fixed and the managers are started (TreeManager and         *)
(* Shutdown are about the rest).                                           *)
(***************************************************************************)
EXTENDS Integers, Sequences

CONSTANTS
  N,                  \* the process packages are 1..N, in map order
  Fetchers, Checkers, Alarmers,   \* the threads of the three pools
  Main,               \* the thread that runs RaApp::run
  Nobody,             \* "no thread", the value of a free mutex
  FetchCapacity, CheckCapacity, AlarmCapacity,   \* slots of the three queues; a
                      \* pool gives its queue at least one slot per thread
  SecTicks,           \* clock ticks in a second (MICROSECONDS)
  FetchInterval,      \* of a package's policy, in seconds
  MinAlarmInterval,   \* of a package's policy and of internal alarms, seconds
  SendOkCodeInterval, \* in seconds
  InternalMinInterval,\* _interalMinAlarmInterval where it is compared with ticks
  RecordExpire,       \* ALARM_RECORD_EXPIRE_TIME_SEC
  ActiveAt,           \* the seconds in which a policy is valid and effective
  HasSpecs,           \* packages whose metric some data source provides
  Alimonitor,         \* packages whose alarm level is "alimonitor"
  Groups,             \* how many alarm groups a package's policy names
  FetchOutcomes,      \* what a data source may do: subset of {"ok", "fail"}
  FirstRetrieve,      \* what TreeManager may have set lastRetrieve to
  FirstNonOk,         \* and lastNonOk, besides Invalid: what a package inherited
  Start, MaxTime      \* the clock's first and (bound) last tick

Package == 1..N
InternalKey == 0
Key == 0..N
Thread == {Main} \cup Fetchers \cup Checkers
Code == {"OK", "CRITICAL"}
Invalid == -1         \* INVALID_TIME: equal to no time of the clock

ASSUME PipelineAssumption ==
  /\ N \in Nat \ {0}
  /\ Main \notin Fetchers \cup Checkers /\ Fetchers \cap Checkers = {}
  /\ Nobody \notin Thread
  /\ FetchCapacity \in Nat \ {0} /\ CheckCapacity \in Nat \ {0}
  /\ AlarmCapacity \in Nat \ {0}
  /\ SecTicks \in Nat \ {0}
  /\ FetchInterval \in [Package -> Nat \ {0}]
  /\ MinAlarmInterval \in [Key -> Nat]
  /\ SendOkCodeInterval \in Nat /\ InternalMinInterval \in Nat
  /\ RecordExpire \in Nat
  /\ ActiveAt \in [Package -> SUBSET Nat]
  /\ HasSpecs \subseteq Package /\ Alimonitor \subseteq Package
  /\ Groups \in [Package -> Nat \ {0}]
  /\ FetchOutcomes \subseteq {"ok", "fail"}
  /\ FirstRetrieve \subseteq Nat /\ FirstNonOk \subseteq Nat
  /\ Start \in Nat /\ MaxTime \in Nat /\ Start <= MaxTime
  /\ (Start \div SecTicks) > RecordExpire

VARIABLES
  now,                \* the clock, in ticks
  mpc, cursor, curTime,           \* the main loop: step, package, loop time
  state, lastRetrieve, lastNonOk, \* the packages' _state and times
  fetchQ, checkQ, alarmQ,         \* the queues of the pools
  fpc, fpkg, fstart,  \* fetcher threads: step, package (0: none), process()'s time
  cpc, cpkg,          \* checker threads: step, package (0: none)
  sending,            \* alarm threads: the message being sent, or NoMsg
  cmLock, amLock,     \* CheckerManager::_mutex, AlarmManager::_mutex
  msgRefs,            \* who holds a reference to a package's AlarmMsg
  lastAlarm,          \* _lastAlarmTime
  lastClear,          \* _lastClearExpiredRecordTimeSec
  internalLast        \* FetcherManager::_lastNonOkAlarmTimeSec, in ticks

\* History: what the groups acknowledged, and the accepted alarms.
VARIABLES showing,      \* groups that acknowledged an alarm and no OK code since
          lastAccepted  \* when a critical alarm of a key was last let through

mainVars  == <<mpc, cursor, curTime>>
pkgVars   == <<state, lastRetrieve, lastNonOk>>
queueVars == <<fetchQ, checkQ, alarmQ>>
fetchVars == <<fpc, fpkg, fstart>>
checkVars == <<cpc, cpkg>>
lockVars  == <<cmLock, amLock>>
alarmVars == <<lastAlarm, lastClear, lastAccepted>>
vars == <<now, mainVars, pkgVars, queueVars, fetchVars, checkVars, sending,
          lockVars, msgRefs, alarmVars, internalLast, showing>>

Sec(t) == t \div SecTicks
Msg(k, code) == [key |-> k, code |-> code]
NoMsg == Msg(Invalid, "OK")
Holder == {"main", "checker", "alarm"}

Init ==
  /\ now = Start
  /\ mpc = "sleep" /\ cursor = 1 /\ curTime = Start
  /\ state = [p \in Package |-> "IDLE"]
  /\ lastRetrieve \in [Package -> FirstRetrieve]
  /\ lastNonOk \in [Package -> FirstNonOk \cup {Invalid}]
  /\ \A p \in Package \ Alimonitor : lastNonOk[p] = Invalid
  /\ fetchQ = <<>> /\ checkQ = <<>> /\ alarmQ = <<>>
  /\ fpc = [f \in Fetchers |-> "idle"] /\ fpkg = [f \in Fetchers |-> 0]
  /\ fstart = [f \in Fetchers |-> Start]
  /\ cpc = [c \in Checkers |-> "idle"] /\ cpkg = [c \in Checkers |-> 0]
  /\ sending = [a \in Alarmers |-> NoMsg]
  /\ cmLock = Nobody /\ amLock = Nobody
  /\ msgRefs = [p \in Package |-> {}]
  /\ lastAlarm = [k \in Key |-> Invalid] /\ lastClear = 0
  /\ internalLast = Invalid
  /\ showing = [p \in Package |-> IF lastNonOk[p] = Invalid THEN {} ELSE 1..Groups[p]]
  /\ lastAccepted = [k \in Key |-> Invalid]

Tick == /\ now < MaxTime
        /\ now' = now + 1
        /\ UNCHANGED <<mainVars, pkgVars, queueVars, fetchVars, checkVars, sending,
                       lockVars, msgRefs, alarmVars, internalLast, showing>>
-----------------------------------------------------------------------------
(* AlarmManager::pushAlarmMessage, which three kinds of thread call: the   *)
(* part under _mutex up to the decision, and the blocking push into the    *)
(* alarm pool, still under _mutex.                                         *)

Expired(k) == lastAlarm[k] # Invalid /\ Sec(now) - lastAlarm[k] > RecordExpire
ClearDue == Sec(now) - lastClear > RecordExpire
\* Mutant: clearing forgets every record, not only the expired ones.
RecordsForgotten == IF ClearDue THEN [k \in Key |-> Invalid] ELSE lastAlarm

\* clearExpiredRecordTime, when it is due.
Records == IF ClearDue THEN [k \in Key |-> IF Expired(k) THEN Invalid ELSE lastAlarm[k]]
                       ELSE lastAlarm

Restrained(m) == /\ m.code # "OK"
                 /\ Records[m.key] # Invalid
                 /\ Sec(now) - Records[m.key] < MinAlarmInterval[m.key]
Recorded(m) == m.code # "OK" /\ ~Restrained(m)

\* Mutants: a restrained alarm returns with the mutex; a push ignores the
\* capacity; the first holder to let go makes the package IDLE.
BeginPushKeepsLock(t, m) ==
  /\ amLock = Nobody
  /\ lastClear' = IF ClearDue THEN Sec(now) ELSE lastClear
  /\ lastAlarm' = IF Recorded(m) THEN [Records EXCEPT ![m.key] = Sec(now)] ELSE Records
  /\ lastAccepted' = IF Recorded(m) THEN [lastAccepted EXCEPT ![m.key] = Sec(now)]
                                    ELSE lastAccepted
  /\ amLock' = t

EndPushWithoutRoom(t, m) == amLock = t /\ alarmQ' = Append(alarmQ, m) /\ amLock' = Nobody

DropRefAtOnce(p, holder) ==
  /\ msgRefs' = [msgRefs EXCEPT ![p] = @ \ {holder}]
  /\ state' = [state EXCEPT ![p] = "IDLE"]

BeginPush(t, m) ==
  /\ amLock = Nobody
  /\ lastClear' = IF ClearDue THEN Sec(now) ELSE lastClear
  /\ lastAlarm' = IF Recorded(m) THEN [Records EXCEPT ![m.key] = Sec(now)] ELSE Records
  /\ lastAccepted' = IF Recorded(m) THEN [lastAccepted EXCEPT ![m.key] = Sec(now)]
                                    ELSE lastAccepted
  /\ amLock' = IF Restrained(m) THEN Nobody ELSE t

EndPush(t, m) ==
  /\ amLock = t
  /\ Len(alarmQ) < AlarmCapacity
  /\ alarmQ' = Append(alarmQ, m)
  /\ amLock' = Nobody

\* A holder lets go of p's AlarmMsg; the last one destroys it.
DropRef(p, holder) ==
  /\ msgRefs' = [msgRefs EXCEPT ![p] = @ \ {holder}]
  /\ state' = IF msgRefs[p] \subseteq {holder} THEN [state EXCEPT ![p] = "IDLE"] ELSE state
-----------------------------------------------------------------------------
(* RaApp::run: one pass over the packages per loop.                        *)

\* The loop's time ends with the pass (Start stands for "none").
NextPackage == IF cursor = N THEN mpc' = "sleep" /\ cursor' = 1 /\ curTime' = Start
               ELSE mpc' = "ready" /\ cursor' = cursor + 1 /\ UNCHANGED curTime

MainWake ==
  /\ mpc = "sleep"
  /\ mpc' = "ready" /\ cursor' = 1 /\ curTime' = now
  /\ UNCHANGED <<now, pkgVars, queueVars, fetchVars, checkVars, sending, lockVars,
                 msgRefs, alarmVars, internalLast, showing>>

\* Mutant: the interval is added in seconds to a time in ticks.
IsReadyInTicks(p) == /\ state[p] = "IDLE"
                     /\ Sec(curTime) \in ActiveAt[p]
                     /\ lastRetrieve[p] + FetchInterval[p] <= curTime

\* ProcessPackage::isReady at the time the loop started with.
IsReady(p) == /\ state[p] = "IDLE"
              /\ Sec(curTime) \in ActiveAt[p]
              /\ lastRetrieve[p] + FetchInterval[p] * SecTicks <= curTime

MainReady ==
  /\ mpc = "ready"
  /\ IF IsReady(cursor)
     THEN /\ state' = [state EXCEPT ![cursor] = "PROCESSING"]
          /\ mpc' = "submit"
     ELSE /\ mpc' = "recheck"
          /\ UNCHANGED state
  /\ UNCHANGED <<now, cursor, curTime, lastRetrieve, lastNonOk, queueVars, fetchVars,
                 checkVars, sending, lockVars, msgRefs, alarmVars, internalLast, showing>>

\* The second look at the state, and checkLastAlarmTime up to its push.
OkCodeDue(p) == /\ lastNonOk[p] # Invalid
                /\ Sec(now) - lastNonOk[p] > SendOkCodeInterval

MainRecheck ==
  /\ mpc = "recheck"
  /\ IF state[cursor] = "IDLE" /\ OkCodeDue(cursor)
     THEN /\ state' = [state EXCEPT ![cursor] = "PROCESSING"]
          /\ msgRefs' = [msgRefs EXCEPT ![cursor] = {"main"}]
          /\ mpc' = "okAlarm"
          /\ UNCHANGED <<cursor, curTime>>
     ELSE /\ NextPackage
          /\ UNCHANGED <<state, msgRefs>>
  /\ UNCHANGED <<now, lastRetrieve, lastNonOk, queueVars, fetchVars, checkVars,
                 sending, lockVars, alarmVars, internalLast, showing>>

MainOkAlarm ==
  /\ mpc = "okAlarm"
  /\ BeginPush(Main, Msg(cursor, "OK"))
  /\ mpc' = "okPut"
  /\ UNCHANGED <<now, cursor, curTime, pkgVars, queueVars, fetchVars, checkVars, sending,
                 cmLock, msgRefs, internalLast, showing>>

MainOkPut ==
  /\ mpc = "okPut"
  /\ EndPush(Main, Msg(cursor, "OK"))
  /\ msgRefs' = [msgRefs EXCEPT ![cursor] = @ \cup {"alarm"}]
  /\ mpc' = "okDone"
  /\ UNCHANGED <<now, cursor, curTime, pkgVars, fetchQ, checkQ, fetchVars, checkVars,
                 sending, cmLock, alarmVars, internalLast, showing>>

MainOkDone ==
  /\ mpc = "okDone"
  /\ DropRef(cursor, "main")
  /\ NextPackage
  /\ UNCHANGED <<now, lastRetrieve, lastNonOk, queueVars, fetchVars, checkVars,
                 sending, lockVars, alarmVars, internalLast, showing>>

\* FetcherManager::pushProcessPackage.  isNeedSetAlarmCodeOk compares ticks
\* with _interalMinAlarmInterval, whatever its unit; when it says yes, an OK
\* code is pushed for the internal alarm and the package is not queued.
InternalOkDue == internalLast # Invalid /\ now - internalLast > InternalMinInterval

MainSubmit ==
  /\ mpc = "submit"
  /\ mpc' = IF InternalOkDue THEN "internalOk" ELSE "enqueue"
  /\ UNCHANGED <<now, cursor, curTime, pkgVars, queueVars, fetchVars, checkVars, sending,
                 lockVars, msgRefs, alarmVars, internalLast, showing>>

MainEnqueue ==
  /\ mpc = "enqueue"
  /\ Len(fetchQ) < FetchCapacity
  /\ fetchQ' = Append(fetchQ, cursor)
  /\ NextPackage
  /\ UNCHANGED <<now, pkgVars, checkQ, alarmQ, fetchVars, checkVars, sending,
                 lockVars, msgRefs, alarmVars, internalLast, showing>>

MainInternalOk ==
  /\ mpc = "internalOk"
  /\ BeginPush(Main, Msg(InternalKey, "OK"))
  /\ mpc' = "internalPut"
  /\ UNCHANGED <<now, cursor, curTime, pkgVars, queueVars, fetchVars, checkVars, sending,
                 cmLock, msgRefs, internalLast, showing>>

MainInternalPut ==
  /\ mpc = "internalPut"
  /\ EndPush(Main, Msg(InternalKey, "OK"))
  /\ mpc' = "internalDone"
  /\ UNCHANGED <<now, cursor, curTime, pkgVars, fetchQ, checkQ, fetchVars, checkVars,
                 sending, cmLock, msgRefs, alarmVars, internalLast, showing>>

MainInternalDone ==
  /\ mpc = "internalDone"
  /\ internalLast' = Invalid
  /\ NextPackage
  /\ UNCHANGED <<now, pkgVars, queueVars, fetchVars, checkVars, sending,
                 lockVars, msgRefs, alarmVars, showing>>

MainLoop == \/ MainWake \/ MainReady \/ MainRecheck
            \/ MainOkAlarm \/ MainOkPut \/ MainOkDone
            \/ MainSubmit \/ MainEnqueue
            \/ MainInternalOk \/ MainInternalPut \/ MainInternalDone
-----------------------------------------------------------------------------
(* FetcherWorkItem::process on a thread of the fetcher pool.               *)

FetcherTake(f) ==
  /\ fpc[f] = "idle" /\ fetchQ # <<>>
  /\ fpkg' = [fpkg EXCEPT ![f] = Head(fetchQ)]
  /\ fetchQ' = Tail(fetchQ)
  /\ fstart' = [fstart EXCEPT ![f] = now]
  /\ fpc' = [fpc EXCEPT ![f] = "retrieve"]
  /\ UNCHANGED <<now, mainVars, pkgVars, checkQ, alarmQ, checkVars, sending, lockVars,
                 msgRefs, alarmVars, internalLast, showing>>

\* retrieveMetrics: with no spec to ask nothing can fail.
FetcherRetrieved(f) ==
  /\ fpc[f] = "retrieve"
  /\ fpkg[f] \in HasSpecs => "ok" \in FetchOutcomes
  /\ lastRetrieve' = [lastRetrieve EXCEPT ![fpkg[f]] = fstart[f]]
  /\ fpc' = [fpc EXCEPT ![f] = "check"]
  /\ UNCHANGED <<now, mainVars, state, lastNonOk, queueVars, fpkg, fstart, checkVars,
                 sending, lockVars, msgRefs, alarmVars, internalLast, showing>>

FetcherFailed(f) ==
  /\ fpc[f] = "retrieve"
  /\ fpkg[f] \in HasSpecs /\ "fail" \in FetchOutcomes
  /\ fpc' = [fpc EXCEPT ![f] = "alarm"]
  /\ UNCHANGED <<now, mainVars, pkgVars, queueVars, fpkg, fstart, checkVars, sending,
                 lockVars, msgRefs, alarmVars, internalLast, showing>>

\* pushInternalAlarmMessage, then the time stamp, then the failed item.
InternalAlarm == Msg(InternalKey, "CRITICAL")

FetcherAlarm(f) ==
  /\ fpc[f] = "alarm"
  /\ BeginPush(f, InternalAlarm)
  /\ fpc' = [fpc EXCEPT ![f] = IF Restrained(InternalAlarm) THEN "stamp" ELSE "alarmPut"]
  /\ UNCHANGED <<now, mainVars, pkgVars, queueVars, fpkg, fstart, checkVars, sending,
                 cmLock, msgRefs, internalLast, showing>>

FetcherAlarmPut(f) ==
  /\ fpc[f] = "alarmPut"
  /\ EndPush(f, InternalAlarm)
  /\ fpc' = [fpc EXCEPT ![f] = "stamp"]
  /\ UNCHANGED <<now, mainVars, pkgVars, fetchQ, checkQ, fpkg, fstart, checkVars, sending,
                 cmLock, msgRefs, alarmVars, internalLast, showing>>

FetcherStamp(f) ==
  /\ fpc[f] = "stamp"
  /\ internalLast' = now
  /\ fpc' = [fpc EXCEPT ![f] = "release"]
  /\ UNCHANGED <<now, mainVars, pkgVars, queueVars, fpkg, fstart, checkVars, sending,
                 lockVars, msgRefs, alarmVars, showing>>

\* The work item is deleted.
FetcherIdles(f) == /\ fpc' = [fpc EXCEPT ![f] = "idle"]
                   /\ fpkg' = [fpkg EXCEPT ![f] = 0]
                   /\ fstart' = [fstart EXCEPT ![f] = Start]

\* Mutant: a failed item leaves its package as it is.
FetcherReleaseForgets(f) ==
  /\ fpc[f] = "release"
  /\ FetcherIdles(f)
  /\ UNCHANGED <<now, mainVars, pkgVars, queueVars, checkVars, sending, lockVars,
                 msgRefs, alarmVars, internalLast, showing>>

FetcherRelease(f) ==
  /\ fpc[f] = "release"
  /\ state' = [state EXCEPT ![fpkg[f]] = "IDLE"]
  /\ FetcherIdles(f)
  /\ UNCHANGED <<now, mainVars, lastRetrieve, lastNonOk, queueVars, checkVars, sending, lockVars, msgRefs, alarmVars, internalLast, showing>>

\* CheckerManager::pushProcessPackage: the work item, and with it the
\* AlarmMsg, is made under _mutex, which is kept while the queue is full.
FetcherMakeItem(f) ==
  /\ fpc[f] = "check" /\ cmLock = Nobody
  /\ cmLock' = f
  /\ msgRefs' = [msgRefs EXCEPT ![fpkg[f]] = {"checker"}]
  /\ fpc' = [fpc EXCEPT ![f] = "checkPut"]
  /\ UNCHANGED <<now, mainVars, pkgVars, queueVars, fpkg, fstart, checkVars, sending,
                 amLock, alarmVars, internalLast, showing>>

FetcherCheckPut(f) ==
  /\ fpc[f] = "checkPut"
  /\ Len(checkQ) < CheckCapacity
  /\ checkQ' = Append(checkQ, fpkg[f])
  /\ cmLock' = Nobody
  /\ FetcherIdles(f)
  /\ UNCHANGED <<now, mainVars, pkgVars, fetchQ, alarmQ, checkVars, sending,
                 amLock, msgRefs, alarmVars, internalLast, showing>>

FetcherThread(f) == \/ FetcherTake(f) \/ FetcherRetrieved(f) \/ FetcherFailed(f)
                    \/ FetcherAlarm(f) \/ FetcherAlarmPut(f) \/ FetcherStamp(f)
                    \/ FetcherRelease(f) \/ FetcherMakeItem(f) \/ FetcherCheckPut(f)
-----------------------------------------------------------------------------
(* CheckerWorkItem::process on a thread of the checker pool.               *)

CheckerTake(c) ==
  /\ cpc[c] = "idle" /\ checkQ # <<>>
  /\ cpkg' = [cpkg EXCEPT ![c] = Head(checkQ)]
  /\ checkQ' = Tail(checkQ)
  /\ cpc' = [cpc EXCEPT ![c] = "check"]
  /\ UNCHANGED <<now, mainVars, pkgVars, fetchQ, alarmQ, fetchVars, sending, lockVars,
                 msgRefs, alarmVars, internalLast, showing>>

\* PolicyChecker::check: without data it returns an empty message.
CheckerCheck(c) ==
  /\ cpc[c] = "check"
  /\ \E violated \in BOOLEAN :
       /\ violated => cpkg[c] \in HasSpecs
       /\ cpc' = [cpc EXCEPT ![c] = IF violated THEN "alarm" ELSE "finish"]
  /\ UNCHANGED <<now, mainVars, pkgVars, queueVars, fetchVars, cpkg, sending, lockVars,
                 msgRefs, alarmVars, internalLast, showing>>

CheckerAlarm(c) ==
  LET m == Msg(cpkg[c], "CRITICAL") IN
  /\ cpc[c] = "alarm"
  /\ BeginPush(c, m)
  /\ cpc' = [cpc EXCEPT ![c] = IF Restrained(m) THEN "finish" ELSE "alarmPut"]
  /\ UNCHANGED <<now, mainVars, pkgVars, queueVars, fetchVars, cpkg, sending, cmLock,
                 msgRefs, internalLast, showing>>

\* Mutant: the alarm pool gets the message without a reference to it.
CheckerAlarmPutUncounted(c) ==
  /\ cpc[c] = "alarmPut"
  /\ EndPush(c, Msg(cpkg[c], "CRITICAL"))
  /\ cpc' = [cpc EXCEPT ![c] = "finish"]
  /\ UNCHANGED <<now, mainVars, pkgVars, fetchQ, checkQ, fetchVars, cpkg, sending, cmLock,
                 msgRefs, alarmVars, internalLast, showing>>

CheckerAlarmPut(c) ==
  /\ cpc[c] = "alarmPut"
  /\ EndPush(c, Msg(cpkg[c], "CRITICAL"))
  /\ msgRefs' = [msgRefs EXCEPT ![cpkg[c]] = @ \cup {"alarm"}]
  /\ cpc' = [cpc EXCEPT ![c] = "finish"]
  /\ UNCHANGED <<now, mainVars, pkgVars, fetchQ, checkQ, fetchVars, cpkg, sending, cmLock,
                 alarmVars, internalLast, showing>>

\* The pool deletes the work item and with it the checker's reference.
CheckerFinish(c) ==
  /\ cpc[c] = "finish"
  /\ DropRef(cpkg[c], "checker")
  /\ cpc' = [cpc EXCEPT ![c] = "idle"] /\ cpkg' = [cpkg EXCEPT ![c] = 0]
  /\ UNCHANGED <<now, mainVars, lastRetrieve, lastNonOk, queueVars, fetchVars, sending, lockVars, alarmVars, internalLast, showing>>

CheckerThread(c) == \/ CheckerTake(c) \/ CheckerCheck(c) \/ CheckerAlarm(c)
                    \/ CheckerAlarmPut(c) \/ CheckerFinish(c)
-----------------------------------------------------------------------------
(* AlarmWorkItem::process on a thread of the alarm pool.                   *)

AlarmTake(a) ==
  /\ sending[a] = NoMsg /\ alarmQ # <<>>
  /\ sending' = [sending EXCEPT ![a] = Head(alarmQ)]
  /\ alarmQ' = Tail(alarmQ)
  /\ UNCHANGED <<now, mainVars, pkgVars, fetchQ, checkQ, fetchVars, checkVars, lockVars,
                 msgRefs, alarmVars, internalLast, showing>>

\* Mutant: an OK code is noted like an alarm.
AlarmTellsWithoutReset(p, code, told) ==
  /\ showing' = [showing EXCEPT ![p] = IF code = "OK" THEN @ \ told ELSE @ \cup told]
  /\ lastNonOk' = IF told = 1..Groups[p] THEN [lastNonOk EXCEPT ![p] = Sec(now)] ELSE lastNonOk

\* raiseAlimonitorAlarm tells the groups one after the other and gives up at
\* the first failure; only when all were told does it note the time.
AlarmTells(p, code, told) ==
  /\ showing' = [showing EXCEPT ![p] = IF code = "OK" THEN @ \ told ELSE @ \cup told]
  /\ lastNonOk' = IF told = 1..Groups[p]
                  THEN [lastNonOk EXCEPT ![p] = IF code = "OK" THEN Invalid ELSE Sec(now)]
                  ELSE lastNonOk

\* The other levels, and internal alarms, leave the package's time alone;
\* deleting the work item drops the alarm thread's reference.
AlarmSend(a) ==
  LET p == sending[a].key
      code == sending[a].code IN
  /\ sending[a] # NoMsg
  /\ IF p \in Alimonitor
     THEN \E n \in 0..Groups[p] : AlarmTells(p, code, 1..n)
     ELSE UNCHANGED <<showing, lastNonOk>>
  /\ IF p \in Package THEN DropRef(p, "alarm") ELSE UNCHANGED <<msgRefs, state>>
  /\ sending' = [sending EXCEPT ![a] = NoMsg]
  /\ UNCHANGED <<now, mainVars, lastRetrieve, queueVars, fetchVars, checkVars, lockVars,
                 alarmVars, internalLast>>

AlarmThread(a) == AlarmTake(a) \/ AlarmSend(a)
-----------------------------------------------------------------------------
Next == \/ Tick
        \/ MainLoop
        \/ \E f \in Fetchers : FetcherThread(f)
        \/ \E c \in Checkers : CheckerThread(c)
        \/ \E a \in Alarmers : AlarmThread(a)

Spec == Init /\ [][Next]_vars

\* The scheduler runs every thread; a thread that waits for a mutex others
\* take and release again gets it some day (SF).  The clock need not go on.
Fairness ==
  /\ WF_vars(MainLoop) /\ SF_vars(MainOkAlarm) /\ SF_vars(MainInternalOk)
  /\ \A f \in Fetchers : /\ WF_vars(FetcherThread(f))
                         /\ SF_vars(FetcherAlarm(f)) /\ SF_vars(FetcherMakeItem(f))
  /\ \A c \in Checkers : WF_vars(CheckerThread(c)) /\ SF_vars(CheckerAlarm(c))
  /\ \A a \in Alarmers : WF_vars(AlarmThread(a))

FairSpec == Spec /\ Fairness
-----------------------------------------------------------------------------
(* Where a package or a message about it can be.                           *)

Queued(q, p) == \E i \in 1..Len(q) : q[i] = p
MsgQueued(q, p) == \E i \in 1..Len(q) : q[i].key = p
SoleSlot(q, p) == \A i, j \in 1..Len(q) : q[i] = p /\ q[j] = p => i = j

AtSubmit(p) == mpc \in {"submit", "enqueue"} /\ cursor = p
AtOkAlarm(p) == mpc \in {"okAlarm", "okPut", "okDone"} /\ cursor = p
AtFetcher(p) == \E f \in Fetchers : fpkg[f] = p
AtChecker(p) == \E c \in Checkers : cpkg[c] = p
InAlarm(p) == MsgQueued(alarmQ, p) \/ \E a \in Alarmers : sending[a].key = p

InFetching(p) == AtSubmit(p) \/ Queued(fetchQ, p) \/ AtFetcher(p)
InChecking(p) == Queued(checkQ, p) \/ AtChecker(p)
InStages(p) == \/ AtOkAlarm(p) \/ Queued(fetchQ, p) \/ AtFetcher(p)
               \/ InChecking(p) \/ InAlarm(p)
InCustody(p) == AtSubmit(p) \/ InStages(p)

(* Types, one part for each group of variables.  A thread has a package    *)
(* exactly while it works.                                                 *)
TimeOK == now \in Start..MaxTime
MainOK == /\ mpc \in {"sleep", "ready", "recheck", "okAlarm", "okPut", "okDone", "submit",
                      "enqueue", "internalOk", "internalPut", "internalDone"}
          /\ cursor \in Package /\ curTime \in Nat
PackagesOK == /\ state \in [Package -> {"IDLE", "PROCESSING"}]
              /\ lastRetrieve \in [Package -> Nat]
              /\ lastNonOk \in [Package -> Nat \cup {Invalid}]
FetchQueueOK == fetchQ \in Seq(Package) /\ Len(fetchQ) <= FetchCapacity
CheckQueueOK == checkQ \in Seq(Package) /\ Len(checkQ) <= CheckCapacity
AlarmQueueOK == alarmQ \in Seq([key : Key, code : Code]) /\ Len(alarmQ) <= AlarmCapacity
FetchersOK == /\ fpc \in [Fetchers -> {"idle", "retrieve", "alarm", "alarmPut", "stamp",
                                       "release", "check", "checkPut"}]
              /\ fpkg \in [Fetchers -> Key] /\ fstart \in [Fetchers -> Nat]
              /\ \A f \in Fetchers : fpc[f] = "idle" <=> fpkg[f] = 0
CheckersOK == /\ cpc \in [Checkers -> {"idle", "check", "alarm", "alarmPut", "finish"}]
              /\ cpkg \in [Checkers -> Key]
              /\ \A c \in Checkers : cpc[c] = "idle" <=> cpkg[c] = 0
SendingOK == sending \in [Alarmers -> [key : Key, code : Code] \cup {NoMsg}]
LocksOK == cmLock \in Fetchers \cup {Nobody} /\ amLock \in Thread \cup {Nobody}
RefsOK == msgRefs \in [Package -> SUBSET Holder]
RecordsOK == /\ lastAlarm \in [Key -> Nat \cup {Invalid}]
             /\ lastAccepted \in [Key -> Nat \cup {Invalid}]
             /\ lastClear \in Nat
InternalOK == internalLast \in Nat \cup {Invalid}
ShowingOK == showing \in [Package -> SUBSET Nat]

TypeOK == /\ TimeOK /\ MainOK /\ PackagesOK
          /\ FetchQueueOK /\ CheckQueueOK /\ AlarmQueueOK
          /\ FetchersOK /\ CheckersOK /\ SendingOK
          /\ LocksOK /\ RefsOK /\ RecordsOK /\ InternalOK /\ ShowingOK

(* One owner: a package that is IDLE is in nobody's hands; otherwise at    *)
(* most one queue slot or thread of the fetching and checking side has it, *)
(* and nothing fetches it while a message about it is being delivered.     *)
(* ProcessPackage hands out a reference to its data after unlocking        *)
(* (getMetricDataRoots), so this is what keeps that reference valid.       *)
Exclusive(p) ==
  /\ state[p] = "IDLE" => ~InCustody(p)
  /\ SoleSlot(fetchQ, p) /\ SoleSlot(checkQ, p)
  /\ \A f, g \in Fetchers : fpkg[f] = p /\ fpkg[g] = p => f = g
  /\ \A c, d \in Checkers : cpkg[c] = p /\ cpkg[d] = p => c = d
  /\ InFetching(p) => ~AtOkAlarm(p) /\ ~InChecking(p) /\ ~InAlarm(p)
  /\ AtSubmit(p) => ~Queued(fetchQ, p) /\ ~AtFetcher(p)
  /\ Queued(fetchQ, p) => ~AtFetcher(p)
  /\ Queued(checkQ, p) => ~AtChecker(p)
  /\ InChecking(p) => ~AtOkAlarm(p)
ExclusiveProcessing == \A p \in Package : Exclusive(p)

(* The last one lets go at the right moment: the references to a package's *)
(* AlarmMsg are exactly those of the threads and queues that still have    *)
(* to do with it.                                                          *)
Counted(p) ==
  /\ "main" \in msgRefs[p] <=> AtOkAlarm(p)
  /\ "alarm" \in msgRefs[p] <=> InAlarm(p)
  /\ "checker" \in msgRefs[p] <=>
       InChecking(p) \/ \E f \in Fetchers : fpkg[f] = p /\ fpc[f] = "checkPut"
RefsCounted == \A p \in Package : Counted(p)

(* There is never more than one message about a package on its way, and    *)
(* none while the package waits for the check or the push that makes one:  *)
(* a late OK code cannot overtake, or be overtaken by, an alarm.           *)
SoleMsg(q, p) == \A i, j \in 1..Len(q) : q[i].key = p /\ q[j].key = p => i = j
Single(p) ==
  /\ SoleMsg(alarmQ, p)
  /\ \A a, b \in Alarmers : sending[a].key = p /\ sending[b].key = p => a = b
  /\ MsgQueued(alarmQ, p) => \A a \in Alarmers : sending[a].key # p
  /\ Queued(checkQ, p) => ~InAlarm(p)
  /\ \A c \in Checkers : cpkg[c] = p /\ cpc[c] # "finish" => ~InAlarm(p)
  /\ AtOkAlarm(p) /\ mpc # "okDone" => ~InAlarm(p)
OneMessage == \A p \in Package : Single(p)

Custody == ExclusiveProcessing /\ RefsCounted /\ OneMessage

(* Data of one policy is fetched again only after its fetch interval, even *)
(* though the main loop decides with the time its loop began with and the  *)
(* fetcher stamps the package with the time it got around to it.           *)
FetchPacing == [][\A p \in Package : lastRetrieve'[p] # lastRetrieve[p] =>
                    lastRetrieve'[p] >= lastRetrieve[p] + FetchInterval[p] * SecTicks]_vars

(* Restraint: two critical alarms of one key are let through at least the  *)
(* policy's minimal interval apart, across the forgetting of old records   *)
(* (as long as records live at least as long as the interval).             *)
AlarmSpacing ==
  [][\A k \in Key : lastAccepted'[k] # lastAccepted[k] =>
       \/ lastAccepted[k] = Invalid
       \/ lastAccepted'[k] - lastAccepted[k] >= MinAlarmInterval[k]]_vars

(* While an OK code is still owed for a package some group has not         *)
(* acknowledged one: checkLastAlarmTime stops once all groups have, however *)
(* alarms, partial deliveries and restrained alarms came in between.       *)
OkOnlyWhileShowing ==
  \A p \in Package : lastNonOk[p] # Invalid => showing[p] # {}

(* No stage keeps a package: once it is in the fetcher queue, or its OK    *)
(* code on the way, it becomes IDLE again, the full queues and the two     *)
(* mutexes that are held across blocking pushes notwithstanding.           *)
CustodyEnds == \A p \in Package : InStages(p) ~> (state[p] = "IDLE")

(* The main loop comes round again, though it waits for the fetcher queue  *)
(* and, holding AlarmManager::_mutex, for the alarm queue: the stages only *)
(* ever wait for later ones.                                               *)
MainComesRound == []<>(mpc = "sleep")

(* CheckerWorkItem::process: "processPackage state will be clear in        *)
(* destruction of AlarmMsg".  Then whoever is not IDLE is on its way there *)
(* in somebody's hands.                                                    *)
ProcessingIsOwned ==
  \A p \in Package : state[p] = "PROCESSING" => InCustody(p)
=============================================================================
