--------------------------- MODULE PipelineProofs ---------------------------
(***************************************************************************)
(* Proofs about the pipeline, for any number of packages and threads, any  *)
(* queue capacities and intervals.                                         *)
(***************************************************************************)
EXTENDS Pipeline, TLAPS

\* Whole seconds of a tick count.
LEMMA SecType == ASSUME NEW t \in Nat PROVE Sec(t) \in Nat
BY PipelineAssumption, SMT DEF Sec

\* Seconds do not decrease with ticks.
LEMMA SecMonotone == ASSUME NEW s \in Nat, NEW t \in Nat, s <= t PROVE Sec(s) <= Sec(t)
BY PipelineAssumption, SMT DEF Sec

\* A non-empty queue's head and tail, typed, and one slot shorter.
LEMMA HeadTail ==
  ASSUME NEW S, NEW q \in Seq(S), q # <<>>
  PROVE  Head(q) \in S /\ Tail(q) \in Seq(S) /\ Len(Tail(q)) = Len(q) - 1 /\ Len(q) \in Nat
OBVIOUS
-----------------------------------------------------------------------------
(* Types.                                                                  *)

\* The initial values have their types.
LEMMA TypeInit == Init => TypeOK
<1> SUFFICES ASSUME Init PROVE TypeOK
  OBVIOUS
<1>1. TimeOK
  BY PipelineAssumption DEF Init, TimeOK
<1>2. MainOK
  BY PipelineAssumption DEF Init, MainOK, Package
<1>3. PackagesOK
  BY PipelineAssumption DEF Init, PackagesOK, Package, Invalid
<1>4. FetchQueueOK
  BY PipelineAssumption DEF Init, FetchQueueOK, Package
<1>5. CheckQueueOK
  BY PipelineAssumption DEF Init, CheckQueueOK, Package
<1>6. AlarmQueueOK
  BY PipelineAssumption DEF Init, AlarmQueueOK, Msg, Key, Code, InternalKey
<1>7. FetchersOK
  BY PipelineAssumption DEF Init, FetchersOK, Key, Package
<1>8. CheckersOK
  BY PipelineAssumption DEF Init, CheckersOK, Key, Package
<1>9. SendingOK
  BY PipelineAssumption DEF Init, SendingOK, Key, Code, NoMsg, Msg, Invalid
<1>10. LocksOK
  BY PipelineAssumption DEF Init, LocksOK, Thread
<1>11. RefsOK
  BY PipelineAssumption DEF Init, RefsOK, Holder, Package
<1>12. RecordsOK
  BY PipelineAssumption DEF Init, RecordsOK, Key, InternalKey, Invalid
<1>13. InternalOK
  BY PipelineAssumption DEF Init, InternalOK, Invalid
<1>14. ShowingOK
  BY PipelineAssumption DEF Init, ShowingOK, Package
<1> QED
  BY <1>1, <1>2, <1>3, <1>4, <1>5, <1>6, <1>7, <1>8, <1>9, <1>10, <1>11, <1>12, <1>13, <1>14
     DEF TypeOK

\* Each part of TypeOK depends on its variables only.
LEMMA TypeFrame ==
  ASSUME TypeOK
  PROVE  /\ UNCHANGED now => TimeOK'
         /\ UNCHANGED mainVars => MainOK'
         /\ UNCHANGED pkgVars => PackagesOK'
         /\ UNCHANGED fetchQ => FetchQueueOK'
         /\ UNCHANGED checkQ => CheckQueueOK'
         /\ UNCHANGED alarmQ => AlarmQueueOK'
         /\ UNCHANGED fetchVars => FetchersOK'
         /\ UNCHANGED checkVars => CheckersOK'
         /\ UNCHANGED sending => SendingOK'
         /\ UNCHANGED lockVars => LocksOK'
         /\ UNCHANGED msgRefs => RefsOK'
         /\ UNCHANGED alarmVars => RecordsOK'
         /\ UNCHANGED internalLast => InternalOK'
         /\ UNCHANGED showing => ShowingOK'
<1>1. UNCHANGED now => TimeOK'
  BY DEF TypeOK, TimeOK
<1>2. UNCHANGED mainVars => MainOK'
  BY DEF TypeOK, MainOK, mainVars
<1>3. UNCHANGED pkgVars => PackagesOK'
  BY DEF TypeOK, PackagesOK, pkgVars
<1>4. UNCHANGED fetchQ => FetchQueueOK'
  BY DEF TypeOK, FetchQueueOK
<1>5. UNCHANGED checkQ => CheckQueueOK'
  BY DEF TypeOK, CheckQueueOK
<1>6. UNCHANGED alarmQ => AlarmQueueOK'
  BY DEF TypeOK, AlarmQueueOK
<1>7. UNCHANGED fetchVars => FetchersOK'
  BY DEF TypeOK, FetchersOK, fetchVars
<1>8. UNCHANGED checkVars => CheckersOK'
  BY DEF TypeOK, CheckersOK, checkVars
<1>9. UNCHANGED sending => SendingOK'
  BY DEF TypeOK, SendingOK
<1>10. UNCHANGED lockVars => LocksOK'
  BY DEF TypeOK, LocksOK, lockVars
<1>11. UNCHANGED msgRefs => RefsOK'
  BY DEF TypeOK, RefsOK
<1>12. UNCHANGED alarmVars => RecordsOK'
  BY DEF TypeOK, RecordsOK, alarmVars
<1>13. UNCHANGED internalLast => InternalOK'
  BY DEF TypeOK, InternalOK
<1>14. UNCHANGED showing => ShowingOK'
  BY DEF TypeOK, ShowingOK
<1> QED
  BY <1>1, <1>2, <1>3, <1>4, <1>5, <1>6, <1>7, <1>8, <1>9, <1>10, <1>11, <1>12, <1>13, <1>14

\* The clock counts, in ticks and in seconds.
LEMMA NowType == ASSUME TypeOK PROVE now \in Nat /\ Sec(now) \in Nat
BY SecType, PipelineAssumption DEF TypeOK, TimeOK

\* What a call of pushAlarmMessage does to the records, whoever calls.
LEMMA RecordsType ==
  ASSUME TypeOK, NEW t, NEW m, BeginPush(t, m)
  PROVE  RecordsOK'
<1>1. Records \in [Key -> Nat \cup {Invalid}]
  BY DEF TypeOK, RecordsOK, Records
<1>2. lastAlarm' \in [Key -> Nat \cup {Invalid}]
  BY <1>1, NowType DEF BeginPush
<1>3. lastAccepted' \in [Key -> Nat \cup {Invalid}] /\ lastClear' \in Nat
  BY NowType DEF BeginPush, TypeOK, RecordsOK
<1> QED
  BY <1>2, <1>3 DEF RecordsOK

\* The main loop's cursor stays on a package.
LEMMA NextPackageType == ASSUME TypeOK, NextPackage PROVE MainOK'
<1>1. N \in Nat \ {0}
  BY PipelineAssumption
<1>2. CASE cursor = N
  BY <1>1, <1>2, PipelineAssumption DEF NextPackage, TypeOK, MainOK, Package
<1>3. CASE cursor # N
  BY <1>1, <1>3 DEF NextPackage, TypeOK, MainOK, Package
<1> QED
  BY <1>2, <1>3

\* A message in delivery is about a package or internal.
LEMMA SendingType ==
  ASSUME TypeOK, NEW a \in Alarmers, sending[a] # NoMsg
  PROVE  sending[a].key \in Key /\ sending[a].code \in Code
BY DEF TypeOK, SendingOK

\* Every step keeps the types: one step of the proof per action of Next.
LEMMA TypeStep == TypeOK /\ [Next]_vars => TypeOK'
<1> SUFFICES ASSUME TypeOK, [Next]_vars PROVE TypeOK'
  OBVIOUS
<1>1. CASE UNCHANGED vars
  BY <1>1, TypeFrame DEF TypeOK, vars, queueVars
<1>2. CASE Tick
  <2>1. TimeOK'
    BY <1>2, PipelineAssumption DEF TypeOK, Tick, TimeOK
  <2> QED
    BY <1>2, <2>1, TypeFrame DEF TypeOK, Tick, queueVars
<1>3. CASE MainWake
  <2>1. MainOK'
    BY <1>3, PipelineAssumption DEF TypeOK, MainWake, MainOK, mainVars, Package, TimeOK
  <2> QED
    BY <1>3, <2>1, TypeFrame DEF TypeOK, MainWake, queueVars, mainVars
<1>4. CASE MainReady
  <2>1. MainOK'
    BY <1>4, PipelineAssumption DEF TypeOK, MainReady, MainOK, mainVars, Package, TimeOK
  <2>2. PackagesOK'
    BY <1>4, PipelineAssumption DEF TypeOK, MainReady, PackagesOK, pkgVars, Package, Invalid
  <2> QED
    BY <1>4, <2>1, <2>2, TypeFrame DEF TypeOK, MainReady, queueVars, mainVars, pkgVars
<1>5. CASE MainRecheck
  <2>1. MainOK'
    BY <1>5, PipelineAssumption
       DEF TypeOK, MainRecheck, NextPackage, MainOK, mainVars, Package, TimeOK
  <2>2. PackagesOK'
    BY <1>5, PipelineAssumption
       DEF TypeOK, MainRecheck, NextPackage, PackagesOK, pkgVars, Package, Invalid
  <2>3. RefsOK'
    BY <1>5 DEF MainRecheck, TypeOK, RefsOK, Holder
  <2> QED
    BY <1>5, <2>1, <2>2, <2>3, TypeFrame
       DEF TypeOK, MainRecheck, NextPackage, queueVars, mainVars, pkgVars
<1>6. CASE MainOkAlarm
  <2>1. MainOK'
    BY <1>6, PipelineAssumption
       DEF TypeOK, MainOkAlarm, BeginPush, MainOK, mainVars, Package, TimeOK
  <2>2. RecordsOK'
    BY <1>6, RecordsType DEF MainOkAlarm
  <2>3. LocksOK'
    BY <1>6, PipelineAssumption
       DEF TypeOK, MainOkAlarm, BeginPush, LocksOK, lockVars, Thread
  <2> QED
    BY <1>6, <2>1, <2>2, <2>3, TypeFrame
       DEF TypeOK, MainOkAlarm, BeginPush, queueVars, mainVars, alarmVars, lockVars
<1>7. CASE MainOkPut
  <2>1. MainOK'
    BY <1>7, PipelineAssumption
       DEF TypeOK, MainOkPut, EndPush, MainOK, mainVars, Package, TimeOK
  <2>2. AlarmQueueOK'
    BY <1>7, PipelineAssumption
       DEF TypeOK, MainOkPut, EndPush, AlarmQueueOK, Msg, Key, Code, InternalKey,
           MainOK, Package
  <2>3. LocksOK'
    BY <1>7, PipelineAssumption DEF TypeOK, MainOkPut, EndPush, LocksOK, lockVars, Thread
  <2>4. RefsOK'
    BY <1>7, PipelineAssumption
       DEF TypeOK, MainOkPut, EndPush, RefsOK, Holder, Package, MainOK
  <2> QED
    BY <1>7, <2>1, <2>2, <2>3, <2>4, TypeFrame
       DEF TypeOK, MainOkPut, EndPush, queueVars, mainVars, lockVars
<1>8. CASE MainOkDone
  <2>1. MainOK'
    BY <1>8, NextPackageType DEF MainOkDone
  <2>2. PackagesOK'
    BY <1>8, PipelineAssumption
       DEF TypeOK, MainOkDone, DropRef, NextPackage, PackagesOK, pkgVars, Package,
           Invalid
  <2>3. RefsOK'
    BY <1>8, PipelineAssumption
       DEF TypeOK, MainOkDone, DropRef, NextPackage, RefsOK, Holder, Package
  <2> QED
    BY <1>8, <2>1, <2>2, <2>3, TypeFrame
       DEF TypeOK, MainOkDone, DropRef, NextPackage, queueVars, mainVars, pkgVars
<1>9. CASE MainSubmit
  <2>1. MainOK'
    BY <1>9, PipelineAssumption DEF TypeOK, MainSubmit, MainOK, mainVars, Package, TimeOK
  <2> QED
    BY <1>9, <2>1, TypeFrame DEF TypeOK, MainSubmit, queueVars, mainVars
<1>10. CASE MainEnqueue
  <2>1. MainOK'
    BY <1>10, NextPackageType DEF MainEnqueue
  <2>2. FetchQueueOK'
    BY <1>10, PipelineAssumption
       DEF TypeOK, MainEnqueue, NextPackage, FetchQueueOK, Package, MainOK
  <2> QED
    BY <1>10, <2>1, <2>2, TypeFrame
       DEF TypeOK, MainEnqueue, NextPackage, queueVars, mainVars
<1>11. CASE MainInternalOk
  <2>1. MainOK'
    BY <1>11, PipelineAssumption
       DEF TypeOK, MainInternalOk, BeginPush, MainOK, mainVars, Package, TimeOK
  <2>2. RecordsOK'
    BY <1>11, RecordsType DEF MainInternalOk
  <2>3. LocksOK'
    BY <1>11, PipelineAssumption
       DEF TypeOK, MainInternalOk, BeginPush, LocksOK, lockVars, Thread
  <2> QED
    BY <1>11, <2>1, <2>2, <2>3, TypeFrame
       DEF TypeOK, MainInternalOk, BeginPush, queueVars, mainVars, alarmVars, lockVars
<1>12. CASE MainInternalPut
  <2>1. MainOK'
    BY <1>12, PipelineAssumption
       DEF TypeOK, MainInternalPut, EndPush, MainOK, mainVars, Package, TimeOK
  <2>2. AlarmQueueOK'
    BY <1>12, PipelineAssumption
       DEF TypeOK, MainInternalPut, EndPush, AlarmQueueOK, Msg, Key, Code, InternalKey
  <2>3. LocksOK'
    BY <1>12, PipelineAssumption
       DEF TypeOK, MainInternalPut, EndPush, LocksOK, lockVars, Thread
  <2> QED
    BY <1>12, <2>1, <2>2, <2>3, TypeFrame
       DEF TypeOK, MainInternalPut, EndPush, queueVars, mainVars, lockVars
<1>13. CASE MainInternalDone
  <2>1. MainOK'
    BY <1>13, NextPackageType DEF MainInternalDone
  <2>2. InternalOK'
    BY <1>13, PipelineAssumption
       DEF TypeOK, MainInternalDone, NextPackage, InternalOK, Invalid, TimeOK
  <2> QED
    BY <1>13, <2>1, <2>2, TypeFrame
       DEF TypeOK, MainInternalDone, NextPackage, queueVars, mainVars
<1>14. ASSUME NEW f \in Fetchers, FetcherTake(f) PROVE TypeOK'
  <2>1. FetchersOK'
    <3>1. Head(fetchQ) \in Package
      BY <1>14, HeadTail DEF FetcherTake, TypeOK, FetchQueueOK
    <3>2. fpkg' \in [Fetchers -> Key] /\ fstart' \in [Fetchers -> Nat]
      BY <1>14, <3>1, NowType DEF FetcherTake, TypeOK, FetchersOK, Package, Key
    <3>3. \A g \in Fetchers : fpc'[g] = "idle" <=> fpkg'[g] = 0
      BY <1>14, <3>1 DEF FetcherTake, TypeOK, FetchersOK, Package
    <3> QED
      BY <1>14, <3>2, <3>3 DEF FetcherTake, TypeOK, FetchersOK
  <2>2. FetchQueueOK'
    BY <1>14, PipelineAssumption DEF TypeOK, FetcherTake, FetchQueueOK, Package
  <2> QED
    BY <1>14, <2>1, <2>2, TypeFrame DEF TypeOK, FetcherTake, queueVars, fetchVars
<1>15. ASSUME NEW f \in Fetchers, FetcherRetrieved(f) PROVE TypeOK'
  <2>1. PackagesOK'
    BY <1>15, PipelineAssumption
       DEF TypeOK, FetcherRetrieved, PackagesOK, pkgVars, Package, Invalid, FetchersOK
  <2>2. FetchersOK'
    BY <1>15, PipelineAssumption
       DEF TypeOK, FetcherRetrieved, FetchersOK, fetchVars, Key, Package
  <2> QED
    BY <1>15, <2>1, <2>2, TypeFrame
       DEF TypeOK, FetcherRetrieved, queueVars, pkgVars, fetchVars
<1>16. ASSUME NEW f \in Fetchers, FetcherFailed(f) PROVE TypeOK'
  <2>1. FetchersOK'
    BY <1>16, PipelineAssumption
       DEF TypeOK, FetcherFailed, FetchersOK, fetchVars, Key, Package
  <2> QED
    BY <1>16, <2>1, TypeFrame DEF TypeOK, FetcherFailed, queueVars, fetchVars
<1>17. ASSUME NEW f \in Fetchers, FetcherAlarm(f) PROVE TypeOK'
  <2>1. FetchersOK'
    BY <1>17, PipelineAssumption
       DEF TypeOK, FetcherAlarm, BeginPush, FetchersOK, fetchVars, Key, Package
  <2>2. RecordsOK'
    BY <1>17, RecordsType DEF FetcherAlarm
  <2>3. LocksOK'
    BY <1>17, PipelineAssumption
       DEF TypeOK, FetcherAlarm, BeginPush, LocksOK, lockVars, Thread
  <2> QED
    BY <1>17, <2>1, <2>2, <2>3, TypeFrame
       DEF TypeOK, FetcherAlarm, BeginPush, queueVars, fetchVars, alarmVars, lockVars
<1>18. ASSUME NEW f \in Fetchers, FetcherAlarmPut(f) PROVE TypeOK'
  <2>1. FetchersOK'
    BY <1>18, PipelineAssumption
       DEF TypeOK, FetcherAlarmPut, EndPush, FetchersOK, fetchVars, Key, Package
  <2>2. AlarmQueueOK'
    BY <1>18, PipelineAssumption
       DEF TypeOK, FetcherAlarmPut, EndPush, AlarmQueueOK, Msg, Key, Code, InternalKey,
           InternalAlarm
  <2>3. LocksOK'
    BY <1>18, PipelineAssumption
       DEF TypeOK, FetcherAlarmPut, EndPush, LocksOK, lockVars, Thread
  <2> QED
    BY <1>18, <2>1, <2>2, <2>3, TypeFrame
       DEF TypeOK, FetcherAlarmPut, EndPush, queueVars, fetchVars, lockVars
<1>19. ASSUME NEW f \in Fetchers, FetcherStamp(f) PROVE TypeOK'
  <2>1. FetchersOK'
    BY <1>19, PipelineAssumption
       DEF TypeOK, FetcherStamp, FetchersOK, fetchVars, Key, Package
  <2>2. InternalOK'
    BY <1>19, PipelineAssumption DEF TypeOK, FetcherStamp, InternalOK, Invalid, TimeOK
  <2> QED
    BY <1>19, <2>1, <2>2, TypeFrame DEF TypeOK, FetcherStamp, queueVars, fetchVars
<1>20. ASSUME NEW f \in Fetchers, FetcherRelease(f) PROVE TypeOK'
  <2>1. FetchersOK'
    BY <1>20, PipelineAssumption
       DEF TypeOK, FetcherRelease, FetcherIdles, FetchersOK, fetchVars, Key, Package
  <2>2. PackagesOK'
    BY <1>20, PipelineAssumption
       DEF TypeOK, FetcherRelease, FetcherIdles, PackagesOK, pkgVars, Package, Invalid
  <2> QED
    BY <1>20, <2>1, <2>2, TypeFrame
       DEF TypeOK, FetcherRelease, FetcherIdles, queueVars, fetchVars, pkgVars
<1>21. ASSUME NEW f \in Fetchers, FetcherMakeItem(f) PROVE TypeOK'
  <2>1. FetchersOK'
    BY <1>21, PipelineAssumption
       DEF TypeOK, FetcherMakeItem, FetchersOK, fetchVars, Key, Package
  <2>2. LocksOK'
    BY <1>21, PipelineAssumption DEF TypeOK, FetcherMakeItem, LocksOK, lockVars, Thread
  <2>3. RefsOK'
    BY <1>21, PipelineAssumption DEF TypeOK, FetcherMakeItem, RefsOK, Holder, Package
  <2> QED
    BY <1>21, <2>1, <2>2, <2>3, TypeFrame
       DEF TypeOK, FetcherMakeItem, queueVars, fetchVars, lockVars
<1>22. ASSUME NEW f \in Fetchers, FetcherCheckPut(f) PROVE TypeOK'
  <2>1. FetchersOK'
    BY <1>22, PipelineAssumption
       DEF TypeOK, FetcherCheckPut, FetcherIdles, FetchersOK, fetchVars, Key, Package
  <2>2. LocksOK'
    BY <1>22, PipelineAssumption
       DEF TypeOK, FetcherCheckPut, FetcherIdles, LocksOK, lockVars, Thread
  <2>3. CheckQueueOK'
    BY <1>22, PipelineAssumption
       DEF TypeOK, FetcherCheckPut, FetcherIdles, CheckQueueOK, Package, FetchersOK, Key
  <2> QED
    BY <1>22, <2>1, <2>2, <2>3, TypeFrame
       DEF TypeOK, FetcherCheckPut, FetcherIdles, queueVars, fetchVars, lockVars
<1>23. ASSUME NEW c \in Checkers, CheckerTake(c) PROVE TypeOK'
  <2>1. CheckersOK'
    <3>1. Head(checkQ) \in Package
      BY <1>23, HeadTail DEF CheckerTake, TypeOK, CheckQueueOK
    <3> QED
      BY <1>23, <3>1, PipelineAssumption DEF CheckerTake, TypeOK, CheckersOK, Package, Key
  <2>2. CheckQueueOK'
    BY <1>23, PipelineAssumption DEF TypeOK, CheckerTake, CheckQueueOK, Package
  <2> QED
    BY <1>23, <2>1, <2>2, TypeFrame DEF TypeOK, CheckerTake, queueVars, checkVars
<1>24. ASSUME NEW c \in Checkers, CheckerCheck(c) PROVE TypeOK'
  <2>1. CheckersOK'
    BY <1>24, PipelineAssumption
       DEF TypeOK, CheckerCheck, CheckersOK, checkVars, Key, Package
  <2> QED
    BY <1>24, <2>1, TypeFrame DEF TypeOK, CheckerCheck, queueVars, checkVars
<1>25. ASSUME NEW c \in Checkers, CheckerAlarm(c) PROVE TypeOK'
  <2>1. CheckersOK'
    BY <1>25, PipelineAssumption
       DEF TypeOK, CheckerAlarm, BeginPush, CheckersOK, checkVars, Key, Package
  <2>2. RecordsOK'
    BY <1>25, RecordsType DEF CheckerAlarm
  <2>3. LocksOK'
    BY <1>25, PipelineAssumption
       DEF TypeOK, CheckerAlarm, BeginPush, LocksOK, lockVars, Thread
  <2> QED
    BY <1>25, <2>1, <2>2, <2>3, TypeFrame
       DEF TypeOK, CheckerAlarm, BeginPush, queueVars, checkVars, alarmVars, lockVars
<1>26. ASSUME NEW c \in Checkers, CheckerAlarmPut(c) PROVE TypeOK'
  <2>1. CheckersOK'
    BY <1>26, PipelineAssumption
       DEF TypeOK, CheckerAlarmPut, EndPush, CheckersOK, checkVars, Key, Package
  <2>2. AlarmQueueOK'
    BY <1>26, PipelineAssumption
       DEF TypeOK, CheckerAlarmPut, EndPush, AlarmQueueOK, Msg, Key, Code, InternalKey,
           CheckersOK
  <2>3. LocksOK'
    BY <1>26, PipelineAssumption
       DEF TypeOK, CheckerAlarmPut, EndPush, LocksOK, lockVars, Thread
  <2>4. RefsOK'
    BY <1>26, PipelineAssumption
       DEF TypeOK, CheckerAlarmPut, EndPush, RefsOK, Holder, Package, CheckersOK
  <2> QED
    BY <1>26, <2>1, <2>2, <2>3, <2>4, TypeFrame
       DEF TypeOK, CheckerAlarmPut, EndPush, queueVars, checkVars, lockVars
<1>27. ASSUME NEW c \in Checkers, CheckerFinish(c) PROVE TypeOK'
  <2>1. CheckersOK'
    BY <1>27, PipelineAssumption
       DEF TypeOK, CheckerFinish, DropRef, CheckersOK, checkVars, Key, Package
  <2>2. PackagesOK'
    BY <1>27, PipelineAssumption
       DEF TypeOK, CheckerFinish, DropRef, PackagesOK, pkgVars, Package, Invalid
  <2>3. RefsOK'
    BY <1>27, PipelineAssumption DEF TypeOK, CheckerFinish, DropRef, RefsOK, Holder, Package
  <2> QED
    BY <1>27, <2>1, <2>2, <2>3, TypeFrame
       DEF TypeOK, CheckerFinish, DropRef, queueVars, checkVars, pkgVars
<1>28. ASSUME NEW a \in Alarmers, AlarmTake(a) PROVE TypeOK'
  <2>1. SendingOK'
    <3>1. Head(alarmQ) \in [key : Key, code : Code]
      BY <1>28, HeadTail DEF AlarmTake, TypeOK, AlarmQueueOK
    <3> QED
      BY <1>28, <3>1 DEF AlarmTake, TypeOK, SendingOK
  <2>2. AlarmQueueOK'
    BY <1>28, PipelineAssumption
       DEF TypeOK, AlarmTake, AlarmQueueOK, Msg, Key, Code, InternalKey
  <2> QED
    BY <1>28, <2>1, <2>2, TypeFrame DEF TypeOK, AlarmTake, queueVars
<1>29. ASSUME NEW a \in Alarmers, AlarmSend(a) PROVE TypeOK'
  <2>1. SendingOK'
    BY <1>29, PipelineAssumption
       DEF TypeOK, AlarmSend, DropRef, AlarmTells, SendingOK, Key, Code, NoMsg, Msg,
           Invalid
  <2>2. PackagesOK'
    <3>1. state' \in [Package -> {"IDLE", "PROCESSING"}]
      BY <1>29 DEF AlarmSend, DropRef, TypeOK, PackagesOK
    <3>2. lastNonOk' \in [Package -> Nat \cup {Invalid}]
      BY <1>29, NowType DEF AlarmSend, AlarmTells, TypeOK, PackagesOK
    <3> QED
      BY <1>29, <3>1, <3>2 DEF AlarmSend, TypeOK, PackagesOK
  <2>3. RefsOK'
    BY <1>29 DEF AlarmSend, DropRef, TypeOK, RefsOK
  <2>4. ShowingOK'
    <3>1. CASE sending[a].key \in Alimonitor
      <4>1. PICK n \in 0..Groups[sending[a].key] :
              AlarmTells(sending[a].key, sending[a].code, 1..n)
        BY <1>29, <3>1 DEF AlarmSend
      <4>2. 1..n \subseteq Nat
        OBVIOUS
      <4> QED
        BY <4>1, <4>2 DEF AlarmTells, TypeOK, ShowingOK
    <3> QED
      BY <1>29, <3>1 DEF AlarmSend, TypeOK, ShowingOK
  <2> QED
    BY <1>29, <2>1, <2>2, <2>3, <2>4, TypeFrame
       DEF TypeOK, AlarmSend, DropRef, AlarmTells, queueVars, pkgVars
<1> QED
  BY <1>1, <1>2, <1>3, <1>4, <1>5, <1>6, <1>7, <1>8, <1>9, <1>10, <1>11, <1>12, <1>13,
     <1>14, <1>15, <1>16, <1>17, <1>18, <1>19, <1>20, <1>21, <1>22, <1>23, <1>24, <1>25,
     <1>26, <1>27, <1>28, <1>29
     DEF Next, MainLoop, FetcherThread, CheckerThread, AlarmThread

(* The variables keep their types, whatever the interleaving.              *)
THEOREM TypeCorrect == Spec => []TypeOK
BY TypeInit, TypeStep, PTL DEF Spec
-----------------------------------------------------------------------------
(***************************************************************************)
(* One owner per package.                                                  *)
(*                                                                         *)
(* The invariant is Custody: ExclusiveProcessing alone is not inductive,   *)
(* because whether DropRef may make a package IDLE depends on the          *)
(* references that are left (RefsCounted), and a set of references counts  *)
(* right only while each kind of holder is there once (OneMessage).        *)
(***************************************************************************)

\* How the places of a queue change when it is pushed to and popped from.
LEMMA QueuedAppend ==
  ASSUME NEW S, NEW q \in Seq(S), NEW x \in S, NEW p
  PROVE  /\ Queued(Append(q, x), p) <=> Queued(q, p) \/ x = p
         /\ SoleSlot(q, p) /\ (x = p => ~Queued(q, p)) => SoleSlot(Append(q, x), p)
BY DEF Queued, SoleSlot

\* Popping takes away the head's place only.
LEMMA QueuedTail ==
  ASSUME NEW S, NEW q \in Seq(S), q # <<>>, NEW p
  PROVE  /\ Queued(q, p) <=> Head(q) = p \/ Queued(Tail(q), p)
         /\ SoleSlot(q, p) => SoleSlot(Tail(q), p) /\ (Head(q) = p => ~Queued(Tail(q), p))
<1>1. /\ Tail(q) \in Seq(S) /\ Len(Tail(q)) = Len(q) - 1 /\ Head(q) = q[1] /\ Len(q) \in Nat \ {0}
      /\ \A i \in 1..Len(Tail(q)) : Tail(q)[i] = q[i + 1]
  OBVIOUS
<1>2. Queued(q, p) => Head(q) = p \/ Queued(Tail(q), p)
  <2> SUFFICES ASSUME NEW i \in 1..Len(q), q[i] = p PROVE i = 1 \/ Queued(Tail(q), p)
    BY <1>1 DEF Queued
  <2>1. i # 1 => i - 1 \in 1..Len(Tail(q)) /\ Tail(q)[i - 1] = p
    BY <1>1
  <2> QED
    BY <2>1 DEF Queued
<1>3. Head(q) = p \/ Queued(Tail(q), p) => Queued(q, p)
  BY <1>1 DEF Queued
<1>4. SoleSlot(q, p) => SoleSlot(Tail(q), p)
  BY <1>1 DEF SoleSlot
<1>5. SoleSlot(q, p) => (Head(q) = p => ~Queued(Tail(q), p))
  BY <1>1 DEF SoleSlot, Queued
<1> QED
  BY <1>2, <1>3, <1>4, <1>5

\* The same for messages, by the key they are about.
LEMMA MsgQueuedAppend ==
  ASSUME NEW S, NEW q \in Seq(S), NEW x \in S, NEW p
  PROVE  /\ MsgQueued(Append(q, x), p) <=> MsgQueued(q, p) \/ x.key = p
         /\ SoleMsg(q, p) /\ (x.key = p => ~MsgQueued(q, p)) => SoleMsg(Append(q, x), p)
BY DEF MsgQueued, SoleMsg

\* Popping a message takes away the head's place only.
LEMMA MsgQueuedTail ==
  ASSUME NEW S, NEW q \in Seq(S), q # <<>>, NEW p
  PROVE  /\ MsgQueued(q, p) <=> Head(q).key = p \/ MsgQueued(Tail(q), p)
         /\ SoleMsg(q, p) => SoleMsg(Tail(q), p) /\ (Head(q).key = p => ~MsgQueued(Tail(q), p))
BY DEF MsgQueued, SoleMsg

-----------------------------------------------------------------------------
\* At start nobody has anything.
LEMMA CustodyInit == Init => Custody
<1> SUFFICES ASSUME Init, NEW p \in Package PROVE Exclusive(p) /\ Counted(p) /\ Single(p)
  BY DEF Custody, ExclusiveProcessing, RefsCounted, OneMessage
<1>1. p # 0 /\ p # Invalid
  BY PipelineAssumption DEF Package, Invalid
<1>2. ~Queued(<<>>, p) /\ ~MsgQueued(<<>>, p) /\ SoleSlot(<<>>, p) /\ SoleMsg(<<>>, p)
  BY DEF Queued, MsgQueued, SoleSlot, SoleMsg
<1>3. /\ mpc = "sleep" /\ fetchQ = <<>> /\ checkQ = <<>> /\ alarmQ = <<>>
      /\ \A f \in Fetchers : fpkg[f] = 0
      /\ \A c \in Checkers : cpkg[c] = 0
      /\ \A a \in Alarmers : sending[a].key = Invalid
      /\ msgRefs[p] = {}
  BY DEF Init, NoMsg, Msg
<1> QED
  BY <1>1, <1>2, <1>3
     DEF Exclusive, Counted, Single, InCustody, InStages, InFetching, InChecking,
         AtSubmit, AtOkAlarm, AtFetcher, AtChecker, InAlarm

\* What a blocking push into the alarm pool adds.
LEMMA EndPushAdds ==
  ASSUME TypeOK, NEW t, NEW m \in [key : Key, code : Code], EndPush(t, m), NEW p
  PROVE  /\ MsgQueued(alarmQ', p) <=> MsgQueued(alarmQ, p) \/ m.key = p
         /\ SoleMsg(alarmQ, p) /\ (m.key = p => ~MsgQueued(alarmQ, p)) => SoleMsg(alarmQ', p)
<1> DEFINE Message == [key : Key, code : Code]
<1>1. alarmQ \in Seq(Message) /\ m \in Message /\ alarmQ' = Append(alarmQ, m)
  BY DEF TypeOK, AlarmQueueOK, EndPush
<1> HIDE DEF Message
<1> QED
  BY <1>1, MsgQueuedAppend

\* Every step keeps custody: per action, for a package it does not touch and for its own.
LEMMA CustodyStep == TypeOK /\ Custody /\ [Next]_vars => Custody'
<1> SUFFICES ASSUME TypeOK, [Next]_vars, Custody, NEW p \in Package
             PROVE  Exclusive(p)' /\ Counted(p)' /\ Single(p)'
  BY DEF Custody, ExclusiveProcessing, RefsCounted, OneMessage
<1>a. Exclusive(p) /\ Counted(p) /\ Single(p)
  BY DEF Custody, ExclusiveProcessing, RefsCounted, OneMessage
<1>b. p # 0 /\ p # Invalid
  BY PipelineAssumption DEF Package, Invalid
<1> USE DEF Exclusive, Counted, Single, InCustody, InStages, InFetching, InChecking,
        AtSubmit, AtOkAlarm, AtFetcher, AtChecker, InAlarm,
        mainVars, pkgVars, queueVars, fetchVars, checkVars, InternalKey, TypeOK, MainOK,
        PackagesOK, FetchersOK, CheckersOK, SendingOK, RefsOK
<1>1. CASE UNCHANGED vars
  BY <1>a, <1>1 DEF vars
<1>2. CASE Tick
  <2>1. Exclusive(p)'
    BY <1>2, <1>a, <1>b DEF Tick
  <2>2. Counted(p)'
    BY <1>2, <1>a, <1>b DEF Tick
  <2>3. Single(p)'
    BY <1>2, <1>a, <1>b DEF Tick
  <2> QED
    BY <2>1, <2>2, <2>3
<1>3. CASE MainWake
  <2>1. Exclusive(p)'
    BY <1>3, <1>a, <1>b DEF MainWake
  <2>2. Counted(p)'
    BY <1>3, <1>a, <1>b DEF MainWake
  <2>3. Single(p)'
    BY <1>3, <1>a, <1>b DEF MainWake
  <2> QED
    BY <2>1, <2>2, <2>3
<1>4. CASE MainReady
  <2>1. Exclusive(p)'
    <3>1. CASE p = cursor /\ IsReady(cursor)
      BY <1>4, <1>a, <1>b, <3>1 DEF MainReady, IsReady
    <3>2. CASE p # cursor \/ ~IsReady(cursor)
      BY <1>4, <1>a, <1>b, <3>2 DEF MainReady
    <3> QED
      BY <3>1, <3>2
  <2>2. Counted(p)'
    BY <1>4, <1>a, <1>b DEF MainReady
  <2>3. Single(p)'
    BY <1>4, <1>a, <1>b DEF MainReady
  <2> QED
    BY <2>1, <2>2, <2>3
<1>5. CASE MainRecheck
  <2>1. Exclusive(p)'
    BY <1>5, <1>a, <1>b DEF MainRecheck, NextPackage
  <2>2. Counted(p)'
    BY <1>5, <1>a, <1>b DEF MainRecheck, NextPackage
  <2>3. Single(p)'
    BY <1>5, <1>a, <1>b DEF MainRecheck, NextPackage
  <2> QED
    BY <2>1, <2>2, <2>3
<1>6. CASE MainOkAlarm
  <2>1. Exclusive(p)'
    BY <1>6, <1>a, <1>b DEF MainOkAlarm, BeginPush
  <2>2. Counted(p)'
    BY <1>6, <1>a, <1>b DEF MainOkAlarm, BeginPush
  <2>3. Single(p)'
    BY <1>6, <1>a, <1>b DEF MainOkAlarm, BeginPush
  <2> QED
    BY <2>1, <2>2, <2>3
<1>7. CASE MainOkPut
  <2>1. Msg(cursor, "OK") \in [key : Key, code : Code] /\ Msg(cursor, "OK").key = cursor
    BY PipelineAssumption DEF Msg, Key, Code, InternalKey, TypeOK, MainOK, Package
  <2>2. (MsgQueued(alarmQ', p) <=> MsgQueued(alarmQ, p) \/ cursor = p)
        /\ (SoleMsg(alarmQ, p) /\ (cursor = p => ~MsgQueued(alarmQ, p)) => SoleMsg(alarmQ', p))
    BY <1>7, <2>1, EndPushAdds DEF MainOkPut
  <2>3. Exclusive(p)'
    BY <1>7, <1>a, <1>b, <2>1, <2>2 DEF MainOkPut, EndPush
  <2>4. Counted(p)'
    BY <1>7, <1>a, <1>b, <2>1, <2>2 DEF MainOkPut, EndPush
  <2>5. Single(p)'
    BY <1>7, <1>a, <1>b, <2>1, <2>2 DEF MainOkPut, EndPush
  <2> QED
    BY <2>3, <2>4, <2>5
<1>8. CASE MainOkDone
  <2>1. Exclusive(p)'
    BY <1>8, <1>a, <1>b DEF MainOkDone, DropRef, NextPackage
  <2>2. Counted(p)'
    BY <1>8, <1>a, <1>b DEF MainOkDone, DropRef, NextPackage
  <2>3. Single(p)'
    BY <1>8, <1>a, <1>b DEF MainOkDone, DropRef, NextPackage
  <2> QED
    BY <2>1, <2>2, <2>3
<1>9. CASE MainSubmit
  <2>1. Exclusive(p)'
    BY <1>9, <1>a, <1>b DEF MainSubmit
  <2>2. Counted(p)'
    BY <1>9, <1>a, <1>b DEF MainSubmit
  <2>3. Single(p)'
    BY <1>9, <1>a, <1>b DEF MainSubmit
  <2> QED
    BY <2>1, <2>2, <2>3
<1>10. CASE MainEnqueue
  <2>1. (Queued(fetchQ', p) <=> Queued(fetchQ, p) \/ cursor = p)
        /\ (SoleSlot(fetchQ, p) /\ (cursor = p => ~Queued(fetchQ, p)) => SoleSlot(fetchQ', p))
    BY <1>10, QueuedAppend DEF MainEnqueue, TypeOK, FetchQueueOK, MainOK
  <2>2. Exclusive(p)'
    BY <1>10, <1>a, <1>b, <2>1 DEF MainEnqueue, NextPackage
  <2>3. Counted(p)'
    BY <1>10, <1>a, <1>b, <2>1 DEF MainEnqueue, NextPackage
  <2>4. Single(p)'
    BY <1>10, <1>a, <1>b, <2>1 DEF MainEnqueue, NextPackage
  <2> QED
    BY <2>2, <2>3, <2>4
<1>11. CASE MainInternalOk
  <2>1. Exclusive(p)'
    BY <1>11, <1>a, <1>b DEF MainInternalOk, BeginPush
  <2>2. Counted(p)'
    BY <1>11, <1>a, <1>b DEF MainInternalOk, BeginPush
  <2>3. Single(p)'
    BY <1>11, <1>a, <1>b DEF MainInternalOk, BeginPush
  <2> QED
    BY <2>1, <2>2, <2>3
<1>12. CASE MainInternalPut
  <2>1. Msg(InternalKey, "OK") \in [key : Key, code : Code] /\ Msg(InternalKey, "OK").key = InternalKey
    BY PipelineAssumption DEF Msg, Key, Code, InternalKey, TypeOK
  <2>2. (MsgQueued(alarmQ', p) <=> MsgQueued(alarmQ, p) \/ InternalKey = p)
        /\ (SoleMsg(alarmQ, p) /\ (InternalKey = p => ~MsgQueued(alarmQ, p)) => SoleMsg(alarmQ', p))
    BY <1>12, <2>1, EndPushAdds DEF MainInternalPut
  <2>3. Exclusive(p)'
    BY <1>12, <1>a, <1>b, <2>1, <2>2 DEF MainInternalPut, EndPush
  <2>4. Counted(p)'
    BY <1>12, <1>a, <1>b, <2>1, <2>2 DEF MainInternalPut, EndPush
  <2>5. Single(p)'
    BY <1>12, <1>a, <1>b, <2>1, <2>2 DEF MainInternalPut, EndPush
  <2> QED
    BY <2>3, <2>4, <2>5
<1>13. CASE MainInternalDone
  <2>1. Exclusive(p)'
    BY <1>13, <1>a, <1>b DEF MainInternalDone, NextPackage
  <2>2. Counted(p)'
    BY <1>13, <1>a, <1>b DEF MainInternalDone, NextPackage
  <2>3. Single(p)'
    BY <1>13, <1>a, <1>b DEF MainInternalDone, NextPackage
  <2> QED
    BY <2>1, <2>2, <2>3
<1>14. ASSUME NEW f \in Fetchers, FetcherTake(f) PROVE Exclusive(p)' /\ Counted(p)' /\ Single(p)'
  <2>1. (Queued(fetchQ, p) <=> Head(fetchQ) = p \/ Queued(fetchQ', p))
        /\ (SoleSlot(fetchQ, p) => SoleSlot(fetchQ', p) /\ (Head(fetchQ) = p => ~Queued(fetchQ', p)))
    BY <1>14, QueuedTail DEF FetcherTake, TypeOK, FetchQueueOK
  <2>2. Exclusive(p)'
    BY <1>14, <1>a, <1>b, <2>1 DEF FetcherTake
  <2>3. Counted(p)'
    BY <1>14, <1>a, <1>b, <2>1 DEF FetcherTake
  <2>4. Single(p)'
    BY <1>14, <1>a, <1>b, <2>1 DEF FetcherTake
  <2> QED
    BY <2>2, <2>3, <2>4
<1>15. ASSUME NEW f \in Fetchers, FetcherRetrieved(f) PROVE Exclusive(p)' /\ Counted(p)' /\ Single(p)'
  <2>1. Exclusive(p)'
    BY <1>15, <1>a, <1>b DEF FetcherRetrieved
  <2>2. Counted(p)'
    BY <1>15, <1>a, <1>b DEF FetcherRetrieved
  <2>3. Single(p)'
    BY <1>15, <1>a, <1>b DEF FetcherRetrieved
  <2> QED
    BY <2>1, <2>2, <2>3
<1>16. ASSUME NEW f \in Fetchers, FetcherFailed(f) PROVE Exclusive(p)' /\ Counted(p)' /\ Single(p)'
  <2>1. Exclusive(p)'
    BY <1>16, <1>a, <1>b DEF FetcherFailed
  <2>2. Counted(p)'
    BY <1>16, <1>a, <1>b DEF FetcherFailed
  <2>3. Single(p)'
    BY <1>16, <1>a, <1>b DEF FetcherFailed
  <2> QED
    BY <2>1, <2>2, <2>3
<1>17. ASSUME NEW f \in Fetchers, FetcherAlarm(f) PROVE Exclusive(p)' /\ Counted(p)' /\ Single(p)'
  <2>1. Exclusive(p)'
    BY <1>17, <1>a, <1>b DEF FetcherAlarm, BeginPush
  <2>2. Counted(p)'
    BY <1>17, <1>a, <1>b DEF FetcherAlarm, BeginPush
  <2>3. Single(p)'
    BY <1>17, <1>a, <1>b DEF FetcherAlarm, BeginPush
  <2> QED
    BY <2>1, <2>2, <2>3
<1>18. ASSUME NEW f \in Fetchers, FetcherAlarmPut(f) PROVE Exclusive(p)' /\ Counted(p)' /\ Single(p)'
  <2>1. Msg(InternalKey, "CRITICAL") \in [key : Key, code : Code] /\ Msg(InternalKey, "CRITICAL").key = InternalKey
    BY PipelineAssumption DEF Msg, Key, Code, InternalKey, TypeOK, InternalAlarm
  <2>2. (MsgQueued(alarmQ', p) <=> MsgQueued(alarmQ, p) \/ InternalKey = p)
        /\ (SoleMsg(alarmQ, p) /\ (InternalKey = p => ~MsgQueued(alarmQ, p)) => SoleMsg(alarmQ', p))
    BY <1>18, <2>1, EndPushAdds DEF FetcherAlarmPut, InternalAlarm
  <2>3. Exclusive(p)'
    BY <1>18, <1>a, <1>b, <2>1, <2>2 DEF FetcherAlarmPut, EndPush
  <2>4. Counted(p)'
    BY <1>18, <1>a, <1>b, <2>1, <2>2 DEF FetcherAlarmPut, EndPush
  <2>5. Single(p)'
    BY <1>18, <1>a, <1>b, <2>1, <2>2 DEF FetcherAlarmPut, EndPush
  <2> QED
    BY <2>3, <2>4, <2>5
<1>19. ASSUME NEW f \in Fetchers, FetcherStamp(f) PROVE Exclusive(p)' /\ Counted(p)' /\ Single(p)'
  <2>1. Exclusive(p)'
    BY <1>19, <1>a, <1>b DEF FetcherStamp
  <2>2. Counted(p)'
    BY <1>19, <1>a, <1>b DEF FetcherStamp
  <2>3. Single(p)'
    BY <1>19, <1>a, <1>b DEF FetcherStamp
  <2> QED
    BY <2>1, <2>2, <2>3
<1>20. ASSUME NEW f \in Fetchers, FetcherRelease(f) PROVE Exclusive(p)' /\ Counted(p)' /\ Single(p)'
  <2>1. Exclusive(p)'
    BY <1>20, <1>a, <1>b DEF FetcherRelease, FetcherIdles
  <2>2. Counted(p)'
    BY <1>20, <1>a, <1>b DEF FetcherRelease, FetcherIdles
  <2>3. Single(p)'
    BY <1>20, <1>a, <1>b DEF FetcherRelease, FetcherIdles
  <2> QED
    BY <2>1, <2>2, <2>3
<1>21. ASSUME NEW f \in Fetchers, FetcherMakeItem(f) PROVE Exclusive(p)' /\ Counted(p)' /\ Single(p)'
  <2>1. Exclusive(p)'
    BY <1>21, <1>a, <1>b DEF FetcherMakeItem
  <2>2. Counted(p)'
    BY <1>21, <1>a, <1>b DEF FetcherMakeItem
  <2>3. Single(p)'
    BY <1>21, <1>a, <1>b DEF FetcherMakeItem
  <2> QED
    BY <2>1, <2>2, <2>3
<1>22. ASSUME NEW f \in Fetchers, FetcherCheckPut(f) PROVE Exclusive(p)' /\ Counted(p)' /\ Single(p)'
  <2>1. fpkg[f] \in Package
    BY <1>22 DEF FetcherCheckPut, TypeOK, FetchersOK, Key, Package
  <2>2. (Queued(checkQ', p) <=> Queued(checkQ, p) \/ fpkg[f] = p)
        /\ (SoleSlot(checkQ, p) /\ (fpkg[f] = p => ~Queued(checkQ, p)) => SoleSlot(checkQ', p))
    BY <1>22, <2>1, QueuedAppend DEF FetcherCheckPut, TypeOK, CheckQueueOK
  <2>3. Exclusive(p)'
    BY <1>22, <1>a, <1>b, <2>1, <2>2 DEF FetcherCheckPut, FetcherIdles
  <2>4. Counted(p)'
    BY <1>22, <1>a, <1>b, <2>1, <2>2 DEF FetcherCheckPut, FetcherIdles
  <2>5. Single(p)'
    BY <1>22, <1>a, <1>b, <2>1, <2>2 DEF FetcherCheckPut, FetcherIdles
  <2> QED
    BY <2>3, <2>4, <2>5
<1>23. ASSUME NEW c \in Checkers, CheckerTake(c) PROVE Exclusive(p)' /\ Counted(p)' /\ Single(p)'
  <2>1. (Queued(checkQ, p) <=> Head(checkQ) = p \/ Queued(checkQ', p))
        /\ (SoleSlot(checkQ, p) => SoleSlot(checkQ', p) /\ (Head(checkQ) = p => ~Queued(checkQ', p)))
    BY <1>23, QueuedTail DEF CheckerTake, TypeOK, CheckQueueOK
  <2>2. Exclusive(p)'
    BY <1>23, <1>a, <1>b, <2>1 DEF CheckerTake
  <2>3. Counted(p)'
    BY <1>23, <1>a, <1>b, <2>1 DEF CheckerTake
  <2>4. Single(p)'
    BY <1>23, <1>a, <1>b, <2>1 DEF CheckerTake
  <2> QED
    BY <2>2, <2>3, <2>4
<1>24. ASSUME NEW c \in Checkers, CheckerCheck(c) PROVE Exclusive(p)' /\ Counted(p)' /\ Single(p)'
  <2>1. Exclusive(p)'
    BY <1>24, <1>a, <1>b DEF CheckerCheck
  <2>2. Counted(p)'
    BY <1>24, <1>a, <1>b DEF CheckerCheck
  <2>3. Single(p)'
    BY <1>24, <1>a, <1>b DEF CheckerCheck
  <2> QED
    BY <2>1, <2>2, <2>3
<1>25. ASSUME NEW c \in Checkers, CheckerAlarm(c) PROVE Exclusive(p)' /\ Counted(p)' /\ Single(p)'
  <2>1. Exclusive(p)'
    BY <1>25, <1>a, <1>b DEF CheckerAlarm, BeginPush
  <2>2. Counted(p)'
    BY <1>25, <1>a, <1>b DEF CheckerAlarm, BeginPush
  <2>3. Single(p)'
    BY <1>25, <1>a, <1>b DEF CheckerAlarm, BeginPush
  <2> QED
    BY <2>1, <2>2, <2>3
<1>26. ASSUME NEW c \in Checkers, CheckerAlarmPut(c) PROVE Exclusive(p)' /\ Counted(p)' /\ Single(p)'
  <2>1. Msg(cpkg[c], "CRITICAL") \in [key : Key, code : Code] /\ Msg(cpkg[c], "CRITICAL").key = cpkg[c]
    BY PipelineAssumption DEF Msg, Key, Code, InternalKey, TypeOK, CheckersOK
  <2>2. (MsgQueued(alarmQ', p) <=> MsgQueued(alarmQ, p) \/ cpkg[c] = p)
        /\ (SoleMsg(alarmQ, p) /\ (cpkg[c] = p => ~MsgQueued(alarmQ, p)) => SoleMsg(alarmQ', p))
    BY <1>26, <2>1, EndPushAdds DEF CheckerAlarmPut
  <2>3. Exclusive(p)'
    BY <1>26, <1>a, <1>b, <2>1, <2>2 DEF CheckerAlarmPut, EndPush
  <2>4. Counted(p)'
    BY <1>26, <1>a, <1>b, <2>1, <2>2 DEF CheckerAlarmPut, EndPush
  <2>5. Single(p)'
    BY <1>26, <1>a, <1>b, <2>1, <2>2 DEF CheckerAlarmPut, EndPush
  <2> QED
    BY <2>3, <2>4, <2>5
<1>27. ASSUME NEW c \in Checkers, CheckerFinish(c) PROVE Exclusive(p)' /\ Counted(p)' /\ Single(p)'
  <2>1. Exclusive(p)'
    BY <1>27, <1>a, <1>b DEF CheckerFinish, DropRef
  <2>2. Counted(p)'
    BY <1>27, <1>a, <1>b DEF CheckerFinish, DropRef
  <2>3. Single(p)'
    BY <1>27, <1>a, <1>b DEF CheckerFinish, DropRef
  <2> QED
    BY <2>1, <2>2, <2>3
<1>28. ASSUME NEW a \in Alarmers, AlarmTake(a) PROVE Exclusive(p)' /\ Counted(p)' /\ Single(p)'
  <2>1. (MsgQueued(alarmQ, p) <=> Head(alarmQ).key = p \/ MsgQueued(alarmQ', p))
        /\ (SoleMsg(alarmQ, p) => SoleMsg(alarmQ', p) /\ (Head(alarmQ).key = p => ~MsgQueued(alarmQ', p)))
    BY <1>28, MsgQueuedTail DEF AlarmTake, TypeOK, AlarmQueueOK
  <2>2. InAlarm(p)' <=> InAlarm(p)
    BY <1>28, <1>b, <2>1 DEF AlarmTake, NoMsg, Msg
  <2>3. Exclusive(p)'
    BY <1>28, <1>a, <1>b, <2>1, <2>2 DEF AlarmTake
  <2>4. Counted(p)'
    BY <1>28, <1>a, <1>b, <2>1, <2>2 DEF AlarmTake
  <2>5. Single(p)'
    BY <1>28, <1>a, <1>b, <2>1, <2>2 DEF AlarmTake
  <2> QED
    BY <2>3, <2>4, <2>5
<1>29. ASSUME NEW a \in Alarmers, AlarmSend(a) PROVE Exclusive(p)' /\ Counted(p)' /\ Single(p)'
  <2>1. CASE sending[a].key = p
    <3>1. /\ sending[a] # NoMsg
          /\ sending' = [sending EXCEPT ![a] = NoMsg]
          /\ DropRef(p, "alarm")
          /\ UNCHANGED <<mpc, cursor, fetchQ, checkQ, alarmQ, fpc, fpkg, cpc, cpkg>>
      BY <1>29, <2>1 DEF AlarmSend
    <3>2. /\ NoMsg.key # p
          /\ ~MsgQueued(alarmQ, p)
          /\ \A b \in Alarmers : sending[b].key = p => b = a
      BY <1>a, <1>b, <2>1 DEF NoMsg, Msg
    <3>3. ~InAlarm(p)'
      BY <3>1, <3>2
    <3> QED
      BY <1>a, <2>1, <3>1, <3>3 DEF DropRef
  <2>2. CASE sending[a].key # p
    <3>1. /\ sending' = [sending EXCEPT ![a] = NoMsg]
          /\ msgRefs'[p] = msgRefs[p] /\ state'[p] = state[p]
          /\ UNCHANGED <<mpc, cursor, fetchQ, checkQ, alarmQ, fpc, fpkg, cpc, cpkg>>
      BY <1>29, <2>2 DEF AlarmSend, DropRef
    <3>2. NoMsg.key # p
      BY <1>b DEF NoMsg, Msg
    <3> QED
      BY <1>a, <2>2, <3>1, <3>2
  <2> QED
    BY <2>1, <2>2
<1> QED
  BY <1>1, <1>2, <1>3, <1>4, <1>5, <1>6, <1>7, <1>8, <1>9, <1>10, <1>11, <1>12, <1>13,
        <1>14, <1>15, <1>16, <1>17, <1>18, <1>19, <1>20, <1>21, <1>22, <1>23, <1>24,
        <1>25, <1>26, <1>27, <1>28, <1>29
     DEF Next, MainLoop, FetcherThread, CheckerThread, AlarmThread

(* The whole invariant, from the start and for ever.                       *)
THEOREM CustodyHolds == Spec => []Custody
BY CustodyInit, CustodyStep, TypeCorrect, PTL DEF Spec

(* One owner: no interleaving of the pools' threads and the main loop lets *)
(* two of them work on one policy, or frees a policy somebody works on.    *)
THEOREM Exclusion == Spec => []ExclusiveProcessing
<1>1. Custody => ExclusiveProcessing
  BY DEF Custody
<1> QED
  BY <1>1, CustodyHolds, PTL

(* The references to a policy's AlarmMsg are those of the threads and      *)
(* queues that have to do with it, so the last one to let go, and no other,*)
(* makes the policy IDLE (AlarmMsg::~AlarmMsg).                            *)
THEOREM ReferencesAreCounted == Spec => []RefsCounted
<1>1. Custody => RefsCounted
  BY DEF Custody
<1> QED
  BY <1>1, CustodyHolds, PTL

(* Two messages about one policy are never on their way together, so an OK *)
(* code and an alarm cannot overtake each other in the alarm pool.         *)
THEOREM MessagesDoNotOvertake == Spec => []OneMessage
<1>1. Custody => OneMessage
  BY DEF Custody
<1> QED
  BY <1>1, CustodyHolds, PTL
-----------------------------------------------------------------------------
(***************************************************************************)
(* What the pipeline promises about time, for any intervals.               *)
(***************************************************************************)

(* Fetching.  The time a package's next fetch is due lies before the time  *)
(* with which the stage that has it will stamp it.                         *)

Gap(p) == FetchInterval[p] * SecTicks
Due(p, t) == lastRetrieve[p] + Gap(p) <= t

FetchTimes ==
  /\ curTime <= now
  /\ \A p \in Package : AtSubmit(p) => Due(p, curTime)
  /\ \A p \in Package : Queued(fetchQ, p) => Due(p, now)
  /\ \A f \in Fetchers : fpc[f] = "retrieve" => Due(fpkg[f], fstart[f])

\* An interval is a number of ticks.
LEMMA GapType == ASSUME NEW p \in Package PROVE Gap(p) \in Nat
<1>1. FetchInterval[p] \in Nat /\ SecTicks \in Nat
  BY PipelineAssumption
<1> QED
  BY <1>1 DEF Gap

\* The numbers the comparisons are about.
LEMMA TimeTypes ==
  ASSUME TypeOK
  PROVE  /\ now \in Nat /\ Start \in Nat /\ Start <= now /\ curTime \in Nat
         /\ \A p \in Package : lastRetrieve[p] \in Nat
         /\ \A f \in Fetchers : fstart[f] \in Nat
         /\ \A f \in Fetchers : fpc[f] # "idle" => fpkg[f] \in Package
BY PipelineAssumption DEF TypeOK, TimeOK, MainOK, PackagesOK, FetchersOK, Key, Package

\* Initially nothing is being fetched.
LEMMA FetchTimesInit == Init => FetchTimes
<1> SUFFICES ASSUME Init PROVE FetchTimes
  OBVIOUS
<1>1. Start \in Nat
  BY PipelineAssumption
<1> QED
  BY <1>1 DEF Init, FetchTimes, AtSubmit, Queued

\* The clock goes on.
LEMMA FetchTimesTick == ASSUME TypeOK, FetchTimes, Tick PROVE FetchTimes'
<1>1. now' = now + 1 /\ UNCHANGED <<mainVars, pkgVars, queueVars, fetchVars>>
  BY DEF Tick
<1>2. \A p \in Package : Queued(fetchQ, p) => Due(p, now')
  BY <1>1, TimeTypes, GapType DEF FetchTimes, Due
<1> QED
  BY <1>1, <1>2, TimeTypes
  DEF FetchTimes, AtSubmit, Queued, Due, mainVars, pkgVars, queueVars, fetchVars

\* Steps of the main loop that stay on a package or leave it unfetched.
LEMMA FetchTimesAside ==
  ASSUME TypeOK, FetchTimes, UNCHANGED <<now, lastRetrieve, fetchQ, fetchVars>>,
         curTime' = curTime \/ curTime' = Start \/ curTime' = now,
         \A p \in Package : AtSubmit(p)' => AtSubmit(p) /\ curTime' = curTime
  PROVE  FetchTimes'
BY TimeTypes DEF FetchTimes, Queued, Due, fetchVars

\* A ready package is due at the time the pass began with.
LEMMA FetchTimesReady == ASSUME TypeOK, FetchTimes, MainReady PROVE FetchTimes'
<1>1. CASE IsReady(cursor)
  <2>1. Due(cursor, curTime)
    BY <1>1 DEF IsReady, Due, Gap
  <2> QED
    BY <1>1, <2>1, TimeTypes
    DEF MainReady, FetchTimes, AtSubmit, Queued, Due, queueVars, fetchVars
<1>2. CASE ~IsReady(cursor)
  <2>1. \A p \in Package : ~AtSubmit(p)'
    BY <1>2 DEF MainReady, AtSubmit
  <2> QED
    BY <1>2, <2>1, FetchTimesAside DEF MainReady, queueVars
<1> QED
  BY <1>1, <1>2

\* What goes on with the next package is at no submission.
LEMMA NextPackageAside ==
  ASSUME NextPackage
  PROVE  /\ \A p \in Package : ~AtSubmit(p)'
         /\ curTime' = curTime \/ curTime' = Start
BY DEF NextPackage, AtSubmit

\* The package is put into the queue.
LEMMA FetchTimesEnqueue == ASSUME TypeOK, FetchTimes, MainEnqueue PROVE FetchTimes'
<1>1. fetchQ' = Append(fetchQ, cursor) /\ cursor \in Package /\ fetchQ \in Seq(Package)
  BY DEF MainEnqueue, TypeOK, MainOK, FetchQueueOK
<1>2. Due(cursor, now)
  BY <1>1, TimeTypes, GapType DEF MainEnqueue, FetchTimes, AtSubmit, Due
<1>3. \A p \in Package : Queued(fetchQ', p) => Queued(fetchQ, p) \/ p = cursor
  BY <1>1, QueuedAppend
<1>4. UNCHANGED <<now, lastRetrieve, fpc, fpkg, fstart>>
  BY DEF MainEnqueue, pkgVars, fetchVars
<1>5. \A p \in Package : ~AtSubmit(p)'
  BY NextPackageAside DEF MainEnqueue
<1>6. curTime' <= now'
  BY <1>4, NextPackageAside, TimeTypes DEF MainEnqueue, FetchTimes
<1> QED
  BY <1>2, <1>3, <1>4, <1>5, <1>6 DEF FetchTimes, Due

\* A fetcher takes it, with the time it does so.
LEMMA FetchTimesTake ==
  ASSUME TypeOK, FetchTimes, NEW f \in Fetchers, FetcherTake(f) PROVE FetchTimes'
<1>1. fetchQ \in Seq(Package) /\ fetchQ # <<>>
  BY DEF FetcherTake, TypeOK, FetchQueueOK
<1>2. Head(fetchQ) \in Package /\ Queued(fetchQ, Head(fetchQ))
  BY <1>1, HeadTail, QueuedTail
<1>3. \A p \in Package : Queued(fetchQ', p) => Queued(fetchQ, p)
  BY <1>1, QueuedTail DEF FetcherTake
<1>4. UNCHANGED <<now, lastRetrieve, mpc, cursor, curTime>>
  BY DEF FetcherTake, mainVars, pkgVars
<1>5. /\ fpc'[f] = "retrieve" /\ fpkg'[f] = Head(fetchQ) /\ fstart'[f] = now
      /\ \A g \in Fetchers : g # f => fpc'[g] = fpc[g] /\ fpkg'[g] = fpkg[g] /\ fstart'[g] = fstart[g]
  BY DEF FetcherTake, TypeOK, FetchersOK
<1> QED
  BY <1>2, <1>3, <1>4, <1>5 DEF FetchTimes, AtSubmit, Due

\* It is stamped: nobody else has it, so no other time is measured by its stamp.
LEMMA FetchTimesRetrieved ==
  ASSUME TypeOK, ExclusiveProcessing, FetchTimes, NEW f \in Fetchers, FetcherRetrieved(f)
  PROVE  FetchTimes'
<1> DEFINE q == fpkg[f]
<1>1. q \in Package
  BY TimeTypes DEF FetcherRetrieved
<1>2. AtFetcher(q) /\ Exclusive(q)
  BY <1>1 DEF AtFetcher, ExclusiveProcessing
<1>3. ~AtSubmit(q) /\ ~Queued(fetchQ, q) /\ \A g \in Fetchers : fpkg[g] = q => g = f
  BY <1>2 DEF Exclusive
<1>4. \A p \in Package : p # q => lastRetrieve'[p] = lastRetrieve[p]
  BY DEF FetcherRetrieved, TypeOK, PackagesOK
<1>5. UNCHANGED <<now, mpc, cursor, curTime, fetchQ, fpkg, fstart>>
  BY DEF FetcherRetrieved, mainVars, queueVars
<1>6. fpc'[f] = "check" /\ \A g \in Fetchers : g # f => fpc'[g] = fpc[g]
  BY DEF FetcherRetrieved, TypeOK, FetchersOK
<1> HIDE DEF q
<1>7. \A g \in Fetchers : fpc'[g] = "retrieve" => g # f /\ fpkg[g] \in Package /\ fpkg[g] # q
  BY <1>3, <1>6, TimeTypes
<1> QED
  BY <1>3, <1>4, <1>5, <1>6, <1>7 DEF FetchTimes, AtSubmit, Queued, Due

\* Other steps of fetchers.
LEMMA FetchTimesFetcher ==
  ASSUME TypeOK, FetchTimes, NEW f \in Fetchers,
         \/ FetcherFailed(f) \/ FetcherAlarm(f) \/ FetcherAlarmPut(f) \/ FetcherStamp(f)
         \/ FetcherRelease(f) \/ FetcherMakeItem(f) \/ FetcherCheckPut(f)
  PROVE  FetchTimes'
<1>1. UNCHANGED <<now, mpc, cursor, curTime, lastRetrieve, fetchQ>>
  BY DEF FetcherFailed, FetcherAlarm, FetcherAlarmPut, FetcherStamp, FetcherRelease,
         FetcherMakeItem, FetcherCheckPut, EndPush, mainVars, pkgVars, queueVars
<1>2. /\ fpc'[f] # "retrieve"
      /\ \A g \in Fetchers : g # f => fpc'[g] = fpc[g] /\ fpkg'[g] = fpkg[g] /\ fstart'[g] = fstart[g]
  BY DEF FetcherFailed, FetcherAlarm, FetcherAlarmPut, FetcherStamp, FetcherRelease,
         FetcherMakeItem, FetcherCheckPut, FetcherIdles, TypeOK, FetchersOK
<1> QED
  BY <1>1, <1>2 DEF FetchTimes, AtSubmit, Queued, Due

\* Every step keeps the times in order.
LEMMA FetchTimesStep ==
  TypeOK /\ ExclusiveProcessing /\ FetchTimes /\ [Next]_vars => FetchTimes'
<1> SUFFICES ASSUME TypeOK, ExclusiveProcessing, FetchTimes, [Next]_vars PROVE FetchTimes'
  OBVIOUS
<1>1. CASE Tick
  BY <1>1, FetchTimesTick
<1>2. CASE MainLoop
  <2>1. CASE MainReady \/ MainEnqueue
    BY <2>1, FetchTimesReady, FetchTimesEnqueue
  <2>2. CASE MainWake
    <3>1. \A p \in Package : ~AtSubmit(p)'
      BY <2>2 DEF MainWake, AtSubmit
    <3> QED
      BY <2>2, <3>1, FetchTimesAside DEF MainWake, pkgVars, queueVars
  <2>3. CASE MainRecheck \/ MainOkDone \/ MainInternalDone
    <3>1. \/ NextPackage
          \/ mpc' = "okAlarm" /\ UNCHANGED curTime
      BY <2>3 DEF MainRecheck, MainOkDone, MainInternalDone
    <3>2. /\ \A p \in Package : ~AtSubmit(p)'
          /\ curTime' = curTime \/ curTime' = Start
      BY <3>1, NextPackageAside DEF AtSubmit
    <3>3. UNCHANGED <<now, lastRetrieve, fetchQ, fetchVars>>
      BY <2>3 DEF MainRecheck, MainOkDone, MainInternalDone, pkgVars, queueVars
    <3> QED
      BY <3>2, <3>3, FetchTimesAside
  <2>4. CASE MainOkAlarm \/ MainOkPut \/ MainSubmit \/ MainInternalOk \/ MainInternalPut
    <3>1. UNCHANGED <<now, lastRetrieve, fetchQ, fetchVars, curTime>>
      BY <2>4 DEF MainOkAlarm, MainOkPut, MainSubmit, MainInternalOk, MainInternalPut,
                  pkgVars, queueVars
    <3>2. \A p \in Package : AtSubmit(p)' => AtSubmit(p)
      BY <2>4 DEF MainOkAlarm, MainOkPut, MainSubmit, MainInternalOk, MainInternalPut, AtSubmit
    <3> QED
      BY <3>1, <3>2, FetchTimesAside
  <2> QED
    BY <1>2, <2>1, <2>2, <2>3, <2>4 DEF MainLoop
<1>3. ASSUME NEW f \in Fetchers, FetcherThread(f) PROVE FetchTimes'
  BY <1>3, FetchTimesTake, FetchTimesRetrieved, FetchTimesFetcher DEF FetcherThread
<1>4. CASE (\E c \in Checkers : CheckerThread(c)) \/ (\E a \in Alarmers : AlarmThread(a))
  <2>1. UNCHANGED <<now, mpc, cursor, curTime, lastRetrieve, fetchQ, fetchVars>>
    BY <1>4 DEF CheckerThread, CheckerTake, CheckerCheck, CheckerAlarm, CheckerAlarmPut,
                CheckerFinish, AlarmThread, AlarmTake, AlarmSend, mainVars, pkgVars, queueVars
  <2> QED
    BY <2>1, FetchTimesAside DEF AtSubmit
<1>5. CASE UNCHANGED vars
  BY <1>5, FetchTimesAside DEF vars, mainVars, pkgVars, queueVars, AtSubmit
<1> QED
  BY <1>1, <1>2, <1>3, <1>4, <1>5 DEF Next

(* Data of a policy is fetched again only after its fetch interval, though *)
(* readiness is decided with one time (RaApp::run) and the package stamped *)
(* with a later one (FetcherWorkItem::process).                            *)
THEOREM Pacing == Spec => FetchPacing
<1>1. TypeOK /\ FetchTimes /\ [Next]_vars
        => [\A p \in Package : lastRetrieve'[p] # lastRetrieve[p] =>
              lastRetrieve'[p] >= lastRetrieve[p] + FetchInterval[p] * SecTicks]_vars
  <2> SUFFICES ASSUME TypeOK, FetchTimes, Next, NEW p \in Package,
                      lastRetrieve'[p] # lastRetrieve[p]
               PROVE  lastRetrieve'[p] >= lastRetrieve[p] + FetchInterval[p] * SecTicks
    OBVIOUS
  <2>1. \E f \in Fetchers : FetcherRetrieved(f)
    BY DEF Next, Tick, MainLoop, MainWake, MainReady, MainRecheck, MainOkAlarm, MainOkPut,
           MainOkDone, MainSubmit, MainEnqueue, MainInternalOk, MainInternalPut,
           MainInternalDone, FetcherThread, FetcherTake, FetcherFailed, FetcherAlarm,
           FetcherAlarmPut, FetcherStamp, FetcherRelease, FetcherMakeItem, FetcherCheckPut,
           CheckerThread, CheckerTake, CheckerCheck, CheckerAlarm, CheckerAlarmPut,
           CheckerFinish, AlarmThread, AlarmTake, AlarmSend, pkgVars
  <2>2. PICK f \in Fetchers : FetcherRetrieved(f)
    BY <2>1
  <2>3. p = fpkg[f] /\ lastRetrieve'[p] = fstart[f]
    BY <2>2 DEF FetcherRetrieved, TypeOK, PackagesOK
  <2>4. Due(p, fstart[f])
    BY <2>2, <2>3 DEF FetcherRetrieved, FetchTimes
  <2>5. lastRetrieve[p] + Gap(p) <= lastRetrieve'[p]
    BY <2>3, <2>4 DEF Due
  <2>6. Gap(p) \in Nat /\ lastRetrieve[p] \in Nat /\ lastRetrieve'[p] \in Nat
    BY <2>3, TimeTypes, GapType
  <2>7. lastRetrieve'[p] >= lastRetrieve[p] + Gap(p)
    BY <2>5, <2>6
  <2> QED
    BY <2>7 DEF Gap
<1>2. Spec => []FetchTimes
  BY FetchTimesInit, FetchTimesStep, TypeCorrect, Exclusion, PTL DEF Spec
<1> QED
  BY <1>1, <1>2, TypeCorrect, PTL DEF Spec, FetchPacing
-----------------------------------------------------------------------------
(* Restraint.  A record that is kept tells when the last alarm was let     *)
(* through; where none is kept, that was longer ago than records live.     *)

RecordOf(k) ==
  /\ lastAlarm[k] # Invalid => lastAlarm[k] = lastAccepted[k]
  /\ lastAlarm[k] = Invalid /\ lastAccepted[k] # Invalid
       => Sec(now) - lastAccepted[k] > RecordExpire
RecordsTell == \A k \in Key : RecordOf(k)

\* Records live at least as long as the intervals they are needed for.
RecordsLiveLongEnough == \A k \in Key : MinAlarmInterval[k] <= RecordExpire

\* A step that makes and forgets no record, while time may pass.
LEMMA RecordsTellLater ==
  ASSUME TypeOK, RecordsTell, UNCHANGED <<lastAlarm, lastAccepted>>,
         now' = now \/ now' = now + 1
  PROVE  RecordsTell'
<1>1. now \in Nat /\ now' \in Nat /\ now <= now'
  BY TimeTypes
<1>2. Sec(now) \in Nat /\ Sec(now') \in Nat /\ Sec(now) <= Sec(now')
  BY <1>1, SecType, SecMonotone
<1>3. \A k \in Key : lastAccepted[k] \in Nat \cup {Invalid}
  BY DEF TypeOK, RecordsOK
<1>4. RecordExpire \in Nat
  BY PipelineAssumption
<1> QED
  BY <1>2, <1>3, <1>4 DEF RecordsTell, RecordOf, Sec, Invalid

\* What clearing keeps and forgets.
LEMMA RecordsKept ==
  ASSUME TypeOK, RecordsTell, NEW k \in Key
  PROVE  /\ Records[k] \in Nat \cup {Invalid}
         /\ Records[k] # Invalid => Records[k] = lastAccepted[k]
         /\ Records[k] = Invalid /\ lastAccepted[k] # Invalid
              => Sec(now) - lastAccepted[k] > RecordExpire
<1>1. lastAlarm[k] \in Nat \cup {Invalid} /\ RecordOf(k)
  BY DEF TypeOK, RecordsOK, RecordsTell
<1>2. Records[k] = lastAlarm[k] \/ (Records[k] = Invalid /\ Expired(k))
  <2>1. CASE ClearDue
    <3>1. Records[k] = IF Expired(k) THEN Invalid ELSE lastAlarm[k]
      BY <2>1 DEF Records
    <3> QED
      BY <3>1
  <2>2. CASE ~ClearDue
    BY <2>2 DEF Records
  <2> QED
    BY <2>1, <2>2
<1> QED
  BY <1>1, <1>2 DEF RecordOf, Expired

\* A call of pushAlarmMessage, whoever makes it.
LEMMA PushTells ==
  ASSUME TypeOK, RecordsTell, RecordsLiveLongEnough, NEW t, NEW m, m.key \in Key,
         BeginPush(t, m), UNCHANGED now
  PROVE  /\ RecordsTell'
         /\ \A k \in Key : lastAccepted'[k] # lastAccepted[k] =>
              \/ lastAccepted[k] = Invalid
              \/ lastAccepted'[k] - lastAccepted[k] >= MinAlarmInterval[k]
<1> DEFINE mk == m.key
<1>1. Records \in [Key -> Nat \cup {Invalid}] /\ Sec(now) \in Nat
  BY NowType DEF TypeOK, RecordsOK, Records
<1>2. lastAccepted \in [Key -> Nat \cup {Invalid}] /\ RecordExpire \in Nat
  BY PipelineAssumption DEF TypeOK, RecordsOK
<1>3. CASE Recorded(m)
  <2>1. /\ lastAlarm' = [Records EXCEPT ![mk] = Sec(now)]
        /\ lastAccepted' = [lastAccepted EXCEPT ![mk] = Sec(now)]
    BY <1>3 DEF BeginPush
  <2>2. Records[mk] = Invalid \/ Sec(now) - Records[mk] >= MinAlarmInterval[mk]
    <3>1. Records[mk] \in Nat \cup {Invalid} /\ MinAlarmInterval[mk] \in Nat
      BY <1>1, PipelineAssumption
    <3> QED
      BY <1>1, <1>3, <3>1 DEF Recorded, Restrained, Invalid
  <2>3. mk \in Key /\ MinAlarmInterval[mk] <= RecordExpire /\ MinAlarmInterval[mk] \in Nat
    BY PipelineAssumption DEF RecordsLiveLongEnough
  <2> HIDE DEF mk
  <2>4. \A k \in Key : k # mk => lastAlarm'[k] = Records[k] /\ lastAccepted'[k] = lastAccepted[k]
    BY <1>1, <1>2, <2>1
  <2>5. lastAlarm'[mk] = Sec(now) /\ lastAccepted'[mk] = Sec(now)
    BY <1>1, <1>2, <2>1, <2>3
  <2>6. RecordsTell'
    <3> SUFFICES ASSUME NEW k \in Key PROVE RecordOf(k)'
      BY DEF RecordsTell
    <3>1. CASE k = mk
      BY <1>1, <2>5, <3>1 DEF RecordOf, Invalid
    <3>2. CASE k # mk
      BY <2>4, <3>2, RecordsKept DEF RecordOf, Sec
    <3> QED
      BY <3>1, <3>2
  <2>7. lastAccepted[mk] = Invalid \/ Sec(now) - lastAccepted[mk] >= MinAlarmInterval[mk]
    BY <1>1, <1>2, <2>2, <2>3, RecordsKept
  <2> QED
    BY <2>4, <2>5, <2>6, <2>7
<1>4. CASE ~Recorded(m)
  <2>1. lastAlarm' = Records /\ lastAccepted' = lastAccepted
    BY <1>4 DEF BeginPush
  <2>2. RecordsTell'
    BY <2>1, RecordsKept DEF RecordsTell, RecordOf, Sec
  <2> QED
    BY <2>1, <2>2
<1> QED
  BY <1>3, <1>4

\* Only three kinds of thread call pushAlarmMessage, with messages of their own.
LEMMA WhoPushes ==
  ASSUME TypeOK, [Next]_vars
  PROVE  \/ /\ UNCHANGED <<lastAlarm, lastAccepted>>
            /\ now' = now \/ now' = now + 1
         \/ \E t \in Thread, m \in [key : Key, code : Code] : BeginPush(t, m) /\ UNCHANGED now
<1>1. CASE MainOkAlarm \/ MainInternalOk
  <2>1. Msg(cursor, "OK") \in [key : Key, code : Code]
    BY DEF TypeOK, MainOK, Msg, Key, Package, Code
  <2>2. Msg(InternalKey, "OK") \in [key : Key, code : Code]
    BY PipelineAssumption DEF InternalKey, Msg, Key, Code
  <2> QED
    BY <1>1, <2>1, <2>2 DEF MainOkAlarm, MainInternalOk, Thread
<1>2. ASSUME NEW f \in Fetchers, FetcherAlarm(f)
      PROVE  \E t \in Thread, m \in [key : Key, code : Code] : BeginPush(t, m) /\ UNCHANGED now
  <2>1. InternalAlarm \in [key : Key, code : Code]
    BY PipelineAssumption DEF InternalAlarm, InternalKey, Msg, Key, Code
  <2> QED
    BY <1>2, <2>1 DEF FetcherAlarm, Thread
<1>3. ASSUME NEW c \in Checkers, CheckerAlarm(c)
      PROVE  \E t \in Thread, m \in [key : Key, code : Code] : BeginPush(t, m) /\ UNCHANGED now
  <2>1. Msg(cpkg[c], "CRITICAL") \in [key : Key, code : Code]
    BY DEF TypeOK, CheckersOK, Msg, Code
  <2> QED
    BY <1>3, <2>1 DEF CheckerAlarm, Thread
<1>4. CASE Tick \/ UNCHANGED vars
  BY <1>4 DEF Tick, vars, alarmVars
<1>5. CASE MainLoop /\ ~(MainOkAlarm \/ MainInternalOk)
  BY <1>5 DEF MainLoop, MainWake, MainReady, MainRecheck, MainOkPut, MainOkDone, MainSubmit,
              MainEnqueue, MainInternalPut, MainInternalDone, alarmVars
<1>6. ASSUME NEW f \in Fetchers, FetcherThread(f), ~FetcherAlarm(f)
      PROVE  UNCHANGED <<now, lastAlarm, lastAccepted>>
  BY <1>6 DEF FetcherThread, FetcherTake, FetcherRetrieved, FetcherFailed, FetcherAlarmPut,
              FetcherStamp, FetcherRelease, FetcherMakeItem, FetcherCheckPut, alarmVars
<1>7. ASSUME NEW c \in Checkers, CheckerThread(c), ~CheckerAlarm(c)
      PROVE  UNCHANGED <<now, lastAlarm, lastAccepted>>
  BY <1>7 DEF CheckerThread, CheckerTake, CheckerCheck, CheckerAlarmPut, CheckerFinish,
              alarmVars
<1>8. ASSUME NEW a \in Alarmers, AlarmThread(a)
      PROVE  UNCHANGED <<now, lastAlarm, lastAccepted>>
  BY <1>8 DEF AlarmThread, AlarmTake, AlarmSend, alarmVars
<1> QED
  BY <1>1, <1>2, <1>3, <1>4, <1>5, <1>6, <1>7, <1>8 DEF Next

\* What a step does to the records and to the alarms let through.
LEMMA SpacingStep ==
  ASSUME TypeOK, RecordsTell, RecordsLiveLongEnough, [Next]_vars
  PROVE  /\ RecordsTell'
         /\ \A k \in Key : lastAccepted'[k] # lastAccepted[k] =>
              \/ lastAccepted[k] = Invalid
              \/ lastAccepted'[k] - lastAccepted[k] >= MinAlarmInterval[k]
<1>1. CASE /\ UNCHANGED <<lastAlarm, lastAccepted>>
           /\ now' = now \/ now' = now + 1
  BY <1>1, RecordsTellLater
<1>2. ASSUME NEW t \in Thread, NEW m \in [key : Key, code : Code], BeginPush(t, m),
             UNCHANGED now
      PROVE  /\ RecordsTell'
             /\ \A k \in Key : lastAccepted'[k] # lastAccepted[k] =>
                  \/ lastAccepted[k] = Invalid
                  \/ lastAccepted'[k] - lastAccepted[k] >= MinAlarmInterval[k]
  BY <1>2, PushTells
<1> QED
  BY <1>1, <1>2, WhoPushes

(* Two alarms of one policy are let through at least its minimal interval  *)
(* apart, though old records are forgotten (AlarmManager::pushAlarmMessage,*)
(* clearExpiredRecordTime), if records live long enough: the code takes    *)
(* any minAlarmInterval_s, and this says for which ones it keeps it.       *)
THEOREM Spacing == ASSUME RecordsLiveLongEnough PROVE Spec => AlarmSpacing
<1>1. Init => RecordsTell
  BY DEF Init, RecordsTell, RecordOf
<1>2. TypeOK /\ RecordsTell /\ [Next]_vars => RecordsTell'
  BY SpacingStep
<1>3. TypeOK /\ RecordsTell /\ [Next]_vars
        => [\A k \in Key : lastAccepted'[k] # lastAccepted[k] =>
              \/ lastAccepted[k] = Invalid
              \/ lastAccepted'[k] - lastAccepted[k] >= MinAlarmInterval[k]]_vars
  BY SpacingStep
<1> QED
  BY <1>1, <1>2, <1>3, TypeCorrect, PTL DEF Spec, AlarmSpacing
-----------------------------------------------------------------------------
(* OK codes.  Groups are told in order, so the last one acknowledges only  *)
(* when all have: it is the one that still shows an alarm.                 *)

LastShows == \A p \in Package : lastNonOk[p] # Invalid => Groups[p] \in showing[p]

\* Initially a package inherited an alarm all its groups show, or none.
LEMMA LastShowsInit == Init => LastShows
<1> SUFFICES ASSUME Init, NEW p \in Package, lastNonOk[p] # Invalid
             PROVE  Groups[p] \in showing[p]
  BY DEF LastShows
<1>1. Groups[p] \in Nat \ {0}
  BY PipelineAssumption
<1>2. showing[p] = 1..Groups[p]
  BY DEF Init
<1> QED
  BY <1>1, <1>2

\* A delivery, complete or not.
LEMMA LastShowsSend ==
  ASSUME TypeOK, LastShows, NEW a \in Alarmers, AlarmSend(a) PROVE LastShows'
<1> DEFINE p == sending[a].key
           code == sending[a].code
<1>1. CASE p \notin Alimonitor
  BY <1>1 DEF AlarmSend, LastShows
<1>2. CASE p \in Alimonitor
  <2>1. PICK n \in 0..Groups[p] : AlarmTells(p, code, 1..n)
    BY <1>2 DEF AlarmSend
  <2>2. p \in Package /\ Groups[p] \in Nat \ {0}
    BY <1>2, PipelineAssumption
  <2> HIDE DEF p, code
  <2>3. \A q \in Package : q # p => lastNonOk'[q] = lastNonOk[q] /\ showing'[q] = showing[q]
    BY <2>1 DEF AlarmTells, TypeOK, PackagesOK, ShowingOK
  <2>4. showing'[p] = IF code = "OK" THEN showing[p] \ (1..n) ELSE showing[p] \cup (1..n)
    BY <2>1, <2>2 DEF AlarmTells, TypeOK, ShowingOK
  <2>5. CASE n = Groups[p]
    <3>1. lastNonOk'[p] = IF code = "OK" THEN Invalid ELSE Sec(now)
      BY <2>1, <2>2, <2>5 DEF AlarmTells, TypeOK, PackagesOK
    <3>2. Groups[p] \in 1..n
      BY <2>2, <2>5
    <3> QED
      BY <2>3, <2>4, <3>1, <3>2 DEF LastShows
  <2>6. CASE n # Groups[p]
    <3>1. Groups[p] \notin 1..n /\ Groups[p] \in 1..Groups[p]
      BY <2>2, <2>6
    <3>2. lastNonOk' = lastNonOk
      BY <2>1, <3>1 DEF AlarmTells
    <3> QED
      BY <2>3, <2>4, <3>1, <3>2 DEF LastShows
  <2> QED
    BY <2>5, <2>6
<1> QED
  BY <1>1, <1>2

\* Nothing else has to do with it.
LEMMA LastShowsStep == TypeOK /\ LastShows /\ [Next]_vars => LastShows'
<1> SUFFICES ASSUME TypeOK, LastShows, [Next]_vars PROVE LastShows'
  OBVIOUS
<1>1. ASSUME NEW a \in Alarmers, AlarmSend(a) PROVE LastShows'
  BY <1>1, LastShowsSend
<1>2. CASE UNCHANGED <<lastNonOk, showing>>
  BY <1>2 DEF LastShows
<1>3. (\E a \in Alarmers : AlarmSend(a)) \/ UNCHANGED <<lastNonOk, showing>>
  BY DEF Next, Tick, MainLoop, MainWake, MainReady, MainRecheck, MainOkAlarm, MainOkPut,
         MainOkDone, MainSubmit, MainEnqueue, MainInternalOk, MainInternalPut,
         MainInternalDone, FetcherThread, FetcherTake, FetcherRetrieved, FetcherFailed,
         FetcherAlarm, FetcherAlarmPut, FetcherStamp, FetcherRelease, FetcherMakeItem,
         FetcherCheckPut, CheckerThread, CheckerTake, CheckerCheck, CheckerAlarm,
         CheckerAlarmPut, CheckerFinish, AlarmThread, AlarmTake, pkgVars, vars
<1> QED
  BY <1>1, <1>2, <1>3

(* An OK code is owed (RaApp::checkLastAlarmTime goes on pushing them) only *)
(* while some group shows an alarm it has not been told the end of.        *)
THEOREM OkCodesStop == Spec => []OkOnlyWhileShowing
<1>1. LastShows => OkOnlyWhileShowing
  BY DEF LastShows, OkOnlyWhileShowing
<1> QED
  BY <1>1, LastShowsInit, LastShowsStep, TypeCorrect, PTL DEF Spec
=============================================================================
