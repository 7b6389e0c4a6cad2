----------------------------- MODULE ThreadPool -----------------------------
(***************************************************************************)
(* util/ThreadPool: a bounded queue of work items, a mutex, the condition  *)
(* variables _empty and _full, and a fixed number of threads.  The owner   *)
(* (a manager) constructs the pool, starts it, stops it and destroys it;   *)
(* producers push while the owner lets them.                               *)
(*                                                                         *)
(* A critical section under _mutex is one action.  A thread inside         *)
(* pthread_cond_wait is in waitEmpty or waitFull, and a broadcast empties  *)
(* the set: every waiter then re-evaluates the while condition it sleeps   *)
(* in.  What runs outside the mutex (the test of _running, process(), the  *)
(* assignment to _running in start and stop) is a step of its own.         *)
(***************************************************************************)
EXTENDS Naturals, Sequences, FiniteSets, SequencesExt

CONSTANTS
  Workers,        \* the threads pthread_create makes; _threadCount of them
  Producers,      \* the threads that call push
  QueueCapacity,  \* the constructor's queueCapacity argument
  ItemsEach,      \* bound: how many items one producer ever pushes
  LateThreads,    \* TRUE: a new thread first runs after start() has returned
  Dummy,          \* a DummyWorkItem
  None            \* "no item"

ASSUME PoolAssumption ==
  /\ Workers # {} /\ IsFiniteSet(Workers)
  /\ QueueCapacity \in Nat /\ ItemsEach \in Nat
  /\ LateThreads \in BOOLEAN

VARIABLES
  queue,      \* _queue
  running,    \* _running
  wpc,        \* where each worker is in threadEntry
  witem,      \* the item each worker has popped
  waitEmpty,  \* workers inside pthread_cond_wait(&_empty)
  waitFull,   \* producers inside pthread_cond_wait(&_full)
  ppc,        \* whether a producer is inside push
  pushed,     \* how many pushes of each producer were accepted
  opc,        \* what the owner is doing with the pool
  done,       \* items whose process() has returned
  freed       \* items the destructor deleted

vars == <<queue, running, wpc, witem, waitEmpty, waitFull, ppc, pushed,
          opc, done, freed>>

Max2(a, b) == IF a >= b THEN a ELSE b

\* A pool never has fewer slots than threads.
Capacity == Max2(QueueCapacity, Cardinality(Workers))

Items == Producers \X (1..ItemsEach)

ASSUME ItemsAssumption == Dummy \notin Items /\ None \notin Items \cup {Dummy}

Init == /\ queue = <<>>
        /\ running = FALSE
        /\ wpc = [w \in Workers |-> "unborn"]
        /\ witem = [w \in Workers |-> None]
        /\ waitEmpty = {} /\ waitFull = {}
        /\ ppc = [p \in Producers |-> "out"]
        /\ pushed = [p \in Producers |-> 0]
        /\ opc = "starting"
        /\ done = {} /\ freed = {}
-----------------------------------------------------------------------------
(* Mutants: plausible mistakes the properties below must notice.           *)

StopPushesOneDummy ==
  /\ opc = "stopping"
  /\ queue' = Append(queue, Dummy)
  /\ waitEmpty' = {}
  /\ opc' = "joining"
  /\ UNCHANGED <<running, wpc, witem, waitFull, ppc, pushed, done, freed>>

PushWith(p, q, waiters) ==
  /\ ppc[p] # "out" /\ opc # "destroyed" /\ p \notin waitFull
  /\ queue' = q
  /\ pushed' = [pushed EXCEPT ![p] = @ + 1]
  /\ waitEmpty' = waiters
  /\ ppc' = [ppc EXCEPT ![p] = "out"]
  /\ UNCHANGED <<running, wpc, witem, waitFull, opc, done, freed>>
PushIgnoresCapacity(p) == PushWith(p, Append(queue, <<p, pushed[p] + 1>>), {})
PushAtFront(p) == Len(queue) < Capacity /\ PushWith(p, <<<<p, pushed[p] + 1>>>> \o queue, {})
PushWithoutSignal(p) ==
  Len(queue) < Capacity /\ PushWith(p, Append(queue, <<p, pushed[p] + 1>>), waitEmpty)

PopWith(w, q, waiters) ==
  /\ wpc[w] = "pop" /\ w \notin waitEmpty /\ queue # <<>>
  /\ witem' = [witem EXCEPT ![w] = Head(queue)]
  /\ queue' = q
  /\ waitFull' = waiters
  /\ wpc' = [wpc EXCEPT ![w] = "process"]
  /\ UNCHANGED <<running, waitEmpty, ppc, pushed, opc, done, freed>>
PopKeepsItem(w) == PopWith(w, queue, {})
PopWithoutSignal(w) == PopWith(w, Tail(queue), waitFull)
-----------------------------------------------------------------------------
(* The owner: start, stop and the destructor.                              *)

\* One iteration of start's loop over pthread_create.
CreateThread(w) ==
  /\ opc = "starting" /\ wpc[w] = "unborn"
  /\ wpc' = [wpc EXCEPT ![w] = "loop"]
  /\ UNCHANGED <<queue, running, witem, waitEmpty, waitFull, ppc, pushed, opc, done, freed>>

\* _running becomes true only after the last thread was created.
StartReturns ==
  /\ opc = "starting" /\ \A w \in Workers : wpc[w] # "unborn"
  /\ running' = TRUE
  /\ opc' = "started"
  /\ UNCHANGED <<queue, wpc, witem, waitEmpty, waitFull, ppc, pushed, done, freed>>

StopBegins ==
  /\ opc = "started"
  /\ running' = FALSE
  /\ opc' = "stopping"
  /\ UNCHANGED <<queue, wpc, witem, waitEmpty, waitFull, ppc, pushed, done, freed>>

\* One DummyWorkItem per thread, whatever the capacity, then a broadcast.
StopPushesDummies ==
  /\ opc = "stopping"
  /\ queue' = queue \o [k \in 1..Cardinality(Workers) |-> Dummy]
  /\ waitEmpty' = {}
  /\ opc' = "joining"
  /\ UNCHANGED <<running, wpc, witem, waitFull, ppc, pushed, done,
                 freed>>

StopReturns ==
  /\ opc = "joining" /\ \A w \in Workers : wpc[w] = "exited"
  /\ opc' = "stopped"
  /\ UNCHANGED <<queue, running, wpc, witem, waitEmpty, waitFull, ppc,
                 pushed, done, freed>>

Destroy ==
  /\ opc = "stopped"
  /\ freed' = freed \cup (ToSet(queue) \ {Dummy})
  /\ queue' = <<>>
  /\ opc' = "destroyed"
  /\ UNCHANGED <<running, wpc, witem, waitEmpty, waitFull, ppc, pushed, done>>
-----------------------------------------------------------------------------
(* push.                                                                   *)

\* A manager lets nobody in before start() returned or once it began stop().
PushBegins(p) ==
  /\ opc = "started" /\ ppc[p] = "out" /\ pushed[p] < ItemsEach
  /\ \E mode \in {"block", "try"} : ppc' = [ppc EXCEPT ![p] = mode]
  /\ UNCHANGED <<queue, running, wpc, witem, waitEmpty, waitFull, pushed, opc, done, freed>>

PushRefused(p) ==
  /\ ppc[p] = "try" /\ opc # "destroyed"
  /\ Len(queue) >= Capacity
  /\ ppc' = [ppc EXCEPT ![p] = "out"]
  /\ UNCHANGED <<queue, running, wpc, witem, waitEmpty, waitFull, pushed,
                 opc, done, freed>>

PushWaits(p) ==
  /\ ppc[p] = "block" /\ opc # "destroyed"
  /\ p \notin waitFull /\ Len(queue) >= Capacity
  /\ waitFull' = waitFull \cup {p}
  /\ UNCHANGED <<queue, running, wpc, witem, waitEmpty, ppc, pushed,
                 opc, done, freed>>

PushAccepted(p) ==
  /\ ppc[p] # "out" /\ opc # "destroyed"
  /\ p \notin waitFull /\ Len(queue) < Capacity
  /\ queue' = Append(queue, <<p, pushed[p] + 1>>)
  /\ pushed' = [pushed EXCEPT ![p] = @ + 1]
  /\ waitEmpty' = {}
  /\ ppc' = [ppc EXCEPT ![p] = "out"]
  /\ UNCHANGED <<running, wpc, witem, waitFull, opc, done, freed>>
-----------------------------------------------------------------------------
(* threadEntry.                                                            *)

\* The loop condition reads _running without the mutex.
TestRunning(w) ==
  /\ wpc[w] = "loop"
  /\ LateThreads => opc # "starting"
  /\ wpc' = [wpc EXCEPT ![w] = IF running THEN "pop" ELSE "exited"]
  /\ UNCHANGED <<queue, running, witem, waitEmpty, waitFull, ppc, pushed, opc, done, freed>>

WaitForItem(w) ==
  /\ wpc[w] = "pop" /\ w \notin waitEmpty /\ queue = <<>>
  /\ waitEmpty' = waitEmpty \cup {w}
  /\ UNCHANGED <<queue, running, wpc, witem, waitFull, ppc, pushed,
                 opc, done, freed>>

PopItem(w) ==
  /\ wpc[w] = "pop" /\ w \notin waitEmpty /\ queue # <<>>
  /\ witem' = [witem EXCEPT ![w] = Head(queue)]
  /\ queue' = Tail(queue)
  /\ waitFull' = {}
  /\ wpc' = [wpc EXCEPT ![w] = "process"]
  /\ UNCHANGED <<running, waitEmpty, ppc, pushed, opc, done, freed>>

ProcessItem(w) ==
  /\ wpc[w] = "process"
  /\ done' = IF witem[w] = Dummy THEN done ELSE done \cup {witem[w]}
  /\ witem' = [witem EXCEPT ![w] = None]
  /\ wpc' = [wpc EXCEPT ![w] = "loop"]
  /\ UNCHANGED <<queue, running, waitEmpty, waitFull, ppc, pushed,
                 opc, freed>>
-----------------------------------------------------------------------------
Owner == \/ \E w \in Workers : CreateThread(w)
         \/ StartReturns \/ StopBegins \/ StopPushesDummies \/ StopReturns
         \/ Destroy
Push(p) == PushBegins(p) \/ PushRefused(p) \/ PushWaits(p) \/ PushAccepted(p)
ThreadEntry(w) == TestRunning(w) \/ WaitForItem(w) \/ PopItem(w) \/ ProcessItem(w)

Next == Owner \/ (\E p \in Producers : Push(p)) \/ (\E w \in Workers : ThreadEntry(w))

Spec == Init /\ [][Next]_vars

\* The scheduler runs every thread that can run, and lock acquisition is not
\* starved; whether anybody calls push or stop is nobody's duty.
Fairness ==
  /\ \A w \in Workers : WF_vars(CreateThread(w)) /\ WF_vars(TestRunning(w))
                        /\ WF_vars(PopItem(w)) /\ WF_vars(ProcessItem(w))
                        /\ WF_vars(WaitForItem(w))
  /\ \A p \in Producers : WF_vars(PushWaits(p)) /\ SF_vars(PushAccepted(p))
                          /\ WF_vars(PushRefused(p))
  /\ WF_vars(StartReturns) /\ WF_vars(StopPushesDummies)
  /\ WF_vars(StopReturns) /\ WF_vars(Destroy)

FairSpec == Spec /\ Fairness
-----------------------------------------------------------------------------
TypeOK ==
  /\ queue \in Seq(Items \cup {Dummy})
  /\ Len(queue) <= Capacity + Cardinality(Workers)
  /\ running \in BOOLEAN
  /\ wpc \in [Workers -> {"unborn", "loop", "pop", "process", "exited"}]
  /\ witem \in [Workers -> Items \cup {Dummy, None}]
  /\ waitEmpty \subseteq Workers /\ waitFull \subseteq Producers
  /\ ppc \in [Producers -> {"out", "block", "try"}]
  /\ pushed \in [Producers -> 0..ItemsEach]
  /\ opc \in {"starting", "started", "stopping", "joining", "stopped", "destroyed"}
  /\ done \subseteq Items /\ freed \subseteq Items

(* An item push accepted is never lost, duplicated or processed twice: it  *)
(* is in exactly one place, whatever start, stop and the destructor do.    *)
Accepted == {i \in Items : i[2] <= pushed[i[1]]}
Places(i) == {<<"queue", k>> : k \in {n \in 1..Len(queue) : queue[n] = i}}
             \cup {<<"worker", w>> : w \in {v \in Workers : witem[v] = i}}
             \cup (IF i \in done THEN {<<"done", 0>>} ELSE {})
             \cup (IF i \in freed THEN {<<"freed", 0>>} ELSE {})
ItemsInOnePlace ==
  \A i \in Items : Cardinality(Places(i)) = IF i \in Accepted THEN 1 ELSE 0

(* No lost wake-up: a worker sleeps on _empty only while there is nothing  *)
(* to pop, a producer sleeps on _full only while there is no room, also    *)
(* across stop's dummies, which may exceed the capacity.  (The destructor  *)
(* wakes nobody: a producer it finds asleep stays so, see Shutdown.)       *)
NoLostWakeup == opc # "destroyed" =>
  /\ waitEmpty # {} => queue = <<>>
  /\ waitFull # {} => Len(queue) >= Capacity

(* stop always returns: every thread gets past its wait and is joined,     *)
(* though workers may spend their last round on a real item and leave      *)
(* dummies behind.                                                         *)
StopTerminates == (opc = "stopping") ~> (opc = "destroyed")

(* An accepted item is processed, or deleted when the pool is destroyed;   *)
(* it never waits for ever beside a sleeping worker.                       *)
QueuedItemsAreHandled ==
  \A i \in Items : (i \in Accepted) ~> (i \in done \cup freed)

(* The pool implements the hand-off its managers rely on: bounded, FIFO,   *)
(* once.  Dummies and threads are invisible.                               *)
RealItems(q) ==
  LET upTo[n \in 0..Len(q)] ==
        IF n = 0 THEN <<>>
        ELSE IF q[n] = Dummy THEN upTo[n - 1] ELSE Append(upTo[n - 1], q[n])
  IN upTo[Len(q)]
Handed == INSTANCE HandOff
            WITH pending <- RealItems(queue),
                 active <- [w \in Workers |-> IF witem[w] = Dummy THEN None ELSE witem[w]],
                 finished <- done,
                 dropped <- freed
ImplementsHandOff == Handed!Spec
=============================================================================
