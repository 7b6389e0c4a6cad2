-------------------------- MODULE ThreadPoolProofs --------------------------
(***************************************************************************)
(* Proofs about the thread pool, for any number of workers, producers and  *)
(* items and any capacity.                                                 *)
(***************************************************************************)
EXTENDS ThreadPool, Induction, SequenceTheorems

Entry == Items \cup {Dummy}

\* There are as many slots as threads, and a natural number of both.
LEMMA Sizes ==
  /\ Cardinality(Workers) \in Nat /\ Capacity \in Nat
  /\ \A w \in Workers : Cardinality(Workers) # 0
<1>1. Cardinality(Workers) \in Nat /\ IsFiniteSet(Workers)
  BY PoolAssumption, FS_CardinalityType DEF PoolAssumption
<1>2. Capacity \in Nat
  BY <1>1, PoolAssumption DEF PoolAssumption, Capacity, Max2
<1> QED
  BY <1>1, <1>2, FS_EmptySet

\* A non-empty queue's head and tail, typed, and one slot shorter.
LEMMA HeadTail ==
  ASSUME NEW q \in Seq(Entry), q # <<>>
  PROVE  /\ Head(q) \in Entry /\ Tail(q) \in Seq(Entry) /\ Head(q) = q[1]
         /\ Len(Tail(q)) = Len(q) - 1 /\ Len(q) \in Nat \ {0}
         /\ \A k \in 1..Len(Tail(q)) : Tail(q)[k] = q[k + 1]
OBVIOUS

\* The dummies stop puts behind the queue.
Dummies == [k \in 1..Cardinality(Workers) |-> Dummy]
\* Dummies are put behind what is queued.
LEMMA DummiesAppended ==
  ASSUME NEW q \in Seq(Entry)
  PROVE  /\ q \o Dummies \in Seq(Entry) /\ Len(q \o Dummies) = Len(q) + Cardinality(Workers)
         /\ \A k \in 1..Len(q \o Dummies) :
              (q \o Dummies)[k] = IF k <= Len(q) THEN q[k] ELSE Dummy
<1>1. Dummies \in Seq(Entry) /\ Len(Dummies) = Cardinality(Workers)
  <2>1. \A k \in 1..Cardinality(Workers) : Dummy \in Entry
    BY DEF Entry
  <2>2. Dummies \in Seq(Entry)
    BY <2>1, Sizes, IsASeq DEF Dummies
  <2>3. DOMAIN Dummies = 1..Len(Dummies) /\ Len(Dummies) \in Nat
    BY <2>2, LenProperties
  <2> QED
    BY <2>2, <2>3, Sizes DEF Dummies
<1>2. \A k \in 1..Cardinality(Workers) : Dummies[k] = Dummy
  BY DEF Dummies
<1>3. Len(q) \in Nat
  BY LenProperties
<1> HIDE DEF Dummies
<1> QED
  BY <1>1, <1>2, <1>3, Sizes, ConcatProperties
-----------------------------------------------------------------------------
(* Types and bounds.                                                       *)

\* The queue exceeds its capacity only by stop's dummies; a producer inside
\* push has items left; a worker has an item exactly while it processes it.
TypeInv ==
  /\ TypeOK
  /\ opc \in {"starting", "started", "stopping"} => Len(queue) <= Capacity
  /\ \A p \in Producers : ppc[p] # "out" => pushed[p] < ItemsEach
  /\ \A w \in Workers : wpc[w] = "process" <=> witem[w] # None

\* They hold at first.
LEMMA TypeInit == Init => TypeInv
<1> SUFFICES ASSUME Init PROVE TypeInv
  OBVIOUS
<1>1. queue \in Seq(Items \cup {Dummy}) /\ Len(queue) = 0
  BY DEF Init
<1>2. /\ wpc = [w \in Workers |-> "unborn"] /\ witem = [w \in Workers |-> None]
      /\ ppc = [p \in Producers |-> "out"] /\ pushed = [p \in Producers |-> 0]
  BY DEF Init
<1>3. /\ running \in BOOLEAN /\ opc = "starting" /\ waitEmpty = {} /\ waitFull = {}
      /\ done = {} /\ freed = {}
  BY DEF Init
<1> QED
  BY <1>1, <1>2, <1>3, PoolAssumption, Sizes DEF PoolAssumption, TypeInv, TypeOK

\* The producers' steps keep them.
LEMMA TypePush == ASSUME TypeInv, NEW p \in Producers, Push(p) PROVE TypeInv'
<1> USE PoolAssumption, Sizes DEF PoolAssumption, TypeInv, TypeOK
<1>1. CASE PushBegins(p)
  BY <1>1 DEF PushBegins
<1>2. CASE PushRefused(p)
  BY <1>2 DEF PushRefused
<1>3. CASE PushWaits(p)
  BY <1>3 DEF PushWaits
<1>4. CASE PushAccepted(p)
  <2>1. pushed[p] + 1 \in 1..ItemsEach
    BY <1>4 DEF PushAccepted
  <2>2. <<p, pushed[p] + 1>> \in Items
    BY <2>1 DEF Items
  <2>3. queue' \in Seq(Items \cup {Dummy}) /\ Len(queue') = Len(queue) + 1
    BY <1>4, <2>2 DEF PushAccepted
  <2>4. pushed' \in [Producers -> 0..ItemsEach]
    BY <1>4, <2>1 DEF PushAccepted
  <2>5. \A o \in Producers : ppc'[o] # "out" => pushed'[o] < ItemsEach
    BY <1>4 DEF PushAccepted
  <2>6. Len(queue') <= Capacity
    BY <1>4, <2>3 DEF PushAccepted
  <2>7. ppc' \in [Producers -> {"out", "block", "try"}]
    BY <1>4 DEF PushAccepted
  <2> QED
    BY <1>4, <2>3, <2>4, <2>5, <2>6, <2>7 DEF PushAccepted
<1> QED
  BY <1>1, <1>2, <1>3, <1>4 DEF Push

\* The workers' steps keep them.
LEMMA TypeEntry == ASSUME TypeInv, NEW w \in Workers, ThreadEntry(w) PROVE TypeInv'
<1> USE PoolAssumption, ItemsAssumption, Sizes DEF PoolAssumption, ItemsAssumption, TypeInv, TypeOK
<1>1. CASE TestRunning(w)
  BY <1>1 DEF TestRunning
<1>2. CASE WaitForItem(w)
  BY <1>2 DEF WaitForItem
<1>3. CASE PopItem(w)
  <2>1. /\ Head(queue) \in Items \cup {Dummy} /\ Tail(queue) \in Seq(Items \cup {Dummy})
        /\ Len(Tail(queue)) = Len(queue) - 1 /\ Len(queue) \in Nat
    BY <1>3, HeadTail DEF PopItem, Entry
  <2>2. Head(queue) # None
    BY <2>1
  <2>3. /\ witem' \in [Workers -> Items \cup {Dummy, None}]
        /\ wpc' \in [Workers -> {"unborn", "loop", "pop", "process", "exited"}]
    BY <1>3, <2>1 DEF PopItem
  <2>4. \A v \in Workers : wpc'[v] = "process" <=> witem'[v] # None
    BY <1>3, <2>1, <2>2 DEF PopItem
  <2> QED
    BY <1>3, <2>1, <2>3, <2>4 DEF PopItem
<1>4. CASE ProcessItem(w)
  BY <1>4 DEF ProcessItem
<1> QED
  BY <1>1, <1>2, <1>3, <1>4 DEF ThreadEntry

\* The owner's steps keep them.
LEMMA TypeOwner == ASSUME TypeInv, Owner PROVE TypeInv'
<1> USE PoolAssumption, ItemsAssumption, Sizes DEF PoolAssumption, ItemsAssumption, TypeInv, TypeOK
<1>1. ASSUME NEW w \in Workers, CreateThread(w) PROVE TypeInv'
  BY <1>1 DEF CreateThread
<1>2. CASE StartReturns
  BY <1>2 DEF StartReturns
<1>3. CASE StopBegins
  BY <1>3 DEF StopBegins
<1>4. CASE StopPushesDummies
  <2>1. queue' = queue \o Dummies
    BY <1>4 DEF StopPushesDummies, Dummies
  <2>2. queue' \in Seq(Items \cup {Dummy}) /\ Len(queue') = Len(queue) + Cardinality(Workers)
    BY <2>1, DummiesAppended DEF Entry
  <2>3. Len(queue') <= Capacity + Cardinality(Workers)
    BY <1>4, <2>2 DEF StopPushesDummies
  <2> QED
    BY <1>4, <2>2, <2>3 DEF StopPushesDummies
<1>5. CASE StopReturns
  BY <1>5 DEF StopReturns
<1>6. CASE Destroy
  <2>1. \A k \in 1..Len(queue) : queue[k] \in Items \cup {Dummy}
    OBVIOUS
  <2>2. ToSet(queue) \ {Dummy} \subseteq Items
    BY <2>1 DEF ToSet
  <2>3. queue' = <<>> /\ Len(queue') = 0 /\ freed' \subseteq Items
    BY <1>6, <2>2 DEF Destroy
  <2> QED
    BY <1>6, <2>3 DEF Destroy
<1> QED
  BY <1>1, <1>2, <1>3, <1>4, <1>5, <1>6 DEF Owner

\* So every step does.
LEMMA TypeStep == ASSUME TypeInv, [Next]_vars PROVE TypeInv'
<1>1. CASE UNCHANGED vars
  BY <1>1 DEF vars, TypeInv, TypeOK
<1> QED
  BY <1>1, TypePush, TypeEntry, TypeOwner DEF Next

\* The types hold throughout.
LEMMA TypeInvariant == Spec => []TypeInv
<1>1. TypeInv /\ [Next]_vars => TypeInv'
  BY TypeStep
<1> QED
  BY TypeInit, <1>1, PTL DEF Spec

\* The variables have their types, and the queue never holds more than its
\* capacity and one dummy for each thread.
THEOREM TypeCorrect == Spec => []TypeOK
<1>1. TypeInv => TypeOK
  BY DEF TypeInv
<1> QED
  BY TypeInvariant, <1>1, PTL
-----------------------------------------------------------------------------
(* Sleepers.                                                               *)

\* A worker sleeps only while there is nothing to pop, a producer only while
\* there is no room.
THEOREM NobodySleepsThroughWork == Spec => []NoLostWakeup
<1>1. Init => NoLostWakeup
  BY DEF Init, NoLostWakeup
<1>2. ASSUME TypeInv, NoLostWakeup, [Next]_vars PROVE NoLostWakeup'
  <2> USE <1>2, Sizes DEF NoLostWakeup
  <2>0. queue \in Seq(Entry) /\ Len(queue) \in Nat
    BY DEF TypeInv, TypeOK, Entry
  <2>1. ASSUME NEW p \in Producers, Push(p) PROVE NoLostWakeup'
    BY <2>1 DEF Push, PushBegins, PushRefused, PushWaits, PushAccepted
  <2>2. ASSUME NEW w \in Workers, ThreadEntry(w) PROVE NoLostWakeup'
    BY <2>2 DEF ThreadEntry, TestRunning, WaitForItem, PopItem, ProcessItem
  <2>3. CASE StopPushesDummies
    <3>1. Len(queue') = Len(queue) + Cardinality(Workers)
      BY <2>0, <2>3, DummiesAppended DEF StopPushesDummies, Dummies
    <3> QED
      BY <2>0, <2>3, <3>1 DEF StopPushesDummies
  <2>4. CASE StartReturns \/ StopBegins \/ StopReturns \/ Destroy \/ \E w \in Workers : CreateThread(w)
    BY <2>4 DEF StartReturns, StopBegins, StopReturns, Destroy, CreateThread
  <2>5. CASE UNCHANGED vars
    BY <2>5 DEF vars
  <2> QED
    BY <2>1, <2>2, <2>3, <2>4, <2>5 DEF Next, Owner
<1> QED
  BY <1>1, <1>2, TypeInvariant, PTL DEF Spec
-----------------------------------------------------------------------------
(* Items.  Where an item is, without counting.                             *)

InQueue(i) == \E k \in 1..Len(queue) : queue[k] = i
SoleSlot(i) == \A k, l \in 1..Len(queue) : queue[k] = i /\ queue[l] = i => k = l
AtWorker(i) == \E w \in Workers : witem[w] = i
SoleWorker(i) == \A v, w \in Workers : witem[v] = i /\ witem[w] = i => v = w
InPlace(i) ==
  /\ i \in Accepted <=> InQueue(i) \/ AtWorker(i) \/ i \in done \/ i \in freed
  /\ ~(InQueue(i) /\ (AtWorker(i) \/ i \in done \/ i \in freed))
  /\ ~(AtWorker(i) /\ (i \in done \/ i \in freed)) /\ ~(i \in done /\ i \in freed)
  /\ SoleSlot(i) /\ SoleWorker(i)
InPlaces == \A i \in Items : InPlace(i)

\* An item that is where it should be is in one place, or in none.
LEMMA OnePlace ==
  ASSUME NEW i \in Items, InPlace(i)
  PROVE  Cardinality(Places(i)) = IF i \in Accepted THEN 1 ELSE 0
<1> DEFINE inQ == {<<"queue", k>> : k \in {n \in 1..Len(queue) : queue[n] = i}}
           atW == {<<"worker", w>> : w \in {v \in Workers : witem[v] = i}}
<1>1. inQ = {} \/ \E x : inQ = {x}
  <2>1. CASE InQueue(i)
    <3>1. PICK k \in 1..Len(queue) : queue[k] = i
      BY <2>1 DEF InQueue
    <3>2. \A n \in 1..Len(queue) : queue[n] = i => n = k
      BY <3>1 DEF InPlace, SoleSlot
    <3>3. inQ = {<<"queue", k>>}
      BY <3>1, <3>2
    <3> QED
      BY <3>3
  <2>2. CASE ~InQueue(i)
    BY <2>2 DEF InQueue
  <2> QED
    BY <2>1, <2>2
<1>2. atW = {} \/ \E x : atW = {x}
  BY DEF InPlace, SoleWorker
<1>3. (inQ = {} <=> ~InQueue(i)) /\ (atW = {} <=> ~AtWorker(i))
  BY DEF InQueue, AtWorker
<1>4. Places(i) = inQ \cup atW \cup (IF i \in done THEN {<<"done", 0>>} ELSE {})
                               \cup (IF i \in freed THEN {<<"freed", 0>>} ELSE {})
  BY DEF Places
<1> HIDE DEF inQ, atW
<1>5. IF i \in Accepted THEN \E x : Places(i) = {x} ELSE Places(i) = {}
  BY <1>1, <1>2, <1>3, <1>4 DEF InPlace
<1> QED
  BY <1>5, FS_Singleton, FS_EmptySet

\* A step that leaves queue, workers and records alone.
LEMMA PlacesAside ==
  ASSUME InPlaces, UNCHANGED <<queue, witem, pushed, done, freed>> PROVE InPlaces'
BY DEF InPlaces, InPlace, InQueue, SoleSlot, AtWorker, SoleWorker, Accepted

\* An item that push accepts is new, and at the end of the queue.
LEMMA PlacesPush ==
  ASSUME TypeInv, InPlaces, NEW p \in Producers, PushAccepted(p) PROVE InPlaces'
<1> DEFINE new == <<p, pushed[p] + 1>>
<1>1. /\ queue \in Seq(Entry) /\ Len(queue) \in Nat
      /\ pushed \in [Producers -> 0..ItemsEach] /\ pushed[p] \in Nat
  BY PoolAssumption DEF PoolAssumption, TypeInv, TypeOK, Entry
<1>2. /\ queue' = Append(queue, new) /\ pushed' = [pushed EXCEPT ![p] = @ + 1]
      /\ UNCHANGED <<witem, done, freed>>
  BY DEF PushAccepted
<1>3. pushed[p] + 1 \in 1..ItemsEach
  BY <1>1, PoolAssumption DEF PoolAssumption, TypeInv, PushAccepted
<1>4. new \in Items /\ new \in Entry
  BY <1>3 DEF Items, Entry
<1>5. /\ Len(queue') = Len(queue) + 1 /\ queue'[Len(queue) + 1] = new
      /\ \A k \in 1..Len(queue) : queue'[k] = queue[k]
  BY <1>1, <1>2, <1>4, AppendProperties
<1>6. \A k \in 1..Len(queue') :
        \/ k \in 1..Len(queue) /\ queue'[k] = queue[k]
        \/ k = Len(queue) + 1 /\ queue'[k] = new
  <2> HIDE DEF new
  <2> QED
    BY <1>1, <1>5
<1> SUFFICES ASSUME NEW i \in Items PROVE InPlace(i)'
  BY DEF InPlaces
<1>7. InPlace(i)
  BY DEF InPlaces
<1>8. PICK o \in Producers, n \in 1..ItemsEach : i = <<o, n>>
  BY DEF Items
<1>9. i \in Accepted' <=> i \in Accepted \/ i = new
  BY <1>1, <1>2, <1>8, PoolAssumption DEF Accepted, PoolAssumption
<1>10. InQueue(i)' <=> InQueue(i) \/ i = new
  <2> HIDE DEF new
  <2>1. InQueue(i)' => InQueue(i) \/ i = new
    BY <1>6 DEF InQueue
  <2>2. InQueue(i) => InQueue(i)'
    BY <1>1, <1>5 DEF InQueue
  <2>3. i = new => InQueue(i)'
    BY <1>1, <1>5 DEF InQueue
  <2> QED
    BY <2>1, <2>2, <2>3
<1>11. new \notin Accepted
  BY <1>1 DEF Accepted
<1>12. SoleSlot(i)'
  <2> HIDE DEF new
  <2>1. i = new => ~InQueue(i)
    BY <1>7, <1>11 DEF InPlace
  <2>2. SoleSlot(i)
    BY <1>7 DEF InPlace
  <2> QED
    BY <1>6, <2>1, <2>2 DEF InQueue, SoleSlot
<1>13. AtWorker(i)' = AtWorker(i) /\ SoleWorker(i)'
  BY <1>2, <1>7 DEF AtWorker, SoleWorker, InPlace
<1> HIDE DEF new
<1> QED
  BY <1>2, <1>7, <1>9, <1>10, <1>11, <1>12, <1>13 DEF InPlace

\* The head of the queue moves to the worker that pops it.
LEMMA PlacesPop ==
  ASSUME TypeInv, InPlaces, NEW w \in Workers, PopItem(w) PROVE InPlaces'
<1>1. /\ queue \in Seq(Entry) /\ queue # <<>> /\ witem \in [Workers -> Items \cup {Dummy, None}]
      /\ witem[w] = None
  BY DEF TypeInv, TypeOK, PopItem, Entry
<1>2. /\ queue' = Tail(queue) /\ witem' = [witem EXCEPT ![w] = Head(queue)]
      /\ UNCHANGED <<pushed, done, freed>>
  BY DEF PopItem
<1>3. /\ Head(queue) = queue[1] /\ Len(queue') = Len(queue) - 1 /\ Len(queue) \in Nat \ {0}
      /\ \A k \in 1..Len(queue') : queue'[k] = queue[k + 1]
  BY <1>1, <1>2, HeadTail
<1> SUFFICES ASSUME NEW i \in Items PROVE InPlace(i)'
  BY DEF InPlaces
<1>4. InPlace(i) /\ i # None
  BY ItemsAssumption DEF InPlaces, ItemsAssumption
<1>5. InQueue(i)' <=> InQueue(i) /\ queue[1] # i
  <2>1. InQueue(i)' => InQueue(i) /\ queue[1] # i
    <3> SUFFICES ASSUME NEW k \in 1..Len(queue'), queue'[k] = i PROVE InQueue(i) /\ queue[1] # i
      BY DEF InQueue
    <3>1. k + 1 \in 1..Len(queue) /\ 1 \in 1..Len(queue) /\ queue[k + 1] = i /\ k + 1 # 1
      BY <1>3
    <3> QED
      BY <1>4, <3>1 DEF InQueue, InPlace, SoleSlot
  <2>2. InQueue(i) /\ queue[1] # i => InQueue(i)'
    <3> SUFFICES ASSUME NEW k \in 1..Len(queue), queue[k] = i, queue[1] # i PROVE InQueue(i)'
      BY DEF InQueue
    <3>1. k - 1 \in 1..Len(queue') /\ queue'[k - 1] = i
      BY <1>3
    <3> QED
      BY <3>1 DEF InQueue
  <2> QED
    BY <2>1, <2>2
<1>6. AtWorker(i)' <=> AtWorker(i) \/ queue[1] = i
  BY <1>1, <1>2, <1>3, <1>4 DEF AtWorker
<1>7. queue[1] = i => InQueue(i)
  BY <1>3 DEF InQueue
<1>8. SoleSlot(i)'
  <2> SUFFICES ASSUME NEW k \in 1..Len(queue'), NEW l \in 1..Len(queue'), queue'[k] = i, queue'[l] = i
               PROVE  k = l
    BY DEF SoleSlot
  <2>1. k + 1 \in 1..Len(queue) /\ l + 1 \in 1..Len(queue) /\ queue[k + 1] = i /\ queue[l + 1] = i
    BY <1>3
  <2>2. k + 1 = l + 1
    BY <1>4, <2>1 DEF InPlace, SoleSlot
  <2> QED
    BY <1>3, <2>2
<1>9. SoleWorker(i)'
  BY <1>1, <1>2, <1>3, <1>4, <1>7 DEF SoleWorker, InPlace, AtWorker
<1>10. Accepted' = Accepted
  BY <1>2 DEF Accepted
<1> QED
  BY <1>2, <1>4, <1>5, <1>6, <1>7, <1>8, <1>9, <1>10 DEF InPlace

\* The item a worker has processed is done.
LEMMA PlacesProcess ==
  ASSUME TypeInv, InPlaces, NEW w \in Workers, ProcessItem(w) PROVE InPlaces'
<1>1. witem \in [Workers -> Items \cup {Dummy, None}]
  BY DEF TypeInv, TypeOK
<1>2. /\ done' = IF witem[w] = Dummy THEN done ELSE done \cup {witem[w]}
      /\ witem' = [witem EXCEPT ![w] = None] /\ UNCHANGED <<queue, pushed, freed>>
  BY DEF ProcessItem
<1> SUFFICES ASSUME NEW i \in Items PROVE InPlace(i)'
  BY DEF InPlaces
<1>3. InPlace(i) /\ i # None /\ i # Dummy
  BY ItemsAssumption DEF InPlaces, ItemsAssumption
<1>4. AtWorker(i)' <=> AtWorker(i) /\ witem[w] # i
  BY <1>1, <1>2, <1>3 DEF AtWorker, InPlace, SoleWorker
<1>5. i \in done' <=> i \in done \/ witem[w] = i
  BY <1>2, <1>3
<1>6. witem[w] = i => AtWorker(i)
  BY DEF AtWorker
<1>7. SoleWorker(i)'
  BY <1>1, <1>2, <1>3 DEF SoleWorker, InPlace
<1>8. InQueue(i)' = InQueue(i) /\ SoleSlot(i)' = SoleSlot(i) /\ Accepted' = Accepted
  BY <1>2 DEF InQueue, SoleSlot, Accepted
<1> QED
  BY <1>2, <1>3, <1>4, <1>5, <1>6, <1>7, <1>8 DEF InPlace

\* Dummies are no items.
LEMMA PlacesStop ==
  ASSUME TypeInv, InPlaces, StopPushesDummies PROVE InPlaces'
<1>1. queue \in Seq(Entry) /\ Len(queue) \in Nat
  BY DEF TypeInv, TypeOK, Entry
<1>2. queue' = queue \o Dummies /\ UNCHANGED <<witem, pushed, done, freed>>
  BY DEF StopPushesDummies, Dummies
<1>3. /\ Len(queue') = Len(queue) + Cardinality(Workers)
      /\ \A k \in 1..Len(queue') : queue'[k] = IF k <= Len(queue) THEN queue[k] ELSE Dummy
  BY <1>1, <1>2, DummiesAppended
<1> SUFFICES ASSUME NEW i \in Items PROVE InPlace(i)'
  BY DEF InPlaces
<1>4. InPlace(i) /\ i # Dummy
  BY ItemsAssumption DEF InPlaces, ItemsAssumption
<1>5. \A k \in 1..Len(queue') : queue'[k] = i => k \in 1..Len(queue) /\ queue[k] = i
  BY <1>1, <1>3, <1>4, Sizes
<1>6. \A k \in 1..Len(queue) : k \in 1..Len(queue') /\ queue'[k] = queue[k]
  BY <1>1, <1>3, Sizes
<1>7. InQueue(i)' = InQueue(i) /\ SoleSlot(i)'
  BY <1>4, <1>5, <1>6 DEF InQueue, SoleSlot, InPlace
<1>8. AtWorker(i)' = AtWorker(i) /\ SoleWorker(i)' = SoleWorker(i) /\ Accepted' = Accepted
  BY <1>2 DEF AtWorker, SoleWorker, Accepted
<1> QED
  BY <1>2, <1>4, <1>7, <1>8 DEF InPlace

\* The destructor deletes what is still in the queue.
LEMMA PlacesDestroy ==
  ASSUME TypeInv, InPlaces, Destroy PROVE InPlaces'
<1>1. queue \in Seq(Entry) /\ DOMAIN queue = 1..Len(queue)
  BY DEF TypeInv, TypeOK, Entry
<1>2. /\ freed' = freed \cup (ToSet(queue) \ {Dummy}) /\ queue' = <<>> /\ Len(queue') = 0
      /\ UNCHANGED <<witem, pushed, done>>
  BY DEF Destroy
<1> SUFFICES ASSUME NEW i \in Items PROVE InPlace(i)'
  BY DEF InPlaces
<1>3. InPlace(i) /\ i # Dummy
  BY ItemsAssumption DEF InPlaces, ItemsAssumption
<1>4. i \in freed' <=> i \in freed \/ InQueue(i)
  BY <1>1, <1>2, <1>3 DEF ToSet, InQueue
<1>5. ~InQueue(i)' /\ SoleSlot(i)'
  BY <1>2 DEF InQueue, SoleSlot
<1>6. AtWorker(i)' = AtWorker(i) /\ SoleWorker(i)' = SoleWorker(i) /\ Accepted' = Accepted
  BY <1>2 DEF AtWorker, SoleWorker, Accepted
<1> QED
  BY <1>2, <1>3, <1>4, <1>5, <1>6 DEF InPlace

\* Items are in their places throughout.
LEMMA InPlacesInvariant == Spec => []InPlaces
<1>1. Init => InPlaces
  <2> SUFFICES ASSUME Init, NEW i \in Items PROVE InPlace(i)
    BY DEF InPlaces
  <2>1. i # None
    BY ItemsAssumption DEF ItemsAssumption
  <2>2. ~InQueue(i) /\ SoleSlot(i)
    BY DEF Init, InQueue, SoleSlot
  <2>3. ~AtWorker(i) /\ SoleWorker(i)
    BY <2>1 DEF Init, AtWorker, SoleWorker
  <2>4. i \notin Accepted
    BY PoolAssumption DEF Init, Accepted, Items, PoolAssumption
  <2> QED
    BY <2>2, <2>3, <2>4 DEF Init, InPlace
<1>2. ASSUME TypeInv, InPlaces, [Next]_vars PROVE InPlaces'
  <2>1. CASE UNCHANGED <<queue, witem, pushed, done, freed>>
    BY <1>2, <2>1, PlacesAside
  <2>2. ASSUME NEW p \in Producers, Push(p) PROVE InPlaces'
    BY <1>2, <2>1, <2>2, PlacesPush DEF Push, PushBegins, PushRefused, PushWaits
  <2>3. ASSUME NEW w \in Workers, ThreadEntry(w) PROVE InPlaces'
    BY <1>2, <2>1, <2>3, PlacesPop, PlacesProcess DEF ThreadEntry, TestRunning, WaitForItem
  <2>4. CASE Owner
    BY <1>2, <2>1, <2>4, PlacesStop, PlacesDestroy
    DEF Owner, CreateThread, StartReturns, StopBegins, StopReturns
  <2> QED
    BY <1>2, <2>1, <2>2, <2>3, <2>4 DEF Next, vars
<1> QED
  BY <1>1, <1>2, TypeInvariant, PTL DEF Spec

\* An item push accepted is never lost, duplicated or processed twice: it is
\* in exactly one place, whatever start, stop and the destructor do.
THEOREM ItemsCorrect == Spec => []ItemsInOnePlace
<1>1. InPlaces => ItemsInOnePlace
  BY OnePlace DEF InPlaces, ItemsInOnePlace
<1> QED
  BY <1>1, InPlacesInvariant, PTL
-----------------------------------------------------------------------------
(* The hand-off.  RealItems drops the dummies of a queue.                  *)

\* RealItems goes through the queue once.
Rule(q, f) ==
  f = [n \in 0..Len(q) |->
         IF n = 0 THEN <<>> ELSE IF q[n] = Dummy THEN f[n - 1] ELSE Append(f[n - 1], q[n])]
Steps(q, f, m) ==
  /\ f[0] = <<>>
  /\ \A n \in 1..m : f[n] = IF q[n] = Dummy THEN f[n - 1] ELSE Append(f[n - 1], q[n])

\* There is a function by that rule.
LEMMA RuleHasFunction ==
  ASSUME NEW q \in Seq(Entry) PROVE \E f : Rule(q, f)
<1> DEFINE G == [x \in (1..Len(q)) \X Seq(Items) |->
                   IF q[x[1]] = Dummy THEN x[2] ELSE Append(x[2], q[x[1]])]
<1>0. Len(q) \in Nat /\ \A n \in 1..Len(q) : q[n] # Dummy => q[n] \in Items
  BY DEF Entry
<1>1. G \in [(1..Len(q)) \X Seq(Items) -> Seq(Items)]
  BY <1>0
<1>2. \A n \in 1..Len(q), s \in Seq(Items) :
        G[<<n, s>>] = IF q[n] = Dummy THEN s ELSE Append(s, q[n])
  OBVIOUS
<1>3. PICK f \in [0..Len(q) -> Seq(Items)] : Steps(q, f, Len(q))
  <2> DEFINE m == Len(q)
             R == Seq(Items)
  <2>1. <<>> \in R /\ G \in [(1..m) \X R -> R] /\ m \in Nat
    BY <1>0, <1>1
  <2> HIDE DEF G, m, R
  <2>2. Stepwise(m, R, <<>>, G)
    BY <2>1, Recursion
  <2>3. PICK f \in [0..m -> R] : f[0] = <<>> /\ \A n \in 1..m : f[n] = G[<<n, f[n - 1]>>]
    BY <2>2 DEF Stepwise
  <2>4. \A n \in 1..m : f[n - 1] \in R
    BY <2>1
  <2> QED
    BY <1>2, <2>3, <2>4 DEF Steps, m, R
<1>4. Rule(q, f)
  <2>1. ASSUME NEW n \in 0..Len(q)
        PROVE  f[n] = IF n = 0 THEN <<>> ELSE
                      IF q[n] = Dummy THEN f[n - 1] ELSE Append(f[n - 1], q[n])
    <3>1. CASE n = 0
      BY <1>3, <3>1 DEF Steps
    <3>2. CASE n \in 1..Len(q)
      BY <1>3, <3>2 DEF Steps
    <3> QED
      BY <1>0, <3>1, <3>2
  <2>2. f = [n \in 0..Len(q) |-> f[n]]
    OBVIOUS
  <2> QED
    BY <2>1, <2>2, Zenon DEF Rule
<1> QED
  BY <1>4

\* Every function that takes its steps ends with the real items.
LEMMA RealItemsAre ==
  ASSUME NEW q \in Seq(Entry)
  PROVE  /\ \E f : Steps(q, f, Len(q)) /\ RealItems(q) = f[Len(q)]
         /\ \A f : Steps(q, f, Len(q)) => RealItems(q) = f[Len(q)]
<1>0. Len(q) \in Nat
  OBVIOUS
<1> DEFINE g == CHOOSE f : Rule(q, f)
<1>1. Rule(q, g)
  BY RuleHasFunction
<1>2. RealItems(q) = g[Len(q)]
  BY Zenon DEF RealItems, Rule
<1> HIDE DEF g
<1>3. Steps(q, g, Len(q))
  <2> SUFFICES \A n \in 0..Len(q) : g[n] = IF n = 0 THEN <<>> ELSE
                 IF q[n] = Dummy THEN g[n - 1] ELSE Append(g[n - 1], q[n])
    BY <1>0 DEF Steps
  <2> QED
    BY <1>1, Zenon DEF Rule
<1>4. ASSUME NEW f, Steps(q, f, Len(q)) PROVE f[Len(q)] = g[Len(q)]
  <2> DEFINE T == {n \in Nat : n <= Len(q) => f[n] = g[n]}
  <2>1. 0 \in T
    BY <1>3, <1>4 DEF Steps
  <2>2. ASSUME NEW n \in 0..(Len(q) - 1), n \in T PROVE n + 1 \in T
    BY <1>0, <1>3, <1>4, <2>2 DEF Steps
  <2> HIDE DEF T
  <2>3. \A n \in 0..Len(q) : n \in T
    BY <1>0, <2>1, <2>2, UpTo
  <2> QED
    BY <1>0, <2>3 DEF T
<1> QED
  BY <1>2, <1>3, <1>4

\* There are no more of them than entries, and they are the items in the queue.
LEMMA RealItemsType ==
  ASSUME NEW q \in Seq(Entry)
  PROVE  /\ RealItems(q) \in Seq(Items) /\ Len(RealItems(q)) <= Len(q)
         /\ \A i \in Items : (\E k \in 1..Len(RealItems(q)) : RealItems(q)[k] = i)
                            <=> \E k \in 1..Len(q) : q[k] = i
<1>0. Len(q) \in Nat /\ \A n \in 1..Len(q) : q[n] \in Items \cup {Dummy}
  BY DEF Entry
<1>1. PICK f : Steps(q, f, Len(q)) /\ RealItems(q) = f[Len(q)]
  BY RealItemsAre
<1> DEFINE Good(n) ==
      /\ f[n] \in Seq(Items) /\ Len(f[n]) <= n
      /\ \A i \in Items : (\E k \in 1..Len(f[n]) : f[n][k] = i) <=> \E k \in 1..n : q[k] = i
    T == {n \in Nat : n <= Len(q) => Good(n)}
<1>2. 0 \in T
  <2>1. f[0] = <<>>
    BY <1>1 DEF Steps
  <2>2. <<>> \in Seq(Items) /\ Len(<<>>) = 0 /\ 1..0 = {}
    OBVIOUS
  <2>3. Good(0)
    BY <2>1, <2>2
  <2> HIDE DEF Good
  <2> QED
    BY <2>3
<1>3. ASSUME NEW n \in 0..(Len(q) - 1), n \in T PROVE n + 1 \in T
  <2> SUFFICES Good(n + 1)
    BY <1>0
  <2>0. Good(n) /\ n \in Nat
    BY <1>0, <1>3
  <2>1. CASE q[n + 1] = Dummy
    <3>1. f[n + 1] = f[n]
      BY <1>0, <1>1, <2>1 DEF Steps
    <3>2. \A i \in Items : (\E k \in 1..n + 1 : q[k] = i) <=> \E k \in 1..n : q[k] = i
      BY <2>1, <2>0, ItemsAssumption DEF ItemsAssumption
    <3> QED
      BY <2>0, <3>1, <3>2
  <2>2. CASE q[n + 1] # Dummy
    <3>0. n + 1 \in 1..Len(q) /\ (n + 1) - 1 = n
      BY <1>0
    <3>1. f[n + 1] = Append(f[n], q[n + 1]) /\ q[n + 1] \in Items
      <4>1. f[n + 1] = IF q[n + 1] = Dummy THEN f[(n + 1) - 1] ELSE Append(f[(n + 1) - 1], q[n + 1])
        BY <1>1, <3>0, Zenon DEF Steps
      <4>2. q[n + 1] \in Items
        BY <1>0, <2>2, <3>0
      <4> QED
        BY <2>2, <3>0, <4>1, <4>2
    <3> DEFINE s == f[n]
               x == q[n + 1]
    <3>2. s \in Seq(Items) /\ x \in Items /\ Len(s) \in Nat
      BY <2>0, <3>1
    <3>3. /\ Append(s, x) \in Seq(Items) /\ Len(Append(s, x)) = Len(s) + 1
          /\ \A k \in 1..Len(s) : Append(s, x)[k] = s[k]
          /\ Append(s, x)[Len(s) + 1] = x
      BY <3>2, AppendProperties
    <3>4. ASSUME NEW i \in Items
          PROVE  (\E k \in 1..Len(s) + 1 : Append(s, x)[k] = i) <=> x = i \/ \E k \in 1..Len(s) : s[k] = i
      BY <3>2, <3>3
    <3>5. \A i \in Items : (\E k \in 1..n + 1 : q[k] = i) <=> x = i \/ \E k \in 1..n : q[k] = i
      BY <2>0
    <3>6. Len(s) <= n
      BY <2>0
    <3>7. \A i \in Items : (\E k \in 1..Len(s) : s[k] = i) <=> \E k \in 1..n : q[k] = i
      BY <2>0
    <3> HIDE DEF s, x
    <3>8. /\ Append(s, x) \in Seq(Items) /\ Len(Append(s, x)) <= n + 1
          /\ \A i \in Items : (\E k \in 1..Len(Append(s, x)) : Append(s, x)[k] = i)
                             <=> \E k \in 1..n + 1 : q[k] = i
      <4>1. Len(Append(s, x)) = Len(s) + 1 /\ Append(s, x) \in Seq(Items)
        BY <3>3
      <4>2. Len(s) + 1 <= n + 1
        BY <2>0, <3>2, <3>6
      <4>3. ASSUME NEW i \in Items
            PROVE  (\E k \in 1..Len(s) + 1 : Append(s, x)[k] = i) <=> \E k \in 1..n + 1 : q[k] = i
        BY <3>4, <3>5, <3>7, Zenon
      <4> QED
        BY <4>1, <4>2, <4>3
    <3> QED
      BY <3>1, <3>8 DEF s, x
  <2> QED
    BY <2>1, <2>2
<1>4. \A n \in 0..Len(q) : n \in T
  <2> HIDE DEF T
  <2> QED
    BY <1>0, <1>2, <1>3, UpTo
<1>5. Good(Len(q))
  BY <1>0, <1>4
<1> HIDE DEF Good
<1> QED
  BY <1>1, <1>5 DEF Good

\* A queue with nothing in it has no items.
LEMMA RealItemsEmpty == RealItems(<<>>) = <<>>
<1>1. <<>> \in Seq(Entry) /\ Len(<<>>) = 0
  OBVIOUS
<1> QED
  BY <1>1, RealItemsAre DEF Steps

\* What is pushed comes last; dummies do not show.
LEMMA RealItemsAppend ==
  ASSUME NEW q \in Seq(Entry), NEW i \in Items
  PROVE  RealItems(Append(q, i)) = Append(RealItems(q), i)
<1> DEFINE p == Append(q, i)
<1>1. /\ p \in Seq(Entry) /\ Len(p) = Len(q) + 1 /\ Len(q) \in Nat
      /\ \A n \in 1..Len(q) : p[n] = q[n]
      /\ p[Len(q) + 1] = i
  BY AppendProperties DEF Entry
<1> HIDE DEF p
<1>2. PICK f : Steps(p, f, Len(p)) /\ RealItems(p) = f[Len(p)]
  BY <1>1, RealItemsAre
<1>3. Steps(q, f, Len(q))
  BY <1>1, <1>2 DEF Steps
<1>4. RealItems(q) = f[Len(q)]
  BY <1>3, RealItemsAre
<1>5. f[Len(q) + 1] = Append(f[Len(q)], i)
  <2>1. Len(q) + 1 \in 1..Len(p) /\ (Len(q) + 1) - 1 = Len(q) /\ i # Dummy
    BY <1>1, ItemsAssumption DEF ItemsAssumption
  <2> QED
    BY <1>1, <1>2, <2>1 DEF Steps
<1> QED
  BY <1>1, <1>2, <1>4, <1>5 DEF p

\* Dummies are no items.
LEMMA RealItemsDummies ==
  ASSUME NEW q \in Seq(Entry) PROVE RealItems(q \o Dummies) = RealItems(q)
<1> DEFINE p == q \o Dummies
<1>1. /\ p \in Seq(Entry) /\ Len(p) = Len(q) + Cardinality(Workers)
      /\ \A k \in 1..Len(p) : p[k] = IF k <= Len(q) THEN q[k] ELSE Dummy
      /\ Len(q) \in Nat /\ Cardinality(Workers) \in Nat
  BY DummiesAppended, Sizes
<1> HIDE DEF p
<1>2. PICK f : Steps(p, f, Len(p)) /\ RealItems(p) = f[Len(p)]
  BY <1>1, RealItemsAre
<1>3. Steps(q, f, Len(q))
  BY <1>1, <1>2 DEF Steps
<1>4. RealItems(q) = f[Len(q)]
  BY <1>3, RealItemsAre
<1> DEFINE T == {n \in Nat : f[Len(q) + n] = f[Len(q)]}
<1>5. 0 \in T
  BY <1>1
<1>6. ASSUME NEW n \in 0..(Cardinality(Workers) - 1), n \in T PROVE n + 1 \in T
  <2> DEFINE k == Len(q) + (n + 1)
  <2>1. k \in 1..Len(p) /\ k - 1 = Len(q) + n /\ ~(k <= Len(q)) /\ n + 1 \in Nat
    BY <1>1
  <2>2. p[k] = Dummy
    BY <1>1, <2>1
  <2>3. f[k] = f[k - 1]
    BY <1>2, <2>1, <2>2 DEF Steps
  <2> QED
    BY <1>6, <2>1, <2>3
<1>7. Cardinality(Workers) \in T
  <2> HIDE DEF T
  <2>1. \A n \in 0..Cardinality(Workers) : n \in T
    BY <1>1, <1>5, <1>6, UpTo
  <2> QED
    BY <1>1, <2>1
<1> QED
  BY <1>1, <1>2, <1>4, <1>7 DEF p

\* A dummy at the head does not show; an item there is the first.
LEMMA RealItemsTail ==
  ASSUME NEW q \in Seq(Entry), q # <<>>
  PROVE  RealItems(q) = IF Head(q) = Dummy THEN RealItems(Tail(q))
                        ELSE <<Head(q)>> \o RealItems(Tail(q))
<1> DEFINE p == Tail(q)
           x == Head(q)
<1>1. /\ p \in Seq(Entry) /\ x \in Entry /\ x = q[1]
      /\ Len(p) = Len(q) - 1 /\ Len(q) \in Nat \ {0} /\ Len(p) \in Nat
      /\ \A k \in 1..Len(p) : p[k] = q[k + 1]
  BY HeadTail
<1> HIDE DEF p, x
<1>2. PICK f : Steps(q, f, Len(q)) /\ RealItems(q) = f[Len(q)]
  BY <1>1, RealItemsAre
<1>3. PICK g : Steps(p, g, Len(p)) /\ RealItems(p) = g[Len(p)]
  BY <1>1, RealItemsAre
<1> DEFINE With(s) == IF x = Dummy THEN s ELSE <<x>> \o s
           T == {n \in Nat : n <= Len(p) => g[n] \in Seq(Items) /\ f[n + 1] = With(g[n])}
<1>4. 0 \in T
  <2>1. g[0] = <<>> /\ f[0] = <<>>
    BY <1>2, <1>3 DEF Steps
  <2>2. f[1] = IF x = Dummy THEN <<>> ELSE Append(<<>>, x)
    <3>1. 1 \in 1..Len(q) /\ 1 - 1 = 0
      BY <1>1
    <3>2. f[1] = IF q[1] = Dummy THEN f[1 - 1] ELSE Append(f[1 - 1], q[1])
      BY <1>2, <3>1, Zenon DEF Steps
    <3> QED
      BY <1>1, <2>1, <3>1, <3>2
  <2>3. x # Dummy => x \in Items
    BY <1>1 DEF Entry
  <2>4. <<>> \in Seq(Items) /\ (x \in Items => Append(<<>>, x) = <<x>> \o <<>>)
    OBVIOUS
  <2>5. f[1] = With(<<>>)
    BY <2>2, <2>3, <2>4
  <2>6. f[0 + 1] = With(g[0]) /\ g[0] \in Seq(Items)
    BY <2>1, <2>4, <2>5
  <2> HIDE DEF With
  <2> QED
    BY <2>6
<1>5. ASSUME NEW n \in 0..(Len(p) - 1), n \in T PROVE n + 1 \in T
  <2>0. n \in Nat /\ g[n] \in Seq(Items) /\ f[n + 1] = With(g[n])
    BY <1>1, <1>5
  <2>1. p[n + 1] = q[n + 2] /\ p[n + 1] \in Entry
    BY <1>1, <2>0
  <2>2. g[n + 1] = IF p[n + 1] = Dummy THEN g[n] ELSE Append(g[n], p[n + 1])
    BY <1>1, <1>3, <2>0 DEF Steps
  <2>3. f[n + 2] = IF p[n + 1] = Dummy THEN f[n + 1] ELSE Append(f[n + 1], p[n + 1])
    <3>1. n + 2 \in 1..Len(q) /\ (n + 2) - 1 = n + 1
      BY <1>1, <2>0
    <3> QED
      BY <1>2, <2>1, <3>1 DEF Steps
  <2>4. (n + 1) + 1 = n + 2
    BY <2>0
  <2>5. CASE p[n + 1] = Dummy
    BY <2>0, <2>2, <2>3, <2>4, <2>5
  <2>6. CASE p[n + 1] # Dummy
    <3> DEFINE s == g[n]
               y == p[n + 1]
    <3>1. s \in Seq(Items) /\ y \in Items /\ (x # Dummy => x \in Items)
      BY <1>1, <2>0, <2>1, <2>6 DEF Entry
    <3>2. g[n + 1] = Append(s, y) /\ f[n + 2] = Append(With(s), y)
      BY <2>0, <2>2, <2>3, <2>6
    <3> HIDE DEF s, y
    <3>3. Append(s, y) \in Seq(Items)
      BY <3>1
    <3>4. x \in Items => Append(<<x>> \o s, y) = <<x>> \o Append(s, y)
      BY <3>1
    <3>5. Append(With(s), y) = With(Append(s, y))
      BY <3>1, <3>4
    <3> HIDE DEF With
    <3>6. f[(n + 1) + 1] = With(g[n + 1]) /\ g[n + 1] \in Seq(Items)
      BY <2>4, <3>2, <3>3, <3>5
    <3> QED
      BY <2>0, <3>6
  <2> QED
    BY <2>5, <2>6
<1>6. Len(p) \in T
  <2> HIDE DEF T
  <2>1. \A n \in 0..Len(p) : n \in T
    BY <1>1, <1>4, <1>5, UpTo
  <2> QED
    BY <1>1, <2>1
<1>7. f[Len(q)] = With(g[Len(p)])
  BY <1>1, <1>6
<1> QED
  BY <1>2, <1>3, <1>7 DEF p, x

\* What HandOff sees of a worker: the item it has, and none while it has a dummy.
Active == [w \in Workers |-> IF witem[w] = Dummy THEN None ELSE witem[w]]

\* Steps that leave the queue, the workers' items and the records alone, or
\* put dummies in the queue, do not show.
LEMMA Unseen ==
  ASSUME UNCHANGED <<RealItems(queue), witem, done, freed>> PROVE UNCHANGED Handed!hvars
BY DEF Handed!hvars

\* An accepted push is Accept: the item is new, and there is room for it.
LEMMA PushIsAccept ==
  ASSUME TypeInv, InPlaces, NEW p \in Producers, PushAccepted(p) PROVE Handed!Next
<1> DEFINE i == <<p, pushed[p] + 1>>
<1>1. /\ queue \in Seq(Entry) /\ Len(queue) \in Nat /\ Len(queue) < Capacity
      /\ pushed \in [Producers -> 0..ItemsEach] /\ pushed[p] < ItemsEach
  BY DEF TypeInv, TypeOK, Entry, PushAccepted
<1>2. i \in Items /\ i \notin Accepted
  BY <1>1, PoolAssumption DEF PoolAssumption, Items, Accepted
<1>3. queue' = Append(queue, i) /\ UNCHANGED <<witem, done, freed>>
  BY DEF PushAccepted
<1> HIDE DEF i
<1>4. ~InQueue(i) /\ ~AtWorker(i) /\ i \notin done \cup freed
  BY <1>2 DEF InPlaces, InPlace
<1>5. RealItems(queue)' = Append(RealItems(queue), i)
  BY <1>1, <1>2, <1>3, RealItemsAppend
<1>6. Len(RealItems(queue)) < Capacity
  <2>1. Len(RealItems(queue)) <= Len(queue) /\ Len(RealItems(queue)) \in Nat
    BY <1>1, RealItemsType
  <2> QED
    BY <1>1, <2>1, Sizes
<1>7. ~Handed!Known(i)
  <2>1. ~\E k \in 1..Len(RealItems(queue)) : RealItems(queue)[k] = i
    BY <1>1, <1>2, <1>4, RealItemsType DEF InQueue
  <2>2. ~\E w \in Workers : Active[w] = i
    BY <1>2, <1>4, ItemsAssumption DEF ItemsAssumption, Active, AtWorker
  <2> QED
    BY <1>4, <2>1, <2>2, Zenon DEF Handed!Known, Active
<1>8. Handed!Accept(i)
  BY <1>3, <1>5, <1>6, <1>7 DEF Handed!Accept
<1> QED
  BY <1>2, <1>8 DEF Handed!Next

\* Popping an item is Take; popping a dummy does not show.
LEMMA PopIsTake ==
  ASSUME TypeInv, NEW w \in Workers, PopItem(w)
  PROVE  Handed!Next \/ UNCHANGED Handed!hvars
<1> DEFINE real == RealItems(queue)
           rest == RealItems(Tail(queue))
           x == Head(queue)
<1>1. /\ queue \in Seq(Entry) /\ queue # <<>> /\ witem \in [Workers -> Items \cup {Dummy, None}]
      /\ witem[w] = None
  BY DEF TypeInv, TypeOK, PopItem, Entry
<1>2. /\ queue' = Tail(queue) /\ witem' = [witem EXCEPT ![w] = x]
      /\ UNCHANGED <<done, freed>>
  BY DEF PopItem
<1>3. x \in Entry /\ rest \in Seq(Items)
  BY <1>1, HeadTail, RealItemsType
<1>4. real' = rest
  BY <1>2
<1>5. real = IF x = Dummy THEN rest ELSE <<x>> \o rest
  BY <1>1, RealItemsTail
<1> HIDE DEF real, rest, x
<1>6. CASE x = Dummy
  <2>1. Active' = Active
    BY <1>1, <1>2, <1>6 DEF Active
  <2>2. UNCHANGED real
    BY <1>4, <1>5, <1>6
  <2> QED
    BY <1>2, <2>1, <2>2 DEF Handed!hvars, Active, real
<1>7. CASE x # Dummy
  <2>1. x \in Items
    BY <1>3, <1>7 DEF Entry
  <2>2. real # <<>> /\ Head(real) = x /\ Tail(real) = rest
    BY <1>3, <1>5, <1>7, <2>1
  <2>3. Active[w] = None /\ Active' = [Active EXCEPT ![w] = x]
    BY <1>1, <1>2, <1>7, ItemsAssumption DEF Active, ItemsAssumption
  <2>4. Handed!Take(w)
    BY <1>2, <1>4, <2>2, <2>3 DEF Handed!Take, Active, real
  <2> QED
    BY <2>4 DEF Handed!Next
<1> QED
  BY <1>6, <1>7

\* Having processed an item is Finish; having processed a dummy does not show.
LEMMA ProcessIsFinish ==
  ASSUME TypeInv, NEW w \in Workers, ProcessItem(w)
  PROVE  Handed!Next \/ UNCHANGED Handed!hvars
<1>1. witem \in [Workers -> Items \cup {Dummy, None}] /\ witem[w] # None
  BY DEF TypeInv, TypeOK, ProcessItem
<1>2. /\ done' = IF witem[w] = Dummy THEN done ELSE done \cup {witem[w]}
      /\ witem' = [witem EXCEPT ![w] = None] /\ UNCHANGED <<queue, freed>>
  BY DEF ProcessItem
<1>3. UNCHANGED RealItems(queue)
  BY <1>2
<1>4. CASE witem[w] = Dummy
  <2>1. Active' = Active
    BY <1>1, <1>2, <1>4 DEF Active
  <2> QED
    BY <1>2, <1>3, <1>4, <2>1 DEF Handed!hvars, Active
<1>5. CASE witem[w] # Dummy
  <2>1. Active[w] = witem[w] /\ Active' = [Active EXCEPT ![w] = None]
    BY <1>1, <1>2, <1>5, ItemsAssumption DEF Active, ItemsAssumption
  <2>2. Handed!Finish(w)
    BY <1>1, <1>2, <1>3, <1>5, <2>1 DEF Handed!Finish, Active
  <2> QED
    BY <2>2 DEF Handed!Next
<1> QED
  BY <1>4, <1>5

\* The destructor is DropAll.
LEMMA DestroyIsDropAll == ASSUME TypeInv, Destroy PROVE Handed!Next
<1> DEFINE real == RealItems(queue)
<1>1. queue \in Seq(Entry) /\ DOMAIN queue = 1..Len(queue)
  BY DEF TypeInv, TypeOK, Entry
<1>2. /\ freed' = freed \cup (ToSet(queue) \ {Dummy}) /\ queue' = <<>>
      /\ UNCHANGED <<witem, done>>
  BY DEF Destroy
<1>3. real' = <<>>
  BY <1>2, RealItemsEmpty
<1>4. ToSet(queue) \ {Dummy} = {real[k] : k \in 1..Len(real)}
  <2>1. real \in Seq(Items)
        /\ \A i \in Items : (\E k \in 1..Len(real) : real[k] = i) <=> \E k \in 1..Len(queue) : queue[k] = i
    BY <1>1, RealItemsType
  <2> HIDE DEF real
  <2>2. \A k \in 1..Len(queue) : queue[k] \in Items \cup {Dummy}
    BY <1>1 DEF Entry
  <2>3. \A k \in 1..Len(real) : real[k] \in Items /\ real[k] # Dummy
    BY <2>1, ItemsAssumption DEF ItemsAssumption
  <2>4. ToSet(queue) = {queue[k] : k \in 1..Len(queue)}
    BY <1>1 DEF ToSet
  <2> QED
    BY <2>1, <2>2, <2>3, <2>4
<1>5. Handed!DropAll
  BY <1>2, <1>3, <1>4 DEF Handed!DropAll
<1> QED
  BY <1>5 DEF Handed!Next

\* The pool implements the hand-off its managers rely on: items are taken in
\* the order in which push accepted them, each once, never more than the
\* capacity are waiting, and only the destructor drops any.
THEOREM PoolHandsOff == Spec => ImplementsHandOff
<1>1. Init => Handed!Init
  <2> SUFFICES ASSUME Init PROVE Handed!Init
    OBVIOUS
  <2>1. RealItems(queue) = <<>>
    BY RealItemsEmpty DEF Init
  <2>2. Active = [w \in Workers |-> None]
    BY ItemsAssumption DEF Init, Active, ItemsAssumption
  <2> QED
    BY <2>1, <2>2 DEF Init, Handed!Init, Active
<1>2. ASSUME TypeInv, InPlaces, [Next]_vars PROVE [Handed!Next]_(Handed!hvars)
  <2>1. CASE UNCHANGED <<queue, witem, done, freed>>
    BY <2>1, Unseen
  <2>2. ASSUME NEW p \in Producers, Push(p) PROVE Handed!Next \/ UNCHANGED Handed!hvars
    BY <1>2, <2>1, <2>2, PushIsAccept DEF Push, PushBegins, PushRefused, PushWaits
  <2>3. ASSUME NEW w \in Workers, ThreadEntry(w) PROVE Handed!Next \/ UNCHANGED Handed!hvars
    BY <1>2, <2>1, <2>3, PopIsTake, ProcessIsFinish DEF ThreadEntry, TestRunning, WaitForItem
  <2>4. CASE StopPushesDummies
    <3>1. queue \in Seq(Entry) /\ queue' = queue \o Dummies /\ UNCHANGED <<witem, done, freed>>
      BY <1>2, <2>4 DEF TypeInv, TypeOK, Entry, StopPushesDummies, Dummies
    <3>2. UNCHANGED RealItems(queue)
      BY <3>1, RealItemsDummies
    <3> QED
      BY <3>1, <3>2, Unseen
  <2>5. CASE Owner
    BY <1>2, <2>1, <2>4, <2>5, DestroyIsDropAll
    DEF Owner, CreateThread, StartReturns, StopBegins, StopReturns
  <2> QED
    BY <1>2, <2>1, <2>2, <2>3, <2>5 DEF Next, vars
<1> QED
  BY <1>1, <1>2, TypeInvariant, InPlacesInvariant, PTL DEF Spec, ImplementsHandOff, Handed!Spec
=============================================================================
