---------------------------- MODULE NodesProofs ----------------------------
(***************************************************************************)
(* Proofs about RAWeb's node table, for any number of servers, request     *)
(* threads and nodes, whatever the dumps of the table do to each other,    *)
(* and about the shares the servers take of the policies.                  *)
(***************************************************************************)
EXTENDS WebNodes, SequenceTheorems, WellFoundedInduction, TLAPS

Node == [address : Addresses, status : {0, 1}, age : 0..(Silence + 1)]

\* A set of natural numbers has a least element, and Min finds it.
LEMMA LeastNumber ==
  ASSUME NEW T \in SUBSET Nat, T # {} PROVE Min(T) \in T /\ \A y \in T : Min(T) <= y
<1> DEFINE R == {ss \in Nat \X Nat : ss[1] < ss[2]}
<1>1. IsWellFoundedOn(R, Nat)
  BY NatLessThanWellFounded DEF OpToRel
<1>2. \E x \in T : \A y \in T : ~ (<<y, x>> \in R)
  <2> HIDE DEF R
  <2> QED
    BY <1>1, WFMin, Zenon
<1>3. \A x \in T, y \in T : ~ (<<y, x>> \in R) => x <= y
  OBVIOUS
<1> QED
  BY <1>2, <1>3 DEF Min

\* A function on a sequence's places is a sequence of the same length.
LEMMA Reshaped ==
  ASSUME NEW S, NEW s \in Seq(S), NEW f \in [1..Len(s) -> S]
  PROVE  f \in Seq(S) /\ Len(f) = Len(s)
<1>1. Len(s) \in Nat
  BY LenProperties
<1>2. f \in Seq(S)
  BY <1>1, SeqDef
<1>3. Len(f) \in Nat /\ DOMAIN f = 1..Len(f) /\ DOMAIN f = 1..Len(s)
  BY <1>2, LenProperties
<1> QED
  BY <1>1, <1>2, <1>3
-----------------------------------------------------------------------------
(* The list: nodes are only ever added, and keep their addresses.          *)

\* The node a heartbeat updates is the first with its address.
LEMMA FirstNode ==
  ASSUME TypeOK, NEW t \in Threads, At(t, "update"),
         NEW i, i = Min({j \in Place : aliveList[j].address = thread[t].addr})
  PROVE  i \in Place /\ aliveList[i].address = thread[t].addr
<1> DEFINE T == {j \in Place : aliveList[j].address = thread[t].addr}
<1>1. T \in SUBSET Nat
  BY DEF Place
<1>2. T # {}
  BY DEF TypeOK
<1>3. Min(T) \in T
  <2> HIDE DEF T
  <2> QED
    BY <1>1, <1>2, LeastNumber
<1> QED
  BY <1>3

\* A node that is added or updated keeps the others' places and addresses.
Bounded == Len(aliveList) <= MaxNodes
LEMMA ListStep ==
  ASSUME TypeOK, [Next]_vars
  PROVE  /\ aliveList' \in Seq(Node) /\ Len(aliveList) <= Len(aliveList') /\ (Bounded => Bounded')
         /\ \A i \in Place : i \in Place' /\ aliveList'[i].address = aliveList[i].address
<1> USE NodesAssumption DEF NodesAssumption, Bounded
<1>1. /\ aliveList \in Seq(Node) /\ Len(aliveList) \in Nat
      /\ aliveList \in [1..Len(aliveList) -> Node]
  BY LenProperties DEF TypeOK, Node
<1>2. \A i \in Place : aliveList[i] \in Node
  BY <1>1 DEF Place
<1>3. ASSUME NEW f \in [1..Len(aliveList) -> Node], aliveList' = f,
             \A i \in Place : f[i].address = aliveList[i].address
      PROVE  /\ aliveList' \in Seq(Node) /\ Len(aliveList) <= Len(aliveList') /\ (Bounded => Bounded')
             /\ \A i \in Place : i \in Place' /\ aliveList'[i].address = aliveList[i].address
  <2>1. f \in Seq(Node) /\ Len(f) = Len(aliveList)
    BY <1>1, Reshaped
  <2> QED
    BY <1>1, <1>3, <2>1 DEF Place
<1>4. CASE UNCHANGED aliveList
  BY <1>1, <1>4 DEF Place
<1>5. CASE Tick
  <2> DEFINE f == [i \in Place |-> [aliveList[i] EXCEPT !.age = IF @ <= Silence THEN @ + 1 ELSE @]]
  <2>1. \A i \in Place : f[i] \in Node /\ f[i].address = aliveList[i].address
    BY <1>2 DEF Node
  <2>2. f \in [1..Len(aliveList) -> Node]
    BY <2>1 DEF Place
  <2>3. aliveList' = f
    BY <1>5 DEF Tick
  <2> HIDE DEF f
  <2> QED
    BY <2>1, <2>2, <2>3, <1>3
<1>6. ASSUME NEW t \in Threads, AddNode(t)
      PROVE  /\ aliveList' \in Seq(Node) /\ Len(aliveList) <= Len(aliveList') /\ (Bounded => Bounded')
             /\ \A i \in Place : i \in Place' /\ aliveList'[i].address = aliveList[i].address
  <2>1. Fresh(t) \in Node /\ aliveList' = Append(aliveList, Fresh(t))
    <3>1. thread[t].addr \in Addresses
      BY <1>6 DEF AddNode, TypeOK
    <3>2. Fresh(t) \in Node
      BY <3>1 DEF Fresh, Node
    <3> QED
      BY <1>6, <3>2 DEF AddNode
  <2>2. /\ Append(aliveList, Fresh(t)) \in Seq(Node)
        /\ Len(Append(aliveList, Fresh(t))) = Len(aliveList) + 1
        /\ \A i \in 1..Len(aliveList) : Append(aliveList, Fresh(t))[i] = aliveList[i]
    BY <1>1, <2>1, AppendProperties
  <2>3. Len(aliveList) < MaxNodes
    BY <1>6 DEF AddNode
  <2> QED
    BY <1>1, <2>1, <2>2, <2>3 DEF Place
<1>7. ASSUME NEW t \in Threads, UpdateNode(t)
      PROVE  /\ aliveList' \in Seq(Node) /\ Len(aliveList) <= Len(aliveList') /\ (Bounded => Bounded')
             /\ \A i \in Place : i \in Place' /\ aliveList'[i].address = aliveList[i].address
  <2> DEFINE k == Min({j \in Place : aliveList[j].address = thread[t].addr})
             f == [aliveList EXCEPT ![k] = Fresh(t)]
  <2>1. k \in Place /\ aliveList[k].address = thread[t].addr
    BY <1>7, FirstNode DEF UpdateNode
  <2>2. aliveList' = f
    BY <1>7 DEF UpdateNode
  <2> HIDE DEF k
  <2>3. Fresh(t) \in Node /\ Fresh(t).address = aliveList[k].address
    BY <1>2, <2>1 DEF Fresh, Node
  <2>4. f \in [1..Len(aliveList) -> Node] /\ \A i \in Place : f[i].address = aliveList[i].address
    BY <1>1, <2>1, <2>3 DEF Place
  <2> HIDE DEF f
  <2> QED
    BY <2>2, <2>4, <1>3
<1>8. ASSUME NEW t \in Threads, CheckAlive(t)
      PROVE  /\ aliveList' \in Seq(Node) /\ Len(aliveList) <= Len(aliveList') /\ (Bounded => Bounded')
             /\ \A i \in Place : i \in Place' /\ aliveList'[i].address = aliveList[i].address
  <2> DEFINE f == [i \in Place |->
                     IF Expired(i) THEN [aliveList[i] EXCEPT !.status = 0] ELSE aliveList[i]]
  <2>1. \A i \in Place : f[i] \in Node /\ f[i].address = aliveList[i].address
    BY <1>2 DEF Node
  <2>2. f \in [1..Len(aliveList) -> Node]
    BY <2>1 DEF Place
  <2>3. aliveList' = f
    BY <1>8 DEF CheckAlive
  <2> HIDE DEF f
  <2> QED
    BY <2>1, <2>2, <2>3, <1>3
<1> QED
  BY <1>4, <1>5, <1>6, <1>7, <1>8
  DEF Next, Step, vars, webVars, ServerStops, Deploy, Heartbeat, CheckNode, Collect, OpenSession,
      Delete, Select, Add, Flush, Commit, Fail, List, MakeDir, Copy
-----------------------------------------------------------------------------
(* TypeOK.                                                                 *)

Steps == {"idle", "dead", "add node", "update", "check", "session", "list", "mkdir", "copy"}
           \cup DumpSteps
ThreadState == [pc : Steps, addr : Addresses \cup {Nobody}, last : BOOLEAN, rows : SUBSET Rows,
                alone : BOOLEAN, version : {"none", "next", "newest", "old"}]
Transaction == [by : Threads \cup {Nobody}, deleted : BOOLEAN, ins : SUBSET Rows, current : BOOLEAN]

\* A thread that comes to a heartbeat's step has an address.
Addressed ==
  \A t \in Threads :
    /\ At(t, "add node") => thread[t].addr \in Addresses
    /\ At(t, "update") => (\E i \in Place : aliveList[i].address = thread[t].addr)
ThreadsOK == thread \in [Threads -> ThreadState] /\ Addressed

\* What a step of one thread leaves to be shown.
LEMMA OneThread ==
  ASSUME TypeOK, [Next]_vars, NEW t \in Threads, NEW e \in ThreadState,
         thread' = [thread EXCEPT ![t] = e],
         e.pc \notin {"add node", "update"}
  PROVE  ThreadsOK'
<1>1. thread \in [Threads -> ThreadState] /\ Addressed
  BY DEF TypeOK, ThreadState, Steps, Addressed
<1>2. thread' \in [Threads -> ThreadState]
  BY <1>1
<1>3. ASSUME NEW u \in Threads
      PROVE  /\ At(u, "add node")' => thread'[u].addr \in Addresses
             /\ At(u, "update")' => (\E i \in Place' : aliveList'[i].address = thread'[u].addr)
  <2>1. CASE u = t
    BY <1>1, <2>1 DEF At
  <2>2. CASE u # t
    BY <1>1, <2>2, ListStep DEF At, Addressed
  <2> QED
    BY <2>1, <2>2
<1> QED
  BY <1>2, <1>3 DEF Addressed, ThreadsOK

\* The same for the steps that only say where a thread goes.
LEMMA OneThreadGoes ==
  ASSUME TypeOK, [Next]_vars, NEW t \in Threads, NEW p \in Steps \ {"add node", "update"},
         Goes(t, p)
  PROVE  ThreadsOK'
<1> DEFINE e == [thread[t] EXCEPT !.pc = p]
<1>1. thread \in [Threads -> ThreadState]
  BY DEF TypeOK, ThreadState, Steps
<1>2. thread[t] \in ThreadState
  BY <1>1
<1>3. e \in ThreadState /\ e.pc = p
  BY <1>2 DEF ThreadState
<1>4. thread' = [thread EXCEPT ![t] = e]
  BY <1>1 DEF Goes
<1> HIDE DEF e
<1> QED
  BY <1>3, <1>4, OneThread

\* What SelectAlive returns are rows that name nodes.
LEMMA AliveAreRows ==
  ASSUME TypeOK
  PROVE  /\ SelectAlive \in SUBSET Rows
         /\ \A r \in SelectAlive : r.service \in Place /\ aliveList[r.service].address = r.address
<1>1. aliveList \in Seq(Node)
  BY DEF TypeOK, Node
<1>2. \A i \in Place : aliveList[i] \in Node /\ i \in Nat
  BY <1>1, ElementOfSeq DEF Place
<1>3. \A i \in Place : aliveList[i].address \in Addresses
  BY <1>2 DEF Node
<1>4. ASSUME NEW r \in SelectAlive
      PROVE  r \in Rows /\ r.service \in Place /\ aliveList[r.service].address = r.address
  <2>1. PICK i \in Place : r = [address |-> aliveList[i].address, service |-> i]
    BY DEF SelectAlive, Alive
  <2> QED
    BY <1>2, <1>3, <2>1 DEF Rows
<1> QED
  BY <1>4

\* At first the variables have their types.
LEMMA TypeInit == Init => TypeOK
<1> USE NodesAssumption DEF NodesAssumption
<1> SUFFICES ASSUME Init PROVE TypeOK
  OBVIOUS
<1>1. aliveList \in Seq(Node)
  BY EmptySeq DEF Init
<1>2. Idle \in ThreadState /\ Idle.pc = "idle"
  BY DEF Idle, ThreadState, Steps
<1>3. thread \in [Threads -> ThreadState] /\ \A t \in Threads : At(t, "idle")
  BY <1>2 DEF Init, At
<1>4. Addressed
  BY <1>3 DEF Addressed, At
<1>5. tx \in Transaction /\ (tx.by = Nobody => tx = NoTx)
  BY DEF Init, NoTx, Transaction
<1>6. up \subseteq Addresses /\ deaths \in 0..MaxDeaths
  BY DEF Init
<1>7. /\ pending \subseteq Rows /\ broken \in BOOLEAN /\ spoiled \in BOOLEAN
      /\ table \subseteq Rows /\ newest \in (SUBSET Rows) \cup {NoFile}
  BY DEF Init
<1> QED
  BY <1>1, <1>3, <1>4, <1>5, <1>6, <1>7, Zenon
  DEF TypeOK, Node, ThreadState, Steps, Addressed, Transaction

\* A session's work leaves the database as it should be: what the actions of
\* dumpsRedAlert do to it.
DatabaseOK ==
  /\ pending \subseteq Rows /\ broken \in BOOLEAN
  /\ tx \in Transaction /\ (tx.by = Nobody => tx = NoTx)
  /\ table \subseteq Rows
LEMMA DatabaseStep ==
  ASSUME TypeOK, [Next]_vars PROVE DatabaseOK'
<1> USE NodesAssumption DEF NodesAssumption
<1>1. DatabaseOK /\ NoTx \in Transaction
  BY DEF TypeOK, DatabaseOK, Transaction, NoTx
<1>2. CASE UNCHANGED dbVars
  BY <1>1, <1>2 DEF DatabaseOK, dbVars
<1>3. ASSUME NEW t \in Threads, OpenSession(t) PROVE DatabaseOK'
  <2>1. /\ [tx EXCEPT !.current = FALSE] \in Transaction
        /\ [tx EXCEPT !.current = FALSE].by = tx.by
        /\ [NoTx EXCEPT !.current = FALSE] = NoTx
    BY <1>1 DEF DatabaseOK, Transaction, NoTx
  <2> QED
    BY <1>1, <1>3, <2>1 DEF OpenSession, DatabaseOK
<1>4. ASSUME NEW t \in Threads, Delete(t) PROVE DatabaseOK'
  <2>1. t # Nobody /\ [by |-> t, deleted |-> TRUE, ins |-> {}, current |-> TRUE] \in Transaction
    BY DEF Transaction, Threads
  <2>2. [by |-> t, deleted |-> TRUE, ins |-> {}, current |-> TRUE].by = t
    OBVIOUS
  <2> QED
    BY <1>1, <1>4, <2>1, <2>2 DEF Delete, DatabaseOK
<1>5. ASSUME NEW t \in Threads, Add(t) PROVE DatabaseOK'
  <2>1. thread[t].rows \subseteq Rows
    BY DEF TypeOK
  <2> QED
    BY <1>1, <1>5, <2>1 DEF Add, DatabaseOK
<1>6. ASSUME NEW t \in Threads, Flush(t) PROVE DatabaseOK'
  <2> DEFINE x == [tx EXCEPT !.by = t, !.ins = @ \cup pending, !.current = TRUE]
  <2>1. x \in Transaction /\ x.by = t /\ t # Nobody
    BY <1>1 DEF Transaction, Threads, DatabaseOK
  <2>2. (UNCHANGED <<pending, tx>> \/ (tx' = x /\ pending' = {})) /\ UNCHANGED <<broken, table>>
    BY <1>6 DEF Flush
  <2> HIDE DEF x
  <2> QED
    BY <1>1, <2>1, <2>2 DEF DatabaseOK
<1>7. ASSUME NEW t \in Threads, Commit(t) PROVE DatabaseOK'
  <2>1. tx.ins \subseteq Rows
    BY <1>1 DEF Transaction, DatabaseOK
  <2> QED
    BY <1>1, <1>7, <2>1 DEF Commit, DatabaseOK
<1>8. ASSUME NEW t \in Threads, Fail(t) PROVE DatabaseOK'
  BY <1>1, <1>8 DEF Fail, DatabaseOK
<1>9. CASE Collect
  BY <1>1, <1>9 DEF Collect, DatabaseOK
<1> QED
  BY <1>2, <1>3, <1>4, <1>5, <1>6, <1>7, <1>8, <1>9
  DEF Next, Step, vars, webVars, dbVars, Tick, ServerStops, Deploy, Heartbeat, CheckNode, AddNode,
      UpdateNode, CheckAlive, Select, List, MakeDir, Copy

\* What becomes of the threads.
LEMMA ThreadStep ==
  ASSUME TypeOK, [Next]_vars PROVE ThreadsOK'
<1> USE NodesAssumption DEF NodesAssumption
<1>1. thread \in [Threads -> ThreadState] /\ Addressed
  BY DEF TypeOK, ThreadState, Steps, Addressed
<1>2. Idle \in ThreadState /\ Idle.pc = "idle"
  BY DEF Idle, ThreadState, Steps
<1>3. CASE UNCHANGED thread
  <2>1. \A u \in Threads : (At(u, "add node")' <=> At(u, "add node")) /\ (At(u, "update")' <=> At(u, "update"))
    BY <1>3 DEF At
  <2> QED
    BY <1>1, <1>3, <2>1, ListStep DEF Addressed, ThreadsOK
<1>4. \A t \in Threads : Raise(t) \in ThreadState /\ Raise(t).pc \in {"idle", "dead"}
  BY DEF Raise, Idle, ThreadState, Steps
<1>5. ASSUME NEW t \in Requests, NEW a \in Addresses, Heartbeat(t, a) PROVE ThreadsOK'
  <2> DEFINE known == \E i \in Place : aliveList[i].address = a
             e == [Idle EXCEPT !.addr = a, !.pc = IF known THEN "update" ELSE "add node"]
  <2>1. /\ e \in ThreadState /\ e.addr = a
        /\ e.pc = IF known THEN "update" ELSE "add node"
    BY DEF Idle, ThreadState, Steps
  <2>2. thread' = [thread EXCEPT ![t] = e] /\ aliveList' = aliveList /\ t \in Threads
    BY <1>5 DEF Heartbeat, Threads
  <2> HIDE DEF e
  <2>3. thread' \in [Threads -> ThreadState]
    BY <1>1, <2>1, <2>2
  <2>4. ASSUME NEW u \in Threads
        PROVE  /\ At(u, "add node")' => thread'[u].addr \in Addresses
               /\ At(u, "update")' => (\E i \in Place' : aliveList'[i].address = thread'[u].addr)
    <3>1. CASE u = t
      BY <1>1, <2>1, <2>2, <3>1 DEF At, Place
    <3>2. CASE u # t
      BY <1>1, <2>2, <3>2 DEF At, Addressed, Place
    <3> QED
      BY <3>1, <3>2
  <2> QED
    BY <2>3, <2>4 DEF Addressed, ThreadsOK
<1>6. ASSUME NEW t \in Requests, Deploy(t) PROVE ThreadsOK'
  <2> DEFINE e == [Idle EXCEPT !.pc = "list", !.last = TRUE]
  <2>1. e \in ThreadState /\ e.pc = "list"
    BY DEF Idle, ThreadState, Steps
  <2>2. thread' = [thread EXCEPT ![t] = e] /\ t \in Threads
    BY <1>6 DEF Deploy, Threads
  <2> HIDE DEF e
  <2> QED
    BY <2>1, <2>2, OneThread
<1>7. CASE CheckNode
  BY <1>7, OneThreadGoes DEF CheckNode, Threads, Steps
<1>8. ASSUME NEW t \in Threads, AddNode(t) PROVE ThreadsOK'
  <2> DEFINE e == [Idle EXCEPT !.pc = "session"]
  <2>1. e \in ThreadState /\ e.pc = "session"
    BY DEF Idle, ThreadState, Steps
  <2>2. thread' = [thread EXCEPT ![t] = e]
    BY <1>8 DEF AddNode
  <2> HIDE DEF e
  <2> QED
    BY <2>1, <2>2, OneThread
<1>9. ASSUME NEW t \in Threads, UpdateNode(t) PROVE ThreadsOK'
  <2> DEFINE p(i) == IF aliveList[i].status = 0 THEN "session" ELSE "check"
             e(i) == [Idle EXCEPT !.pc = p(i)]
             k == Min({j \in Place : aliveList[j].address = thread[t].addr})
  <2>1. e(k) \in ThreadState /\ e(k).pc \in {"session", "check"}
    BY DEF Idle, ThreadState, Steps
  <2>2. thread' = [thread EXCEPT ![t] = e(k)]
    BY <1>9 DEF UpdateNode
  <2> HIDE DEF e
  <2> QED
    BY <2>1, <2>2, OneThread
<1>10. ASSUME NEW t \in Threads, CheckAlive(t) PROVE ThreadsOK'
  <2> DEFINE e == [thread[t] EXCEPT !.pc = "session", !.last = TRUE]
  <2>1. thread[t] \in ThreadState
    BY <1>1
  <2>2. e \in ThreadState /\ e.pc = "session"
    BY <2>1 DEF ThreadState, Steps
  <2>3. thread' = [thread EXCEPT ![t] = e] \/ thread' = [thread EXCEPT ![t] = Idle]
    BY <1>10 DEF CheckAlive
  <2> HIDE DEF e
  <2> QED
    BY <1>2, <2>2, <2>3, OneThread
<1>11. ASSUME NEW t \in Threads, OpenSession(t) PROVE ThreadsOK'
  <2> DEFINE others == {u \in Threads \ {t} : Dumping(u)}
             e == [thread[t] EXCEPT !.pc = "delete", !.alone = (others = {})]
             f(u) == [thread[u] EXCEPT !.alone = FALSE]
  <2>1. \A u \in Threads : thread[u] \in ThreadState
    BY <1>1
  <2>2. e \in ThreadState /\ e.pc = "delete"
    BY <2>1 DEF ThreadState, Steps, DumpSteps
  <2>3. \A u \in Threads : /\ f(u) \in ThreadState /\ f(u).pc = thread[u].pc
                           /\ f(u).addr = thread[u].addr
    BY <2>1 DEF ThreadState
  <2>4. thread' = [u \in Threads |-> IF u = t THEN e ELSE f(u)] /\ aliveList' = aliveList
    BY <1>11 DEF OpenSession
  <2> HIDE DEF e, f
  <2>5. thread' \in [Threads -> ThreadState]
    BY <2>2, <2>3, <2>4
  <2> QED
    BY <1>1, <2>2, <2>3, <2>4, <2>5 DEF Addressed, ThreadsOK, At, Place
<1>12. ASSUME NEW t \in Threads, Delete(t) PROVE ThreadsOK'
  BY <1>12, OneThreadGoes DEF Delete, Steps, DumpSteps
<1>13. ASSUME NEW t \in Threads, Select(t) PROVE ThreadsOK'
  <2> DEFINE e == [thread[t] EXCEPT !.rows = SelectAlive, !.pc = "add"]
  <2>1. thread[t] \in ThreadState
    BY <1>1
  <2>2. e \in ThreadState /\ e.pc = "add"
    BY <2>1, AliveAreRows DEF ThreadState, Steps, DumpSteps
  <2>3. thread' = [thread EXCEPT ![t] = e]
    BY <1>13 DEF Select
  <2> HIDE DEF e
  <2> QED
    BY <2>2, <2>3, OneThread
<1>14. ASSUME NEW t \in Threads, Add(t) PROVE ThreadsOK'
  <2>1. CASE Goes(t, "flush")
    BY <2>1, OneThreadGoes DEF Steps, DumpSteps
  <2>2. CASE \E r \in thread[t].rows : thread' = [thread EXCEPT ![t].rows = @ \ {r}]
    <3>1. PICK r \in thread[t].rows : thread' = [thread EXCEPT ![t].rows = @ \ {r}]
      BY <2>2
    <3> DEFINE e == [thread[t] EXCEPT !.rows = @ \ {r}]
    <3>2. thread[t] \in ThreadState /\ thread[t].pc = "add"
      BY <1>1, <1>14 DEF Add, At
    <3>3. e \in ThreadState /\ e.pc = "add"
      BY <3>2 DEF ThreadState
    <3>4. thread' = [thread EXCEPT ![t] = e]
      BY <1>1, <3>1
    <3> HIDE DEF e
    <3> QED
      BY <3>3, <3>4, OneThread
  <2> QED
    BY <1>14, <2>1, <2>2 DEF Add
<1>15. ASSUME NEW t \in Threads, Flush(t) PROVE ThreadsOK'
  BY <1>15, OneThreadGoes DEF Flush, Steps, DumpSteps
<1>16. ASSUME NEW t \in Threads, Commit(t) PROVE ThreadsOK'
  BY <1>16, OneThreadGoes DEF Commit, Steps
<1>17. ASSUME NEW t \in Threads, Fail(t) PROVE ThreadsOK'
  <2>1. thread' = [thread EXCEPT ![t] = Raise(t)]
    BY <1>17 DEF Fail
  <2> QED
    BY <1>4, <2>1, OneThread
<1>18. ASSUME NEW t \in Threads, List(t) PROVE ThreadsOK'
  <2> DEFINE e == [thread[t] EXCEPT !.version = "next", !.pc = "mkdir"]
  <2>1. thread[t] \in ThreadState
    BY <1>1
  <2>2. e \in ThreadState /\ e.pc = "mkdir"
    BY <2>1 DEF ThreadState, Steps
  <2>3. thread' = [thread EXCEPT ![t] = e]
    BY <1>18 DEF List
  <2> HIDE DEF e
  <2> QED
    BY <2>2, <2>3, OneThread
<1>19. ASSUME NEW t \in Threads, MakeDir(t) PROVE ThreadsOK'
  <2> DEFINE e == [thread[t] EXCEPT !.version = "newest", !.pc = "copy"]
             f(u) == [thread[u] EXCEPT !.version = "old"]
  <2>1. \A u \in Threads : thread[u] \in ThreadState
    BY <1>1
  <2>2. e \in ThreadState /\ e.pc = "copy"
    BY <2>1 DEF ThreadState, Steps
  <2>3. \A u \in Threads : /\ f(u) \in ThreadState /\ f(u).pc = thread[u].pc
                           /\ f(u).addr = thread[u].addr
    BY <2>1 DEF ThreadState
  <2>4. CASE thread' = [thread EXCEPT ![t] = Raise(t)]
    BY <1>4, <2>4, OneThread
  <2>5. CASE thread' = [u \in Threads |->
               IF u = t THEN e
               ELSE IF thread[u].version \in {"next", "newest"} THEN f(u) ELSE thread[u]]
    <3>1. aliveList' = aliveList
      BY <1>19 DEF MakeDir
    <3> HIDE DEF e, f
    <3>2. thread' \in [Threads -> ThreadState]
      BY <2>1, <2>2, <2>3, <2>5
    <3> QED
      BY <1>1, <2>2, <2>3, <2>5, <3>1, <3>2 DEF Addressed, ThreadsOK, At, Place
  <2> QED
    BY <1>19, <2>4, <2>5 DEF MakeDir
<1>20. ASSUME NEW t \in Threads, Copy(t) PROVE ThreadsOK'
  <2> DEFINE e == [Idle EXCEPT !.pc = "check"]
  <2>1. e \in ThreadState /\ e.pc = "check"
    BY DEF Idle, ThreadState, Steps
  <2>2. thread' = [thread EXCEPT ![t] = e] \/ thread' = [thread EXCEPT ![t] = Idle]
    BY <1>20 DEF Copy
  <2> HIDE DEF e
  <2> QED
    BY <1>2, <2>1, <2>2, OneThread
<1>21. ASSUME NEW t \in Threads, Step(t) PROVE ThreadsOK'
  BY <1>8, <1>9, <1>10, <1>11, <1>12, <1>13, <1>14, <1>15, <1>16, <1>17, <1>18, <1>19, <1>20,
     <1>21, Zenon DEF Step
<1>22. CASE Tick \/ Collect \/ (\E a \in Addresses : ServerStops(a)) \/ UNCHANGED vars
  BY <1>3, <1>22 DEF vars, webVars, Tick, ServerStops, Collect
<1>23. CASE \E t \in Requests : Deploy(t) \/ \E a \in Addresses : Heartbeat(t, a)
  <2>1. PICK t \in Requests : Deploy(t) \/ \E a \in Addresses : Heartbeat(t, a)
    BY <1>23
  <2> QED
    BY <1>5, <1>6, <2>1, Zenon
<1>24. CASE \E t \in Threads : Step(t)
  BY <1>21, <1>24, Zenon
<1> QED
  BY <1>7, <1>22, <1>23, <1>24, Zenon DEF Next

\* A step keeps them.
LEMMA TypeStep ==
  ASSUME TypeOK, [Next]_vars PROVE TypeOK'
<1> USE NodesAssumption DEF NodesAssumption
<1>1. up' \subseteq Addresses /\ deaths' \in 0..MaxDeaths
  <2>1. up \subseteq Addresses /\ deaths \in 0..MaxDeaths
    BY DEF TypeOK
  <2>2. CASE UNCHANGED <<up, deaths>>
    BY <2>1, <2>2
  <2>3. CASE \E a \in Addresses : ServerStops(a)
    BY <2>1, <2>3 DEF ServerStops
  <2> QED
    BY <2>2, <2>3
    DEF Next, Step, vars, Tick, Collect, Heartbeat, Deploy, CheckNode, AddNode, UpdateNode, CheckAlive,
        OpenSession, Delete, Select, Add, Flush, Commit, Fail, List, MakeDir, Copy
<1>2. spoiled' \in BOOLEAN /\ newest' \in (SUBSET Rows) \cup {NoFile}
  <2>1. spoiled \in BOOLEAN /\ newest \in (SUBSET Rows) \cup {NoFile} /\ table \subseteq Rows
    BY DEF TypeOK
  <2>2. CASE UNCHANGED <<spoiled, newest>>
    BY <2>1, <2>2
  <2>3. ASSUME NEW t \in Threads, OpenSession(t) PROVE spoiled' \in BOOLEAN /\ newest' = newest
    BY <2>3 DEF OpenSession
  <2>4. ASSUME NEW t \in Threads, Commit(t) PROVE spoiled' \in BOOLEAN /\ newest' = newest
    BY <2>4 DEF Commit
  <2>5. ASSUME NEW t \in Threads, Fail(t) PROVE spoiled' \in BOOLEAN /\ newest' = newest
    BY <2>5 DEF Fail
  <2>6. ASSUME NEW t \in Threads, MakeDir(t) PROVE spoiled' = spoiled /\ newest' \in {newest, NoFile}
    BY <2>6 DEF MakeDir
  <2>7. ASSUME NEW t \in Threads, Copy(t) PROVE spoiled' = spoiled /\ newest' \in {newest, table}
    BY <2>7 DEF Copy
  <2> QED
    BY <2>1, <2>2, <2>3, <2>4, <2>5, <2>6, <2>7
    DEF Next, Step, vars, webVars, ServerStops, Tick, Collect, Heartbeat, Deploy, CheckNode, AddNode,
        UpdateNode, CheckAlive, Delete, Select, Add, Flush, List
<1>3. aliveList' \in Seq(Node)
  BY ListStep
<1> QED
  BY <1>1, <1>2, <1>3, ThreadStep, DatabaseStep, Zenon
  DEF TypeOK, Node, ThreadsOK, ThreadState, Steps, Addressed, Transaction, DatabaseOK

\* The variables have the types the model gives them; in particular a thread
\* that comes to update a node finds one, and a transaction nobody's is none.
THEOREM TypeCorrect == Spec => []TypeOK
<1>1. TypeOK /\ [Next]_vars => TypeOK'
  BY TypeStep
<1> QED
  BY TypeInit, <1>1, PTL DEF Spec
-----------------------------------------------------------------------------
(* RowsNameNodes: whatever becomes of a row, the node it was made from     *)
(* keeps its place and its address; so all rows there are name nodes,      *)
(* those a thread has still to add and those nobody has committed too.     *)

Names(r) == r.service \in Place /\ aliveList[r.service].address = r.address
Somewhere(r) ==
  \/ \E t \in Threads : r \in thread[t].rows
  \/ r \in pending \/ r \in tx.ins \/ r \in table
  \/ newest # NoFile /\ r \in newest
AllNameNodes == \A r : Somewhere(r) => Names(r)

\* A step makes no rows but those it selects.
LEMMA RowsStep ==
  ASSUME TypeOK, [Next]_vars PROVE \A r : Somewhere(r)' => Somewhere(r) \/ r \in SelectAlive
<1> USE NodesAssumption DEF NodesAssumption
<1>1. thread \in [Threads -> ThreadState] /\ tx \in Transaction
  BY DEF TypeOK, ThreadState, Steps, Transaction
<1> DEFINE Uncommitted == pending \cup UNION {thread[t].rows : t \in Threads}
<1>2. /\ tx'.ins \subseteq tx.ins \cup pending
      /\ pending' \subseteq Uncommitted
      /\ table' \subseteq table \cup tx.ins \cup pending
  <2>1. CASE UNCHANGED dbVars
    BY <2>1 DEF dbVars
  <2>2. ASSUME NEW t \in Threads, OpenSession(t)
        PROVE tx'.ins = tx.ins /\ pending' = {} /\ table' = table
    <3>1. [tx EXCEPT !.current = FALSE].ins = tx.ins
      BY <1>1 DEF Transaction
    <3> QED
      BY <2>2, <3>1 DEF OpenSession
  <2>3. ASSUME NEW t \in Threads, Delete(t)
        PROVE tx'.ins = {} /\ pending' = pending /\ table' = table
    BY <2>3 DEF Delete
  <2>4. ASSUME NEW t \in Threads, Add(t)
        PROVE tx' = tx /\ pending' \subseteq pending \cup thread[t].rows /\ table' = table
    BY <2>4 DEF Add
  <2>5. ASSUME NEW t \in Threads, Flush(t)
        PROVE tx'.ins \subseteq tx.ins \cup pending /\ pending' \subseteq pending /\ table' = table
    <3>1. [tx EXCEPT !.by = t, !.ins = @ \cup pending, !.current = TRUE].ins = tx.ins \cup pending
      BY <1>1 DEF Transaction
    <3> QED
      BY <2>5, <3>1 DEF Flush
  <2>6. ASSUME NEW t \in Threads, Commit(t)
        PROVE /\ tx'.ins \subseteq tx.ins /\ pending' \subseteq pending
              /\ table' \subseteq table \cup tx.ins \cup pending
    BY <2>6 DEF Commit, NoTx
  <2>7. ASSUME NEW t \in Threads, Fail(t)
        PROVE tx'.ins \subseteq tx.ins /\ pending' \subseteq pending /\ table' = table
    BY <2>7 DEF Fail, NoTx
  <2>8. ASSUME Collect
        PROVE tx'.ins \subseteq tx.ins /\ pending' = pending /\ table' = table
    BY <2>8 DEF Collect, NoTx
  <2>9. \A t \in Threads : pending \cup thread[t].rows \subseteq Uncommitted
    OBVIOUS
  <2> HIDE DEF Uncommitted
  <2>10. ASSUME NEW t \in Threads, Step(t)
         PROVE /\ tx'.ins \subseteq tx.ins \cup pending
               /\ pending' \subseteq Uncommitted
               /\ table' \subseteq table \cup tx.ins \cup pending
    <3>1. CASE UNCHANGED dbVars
      BY <2>1, <3>1
    <3>2. CASE \/ OpenSession(t) \/ Delete(t) \/ Add(t) \/ Flush(t) \/ Commit(t) \/ Fail(t)
      BY <2>2, <2>3, <2>4, <2>5, <2>6, <2>7, <2>9, <3>2
    <3> QED
      BY <2>10, <3>1, <3>2 DEF Step, AddNode, UpdateNode, CheckAlive, Select, List, MakeDir, Copy
  <2>11. CASE UNCHANGED vars \/ Tick \/ CheckNode \/ (\E a \in Addresses : ServerStops(a))
               \/ (\E t \in Requests : Deploy(t) \/ \E a \in Addresses : Heartbeat(t, a))
    BY <2>1, <2>11 DEF vars, webVars, Tick, ServerStops, Deploy, Heartbeat, CheckNode
  <2>12. pending \subseteq Uncommitted
    BY DEF Uncommitted
  <2> QED
    BY <2>8, <2>10, <2>11, <2>12 DEF Next, Collect
<1>3. newest' \in {newest, NoFile, table}
  BY DEF Next, Step, vars, webVars, ServerStops, Tick, Collect, Heartbeat, Deploy, CheckNode,
     AddNode, UpdateNode, CheckAlive, OpenSession, Delete, Select, Add, Flush, Commit, Fail,
     List, MakeDir, Copy
<1>4. \A u \in Threads : thread'[u].rows \subseteq thread[u].rows \cup SelectAlive
  <2> SUFFICES ASSUME NEW u \in Threads PROVE thread'[u].rows \subseteq thread[u].rows \cup SelectAlive
    OBVIOUS
  <2>0. \A t \in Threads : thread[t] \in ThreadState
    BY <1>1
  <2>1. ASSUME NEW t \in Threads, NEW e, e.rows \subseteq thread[t].rows \cup SelectAlive,
               thread' = [thread EXCEPT ![t] = e]
        PROVE  thread'[u].rows \subseteq thread[u].rows \cup SelectAlive
    BY <1>1, <2>1
  <2>2. Idle.rows = {} /\ \A t \in Threads : Raise(t).rows = {}
    BY DEF Idle, Raise
  <2>3. ASSUME NEW t \in Threads, NEW p, Goes(t, p) PROVE thread'[u].rows = thread[u].rows
    BY <1>1, <2>0, <2>3 DEF Goes, ThreadState
  <2>4. ASSUME NEW t \in Requests, \/ Deploy(t) \/ \E a \in Addresses : Heartbeat(t, a)
        PROVE  thread'[u].rows \subseteq thread[u].rows \cup SelectAlive
    <3>1. [Idle EXCEPT !.pc = "list", !.last = TRUE].rows = {}
      BY DEF Idle
    <3>2. \A a, p : [Idle EXCEPT !.addr = a, !.pc = p].rows = {}
      BY DEF Idle
    <3>3. t \in Threads
      BY DEF Threads
    <3>4. CASE Deploy(t)
      <4>1. thread' = [thread EXCEPT ![t] = [Idle EXCEPT !.pc = "list", !.last = TRUE]]
        BY <3>4 DEF Deploy
      <4> QED
        BY <2>1, <3>1, <3>3, <4>1
    <3>5. ASSUME NEW a \in Addresses, Heartbeat(t, a)
          PROVE  thread'[u].rows \subseteq thread[u].rows \cup SelectAlive
      <4>1. \E p : thread' = [thread EXCEPT ![t] = [Idle EXCEPT !.addr = a, !.pc = p]]
        BY <3>5 DEF Heartbeat
      <4> QED
        BY <2>1, <3>2, <3>3, <4>1
    <3> QED
      BY <2>4, <3>4, <3>5
  <2>5. ASSUME NEW t \in Threads, Step(t)
        PROVE  thread'[u].rows \subseteq thread[u].rows \cup SelectAlive
    <3>1. \A p : [Idle EXCEPT !.pc = p].rows = {}
      BY DEF Idle
    <3>2. [thread[t] EXCEPT !.pc = "session", !.last = TRUE].rows = thread[t].rows
      BY <2>0 DEF ThreadState
    <3>3. CASE AddNode(t)
      <4>1. thread' = [thread EXCEPT ![t] = [Idle EXCEPT !.pc = "session"]]
        BY <3>3 DEF AddNode
      <4> QED
        BY <2>1, <3>1, <4>1
    <3>4. CASE UpdateNode(t)
      <4>1. \E p : thread' = [thread EXCEPT ![t] = [Idle EXCEPT !.pc = p]]
        BY <3>4 DEF UpdateNode
      <4> QED
        BY <2>1, <3>1, <4>1
    <3>5. CASE CheckAlive(t)
      <4>1. \/ thread' = [thread EXCEPT ![t] = [thread[t] EXCEPT !.pc = "session", !.last = TRUE]]
            \/ thread' = [thread EXCEPT ![t] = Idle]
        BY <3>5 DEF CheckAlive
      <4> QED
        BY <2>1, <2>2, <3>2, <4>1
    <3>6. CASE OpenSession(t)
      <4>1. \A v \in Threads : \A p, b : /\ [thread[v] EXCEPT !.pc = p, !.alone = b].rows = thread[v].rows
                                         /\ [thread[v] EXCEPT !.alone = FALSE].rows = thread[v].rows
        BY <2>0 DEF ThreadState
      <4>2. \E b : thread' = [v \in Threads |->
               IF v = t THEN [thread[t] EXCEPT !.pc = "delete", !.alone = b]
               ELSE [thread[v] EXCEPT !.alone = FALSE]]
        BY <3>6 DEF OpenSession
      <4> QED
        BY <4>1, <4>2
    <3>7. CASE Delete(t) \/ Flush(t) \/ Commit(t)
      BY <2>3, <3>7 DEF Delete, Flush, Commit
    <3>8. CASE Select(t)
      <4>1. [thread[t] EXCEPT !.rows = SelectAlive, !.pc = "add"].rows = SelectAlive
        BY <2>0 DEF ThreadState
      <4>2. thread' = [thread EXCEPT ![t] = [thread[t] EXCEPT !.rows = SelectAlive, !.pc = "add"]]
        BY <3>8 DEF Select
      <4> QED
        BY <2>1, <4>1, <4>2
    <3>9. CASE Add(t)
      <4>1. CASE Goes(t, "flush")
        BY <2>3, <4>1
      <4>2. CASE \E r \in thread[t].rows : thread' = [thread EXCEPT ![t].rows = @ \ {r}]
        BY <1>1, <2>0, <4>2 DEF ThreadState
      <4> QED
        BY <3>9, <4>1, <4>2 DEF Add
    <3>10. CASE Fail(t)
      BY <2>1, <2>2, <3>10 DEF Fail
    <3>11. CASE List(t)
      <4>1. [thread[t] EXCEPT !.version = "next", !.pc = "mkdir"].rows = thread[t].rows
        BY <2>0 DEF ThreadState
      <4>2. thread' = [thread EXCEPT ![t] = [thread[t] EXCEPT !.version = "next", !.pc = "mkdir"]]
        BY <3>11 DEF List
      <4> QED
        BY <2>1, <4>1, <4>2
    <3>12. CASE MakeDir(t)
      <4>1. \A v \in Threads : \A p, w : /\ [thread[v] EXCEPT !.version = w, !.pc = p].rows = thread[v].rows
                                         /\ [thread[v] EXCEPT !.version = w].rows = thread[v].rows
        BY <2>0 DEF ThreadState
      <4>2. CASE thread' = [v \in Threads |->
               IF v = t THEN [thread[t] EXCEPT !.version = "newest", !.pc = "copy"]
               ELSE IF thread[v].version \in {"next", "newest"}
               THEN [thread[v] EXCEPT !.version = "old"] ELSE thread[v]]
        BY <4>1, <4>2
      <4>3. CASE thread' = [thread EXCEPT ![t] = Raise(t)]
        BY <2>1, <2>2, <4>3
      <4> QED
        BY <3>12, <4>2, <4>3 DEF MakeDir
    <3>13. CASE Copy(t)
      <4>1. \/ thread' = [thread EXCEPT ![t] = [Idle EXCEPT !.pc = "check"]]
            \/ thread' = [thread EXCEPT ![t] = Idle]
        BY <3>13 DEF Copy
      <4> QED
        BY <2>1, <2>2, <3>1, <4>1
    <3> QED
      BY <2>5, <3>3, <3>4, <3>5, <3>6, <3>7, <3>8, <3>9, <3>10, <3>11, <3>12, <3>13, Zenon DEF Step
  <2>6. CASE UNCHANGED thread
    BY <2>6
  <2>7. CASE CheckNode
    BY <2>3, <2>7 DEF CheckNode, Threads
  <2> QED
    BY <2>4, <2>5, <2>6, <2>7 DEF Next, vars, webVars, ServerStops, Tick, Collect
<1> QED
  BY <1>2, <1>3, <1>4 DEF Somewhere

\* A row of the table stands for a node by its own address, however the dumps
\* of request threads and liveness thread run into each other, replace each
\* other's session or fail: no service is ever two servers', in the table or
\* in the newest version.
THEOREM RowsCorrect == Spec => []RowsNameNodes
<1>1. Init => AllNameNodes
  <2> SUFFICES ASSUME Init PROVE \A r : ~Somewhere(r)
    BY DEF AllNameNodes
  <2>1. \A t \in Threads : thread[t].rows = {}
    BY DEF Init, Idle
  <2> QED
    BY <2>1 DEF Init, Somewhere, NoTx
<1>2. TypeOK /\ AllNameNodes /\ [Next]_vars => AllNameNodes'
  <2> SUFFICES ASSUME TypeOK, AllNameNodes, [Next]_vars, NEW r, Somewhere(r)'
               PROVE  Names(r)'
    BY DEF AllNameNodes
  <2>1. Somewhere(r) \/ r \in SelectAlive
    BY RowsStep
  <2>2. Names(r)
    BY <2>1, AliveAreRows DEF Names, AllNameNodes
  <2> QED
    BY <2>2, ListStep DEF Names
<1>3. AllNameNodes => RowsNameNodes
  BY DEF AllNameNodes, Somewhere, Names, RowsNameNodes
<1> QED
  BY <1>1, <1>2, <1>3, TypeCorrect, PTL DEF Spec
-----------------------------------------------------------------------------
(* NewestHasTable.                                                         *)

\* What a step of one thread leaves of the others.
LEMMA OtherThreads ==
  ASSUME TypeOK, NEW t \in Threads, Step(t), NEW u \in Threads \ {t}
  PROVE  /\ thread'[u].pc = thread[u].pc /\ thread'[u].rows = thread[u].rows
         /\ ~MakeDir(t) => thread'[u].version = thread[u].version
         /\ ~OpenSession(t) => thread'[u].alone = thread[u].alone
<1>1. thread \in [Threads -> ThreadState] /\ thread[u] \in ThreadState
  BY DEF TypeOK, ThreadState, Steps
<1>2. CASE \/ AddNode(t) \/ UpdateNode(t) \/ CheckAlive(t) \/ Delete(t) \/ Select(t) \/ Add(t)
           \/ Flush(t) \/ Commit(t) \/ Fail(t) \/ List(t) \/ Copy(t)
  <2>1. thread'[u] = thread[u]
    BY <1>1, <1>2 DEF AddNode, UpdateNode, CheckAlive, Delete, Select, Add, Flush, Commit, Fail,
       List, Copy, Goes
  <2> QED
    BY <2>1
<1>3. CASE OpenSession(t)
  <2>1. thread'[u] = [thread[u] EXCEPT !.alone = FALSE]
    BY <1>3 DEF OpenSession
  <2> QED
    BY <1>1, <1>3, <2>1 DEF ThreadState
<1>4. CASE MakeDir(t)
  <2>1. thread'[u] = thread[u] \/ thread'[u] = [thread[u] EXCEPT !.version = "old"]
    BY <1>1, <1>4 DEF MakeDir
  <2> QED
    BY <1>1, <1>4, <2>1 DEF ThreadState
<1> QED
  BY <1>2, <1>3, <1>4 DEF Step

\* A thread about to put the table into the newest version.
Due(t) == \/ At(t, "list")
          \/ At(t, "mkdir") /\ thread[t].version = "next"
          \/ At(t, "copy") /\ thread[t].version = "newest"

\* What a dump has committed gets into the newest version, unless somebody is
\* about to put it there, although deploys race for version numbers and the
\* loser makes none.
THEOREM NewestCorrect == Spec => []NewestHasTable
<1>1. Init => NewestHasTable
  BY DEF Init, NewestHasTable
<1>2. ASSUME TypeOK, NewestHasTable, [Next]_vars PROVE NewestHasTable'
  <2> SUFFICES ASSUME newest' # table' PROVE \E t \in Threads : Due(t)'
    BY DEF NewestHasTable, Due, At
  <2>0. newest # table => \E t \in Threads : Due(t)
    BY <1>2 DEF NewestHasTable, Due, At
  <2>1. \A t \in Threads : thread[t] \in ThreadState
    BY <1>2 DEF TypeOK, ThreadState, Steps
  <2>2. thread \in [Threads -> ThreadState]
    BY <1>2 DEF TypeOK, ThreadState, Steps
  <2>3. ASSUME UNCHANGED <<newest, table>>,
               \A u \in Threads : Due(u) => Due(u)'
        PROVE  \E t \in Threads : Due(t)'
    BY <2>0, <2>3
  <2>4. ASSUME NEW t \in Threads, thread' = [thread EXCEPT ![t] = thread'[t]], ~Due(t),
               UNCHANGED <<newest, table>>
        PROVE  \E u \in Threads : Due(u)'
    <3>1. \A u \in Threads : u # t => thread'[u] = thread[u]
      BY <2>2, <2>4
    <3>2. \A u \in Threads : Due(u) => Due(u)'
      BY <2>4, <3>1 DEF Due, At
    <3> QED
      BY <2>3, <2>4, <3>2
  <2>5. CASE UNCHANGED <<thread, newest, table>>
    BY <2>3, <2>5 DEF Due, At
  <2>6. ASSUME NEW t \in Requests, Deploy(t) \/ \E a \in Addresses : Heartbeat(t, a)
        PROVE  \E u \in Threads : Due(u)'
    <3>1. t \in Threads /\ ~Due(t)
      BY <2>6 DEF Threads, Due, At, Deploy, Heartbeat
    <3>2. UNCHANGED <<newest, table>> /\ thread' = [thread EXCEPT ![t] = thread'[t]]
      BY <2>2, <2>6, <3>1 DEF Deploy, Heartbeat, dbVars
    <3> QED
      BY <2>4, <3>1, <3>2
  <2>7. CASE CheckNode
    <3>1. Checker \in Threads /\ ~Due(Checker)
      BY <2>7 DEF Threads, Due, At, CheckNode
    <3>2. UNCHANGED <<newest, table>> /\ thread' = [thread EXCEPT ![Checker] = thread'[Checker]]
      BY <2>2, <2>7, <3>1 DEF CheckNode, dbVars, Goes
    <3> QED
      BY <2>4, <3>1, <3>2
  <2>8. ASSUME NEW t \in Threads, Step(t) PROVE \E u \in Threads : Due(u)'
    <3>1. \A u \in Threads \ {t} : /\ thread'[u].pc = thread[u].pc
                                   /\ ~MakeDir(t) => thread'[u].version = thread[u].version
      BY <1>2, <2>8, OtherThreads
    <3>2. CASE \/ AddNode(t) \/ UpdateNode(t) \/ CheckAlive(t) \/ OpenSession(t) \/ Delete(t)
               \/ Select(t) \/ Add(t) \/ Flush(t) \/ Fail(t)
      <4>1. ~Due(t)
        BY <3>2 DEF Due, At, AddNode, UpdateNode, CheckAlive, OpenSession, Delete, Select, Add,
           Flush, Fail
      <4>2. UNCHANGED <<newest, table>> /\ ~MakeDir(t)
        BY <3>2 DEF AddNode, UpdateNode, CheckAlive, OpenSession, Delete, Select, Add, Flush, Fail,
           MakeDir, At, dbVars
      <4>3. \A u \in Threads : Due(u) => Due(u)'
        BY <3>1, <4>1, <4>2 DEF Due, At
      <4> QED
        BY <2>3, <4>2, <4>3
    <3>3. CASE Commit(t)
      <4>1. thread'[t] = [thread[t] EXCEPT !.pc = "list"]
        BY <2>2, <3>3 DEF Commit, Goes
      <4>2. thread'[t].pc = "list"
        BY <2>1, <4>1 DEF ThreadState
      <4> QED
        BY <4>2 DEF Due, At
    <3>4. CASE List(t)
      <4>1. thread'[t] = [thread[t] EXCEPT !.version = "next", !.pc = "mkdir"]
        BY <2>2, <3>4 DEF List
      <4>2. thread'[t].pc = "mkdir" /\ thread'[t].version = "next"
        BY <2>1, <4>1 DEF ThreadState
      <4> QED
        BY <4>2 DEF Due, At
    <3>5. CASE MakeDir(t) /\ thread[t].version = "next"
      <4>1. thread'[t] = [thread[t] EXCEPT !.version = "newest", !.pc = "copy"]
        BY <2>2, <3>5 DEF MakeDir
      <4>2. thread'[t].pc = "copy" /\ thread'[t].version = "newest"
        BY <2>1, <4>1 DEF ThreadState
      <4> QED
        BY <4>2 DEF Due, At
    <3>6. CASE MakeDir(t) /\ thread[t].version # "next"
      <4>1. thread' = [thread EXCEPT ![t] = Raise(t)] /\ UNCHANGED <<newest, table>> /\ ~Due(t)
        BY <3>6 DEF MakeDir, Due, At, dbVars
      <4>2. thread' = [thread EXCEPT ![t] = thread'[t]]
        BY <2>2, <4>1
      <4> QED
        BY <2>4, <4>1, <4>2
    <3>7. CASE Copy(t)
      <4>1. thread[t].version # "newest" /\ newest' = newest /\ table' = table
        BY <3>7 DEF Copy, dbVars
      <4>2. ~Due(t)
        BY <3>7, <4>1 DEF Copy, Due, At
      <4>3. thread' = [thread EXCEPT ![t] = thread'[t]]
        BY <2>2, <3>7 DEF Copy
      <4> QED
        BY <2>4, <4>1, <4>2, <4>3
    <3> QED
      BY <2>8, <3>2, <3>3, <3>4, <3>5, <3>6, <3>7 DEF Step
  <2>9. CASE UNCHANGED vars \/ Tick \/ Collect \/ (\E a \in Addresses : ServerStops(a))
    BY <2>5, <2>9 DEF vars, webVars, dbVars, Tick, Collect, ServerStops
  <2>10. CASE \E t \in Threads : Step(t)
    BY <2>8, <2>10
  <2>11. CASE \E t \in Requests : Deploy(t) \/ \E a \in Addresses : Heartbeat(t, a)
    BY <2>6, <2>11
  <2> QED
    BY <1>2, <2>7, <2>9, <2>10, <2>11, Zenon DEF Next
<1> QED
  BY <1>1, <1>2, TypeCorrect, PTL DEF Spec
-----------------------------------------------------------------------------
(* TableIsCurrent.  A dump that is the only one has the session and, once  *)
(* it has deleted the rows, the write lock to itself; what it has selected *)
(* shows the nodes alive up to the commit, unless somebody is about to     *)
(* open a session of its own, as whoever changes a node's status is.       *)

NoSession == \A t \in Threads : ~At(t, "session")
HasTable(t) == tx.by = t /\ tx.deleted /\ tx.current
DumpOK(t) ==
  /\ ~broken /\ \A u \in Threads : Dumping(u) => u = t
  /\ At(t, "delete") => pending = {} /\ ~tx.current
  /\ At(t, "select") => HasTable(t) /\ pending = {} /\ tx.ins = {}
  /\ At(t, "add") => /\ HasTable(t) /\ tx.ins = {}
                     /\ NoSession => thread[t].rows \cup pending = SelectAlive
  /\ At(t, "flush") => /\ HasTable(t) /\ tx.ins = {}
                       /\ NoSession => pending = SelectAlive
  /\ At(t, "commit") => /\ HasTable(t) /\ pending = {}
                        /\ NoSession => tx.ins = SelectAlive
TableInv ==
  /\ \A t \in Threads : Dumping(t) /\ thread[t].alone => DumpOK(t)
  /\ \A t \in Threads : Dumping(t) /\ ~spoiled => thread[t].alone
  /\ TableIsCurrent

\* Nodes with the same status and address are selected alike.
LEMMA AliveSame ==
  ASSUME Place' = Place,
         \A i \in Place : /\ aliveList'[i].status = aliveList[i].status
                          /\ aliveList'[i].address = aliveList[i].address
  PROVE  SelectAlive' = SelectAlive
<1> DEFINE First(S) == {j \in S : Cardinality({k \in S : k < j}) < MaxBackends}
<1>1. Alive' = Alive
  BY DEF Alive
<1>2. First(Alive') = First(Alive) /\ First(Alive) \subseteq Place
  BY <1>1 DEF Alive
<1>3. /\ SelectAlive = {[address |-> aliveList[i].address, service |-> i] : i \in First(Alive)}
      /\ SelectAlive' = {[address |-> aliveList'[i].address, service |-> i] : i \in First(Alive')}
  BY DEF SelectAlive
<1> HIDE DEF First
<1> QED
  BY <1>2, <1>3

\* Whoever changes what SelectAlive returns goes on to open a session.
LEMMA AliveStep ==
  ASSUME TypeOK, [Next]_vars
  PROVE  SelectAlive' = SelectAlive \/ ~NoSession'
<1> USE NodesAssumption DEF NodesAssumption
<1>1. /\ aliveList \in Seq(Node) /\ Len(aliveList) \in Nat
      /\ aliveList \in [1..Len(aliveList) -> Node]
  BY LenProperties DEF TypeOK, Node
<1>2. \A i \in Place : aliveList[i] \in Node
  BY <1>1 DEF Place
<1>3. thread \in [Threads -> ThreadState]
  BY DEF TypeOK, ThreadState, Steps
<1>4. \A p : [Idle EXCEPT !.pc = p].pc = p
  BY DEF Idle
<1>5. ASSUME NEW f \in [1..Len(aliveList) -> Node], aliveList' = f,
             \A i \in Place : f[i].address = aliveList[i].address /\ f[i].status = aliveList[i].status
      PROVE  SelectAlive' = SelectAlive
  <2>1. Place' = Place
    BY <1>1, <1>5, Reshaped DEF Place
  <2> QED
    BY <1>5, <2>1, AliveSame
<1>6. CASE UNCHANGED aliveList
  BY <1>6, AliveSame DEF Place
<1>7. CASE Tick
  <2> DEFINE f == [i \in Place |-> [aliveList[i] EXCEPT !.age = IF @ <= Silence THEN @ + 1 ELSE @]]
  <2>1. \A i \in Place : f[i] \in Node /\ f[i].address = aliveList[i].address
                                       /\ f[i].status = aliveList[i].status
    BY <1>2 DEF Node
  <2>2. f \in [1..Len(aliveList) -> Node] /\ aliveList' = f
    BY <1>7, <2>1 DEF Place, Tick
  <2> HIDE DEF f
  <2> QED
    BY <2>1, <2>2, <1>5
<1>8. ASSUME NEW t \in Threads, AddNode(t) PROVE ~NoSession'
  <2>1. thread'[t] = [Idle EXCEPT !.pc = "session"]
    BY <1>3, <1>8 DEF AddNode
  <2> QED
    BY <1>4, <2>1 DEF NoSession, At
<1>9. ASSUME NEW t \in Threads, UpdateNode(t) PROVE SelectAlive' = SelectAlive \/ ~NoSession'
  <2> DEFINE k == Min({j \in Place : aliveList[j].address = thread[t].addr})
             f == [aliveList EXCEPT ![k] = Fresh(t)]
  <2>1. k \in Place /\ aliveList[k].address = thread[t].addr
    BY <1>9, FirstNode DEF UpdateNode
  <2>2. aliveList' = f
    BY <1>9 DEF UpdateNode
  <2>3. thread'[t] = [Idle EXCEPT !.pc = IF aliveList[k].status = 0 THEN "session" ELSE "check"]
    BY <1>3, <1>9 DEF UpdateNode
  <2> HIDE DEF k
  <2>4. Fresh(t) \in Node /\ Fresh(t).address = aliveList[k].address /\ Fresh(t).status = 1
    BY <1>2, <2>1 DEF Fresh, Node
  <2>5. CASE aliveList[k].status = 0
    <3>1. thread'[t].pc = "session"
      BY <1>4, <2>3, <2>5
    <3> QED
      BY <3>1 DEF NoSession, At
  <2>6. CASE aliveList[k].status # 0
    <3>1. aliveList[k].status = 1
      BY <1>2, <2>1, <2>6 DEF Node
    <3>2. /\ f \in [1..Len(aliveList) -> Node]
          /\ \A i \in Place : f[i].address = aliveList[i].address /\ f[i].status = aliveList[i].status
      BY <1>1, <2>1, <2>4, <3>1 DEF Place
    <3> HIDE DEF f
    <3> QED
      BY <2>2, <3>2, <1>5
  <2> QED
    BY <2>5, <2>6
<1>10. ASSUME NEW t \in Threads, CheckAlive(t) PROVE SelectAlive' = SelectAlive \/ ~NoSession'
  <2>1. CASE \E i \in Place : Expired(i)
    <3>1. thread'[t] = [thread[t] EXCEPT !.pc = "session", !.last = TRUE] /\ thread[t] \in ThreadState
      BY <1>3, <1>10, <2>1 DEF CheckAlive
    <3>2. thread'[t].pc = "session"
      BY <3>1 DEF ThreadState
    <3> QED
      BY <3>2 DEF NoSession, At
  <2>2. CASE \A i \in Place : ~Expired(i)
    <3> DEFINE f == [i \in Place |->
                       IF Expired(i) THEN [aliveList[i] EXCEPT !.status = 0] ELSE aliveList[i]]
    <3>1. aliveList' = f /\ \A i \in Place : f[i] = aliveList[i]
      BY <1>10, <2>2 DEF CheckAlive
    <3>2. f \in [1..Len(aliveList) -> Node]
      BY <1>2, <3>1 DEF Place
    <3> HIDE DEF f
    <3> QED
      BY <3>1, <3>2, <1>5
  <2> QED
    BY <2>1, <2>2
<1>11. ASSUME NEW t \in Threads, Step(t) PROVE SelectAlive' = SelectAlive \/ ~NoSession'
  BY <1>6, <1>8, <1>9, <1>10, <1>11
  DEF Step, OpenSession, Delete, Select, Add, Flush, Commit, Fail, List, MakeDir, Copy
<1>12. CASE \E t \in Threads : Step(t)
  BY <1>11, <1>12
<1>13. CASE UNCHANGED vars \/ CheckNode \/ Collect \/ (\E a \in Addresses : ServerStops(a))
            \/ (\E t \in Requests : Deploy(t) \/ \E a \in Addresses : Heartbeat(t, a))
  BY <1>6, <1>13 DEF vars, CheckNode, Collect, ServerStops, Deploy, Heartbeat
<1> QED
  BY <1>7, <1>12, <1>13, Zenon DEF Next

\* What thread u is for the dumps, if the step leaves it as it is.
Still(u) == \/ /\ thread'[u].pc = thread[u].pc /\ thread'[u].rows = thread[u].rows
               /\ thread'[u].alone = thread[u].alone
            \/ ~Dumping(u) /\ ~Dumping(u)' /\ ~At(u, "session")

\* A step outside the dumps.
LEMMA QuietStep ==
  ASSUME TypeOK, [Next]_vars, TableInv, UNCHANGED <<dbVars, spoiled>>, \A u \in Threads : Still(u)
  PROVE  TableInv'
<1>1. \A u \in Threads : Dumping(u)' <=> Dumping(u)
  BY DEF Still, Dumping
<1>2. NoSession' => NoSession /\ SelectAlive' = SelectAlive
  <2>1. NoSession' => NoSession
    BY DEF NoSession, Still, At
  <2> QED
    BY <2>1, AliveStep
<1>3. ASSUME NEW t \in Threads, Dumping(t)', thread'[t].alone PROVE DumpOK(t)'
  <2>1. /\ Dumping(t) /\ thread'[t].pc = thread[t].pc /\ thread'[t].rows = thread[t].rows
        /\ thread'[t].alone = thread[t].alone
    BY <1>1, <1>3 DEF Still
  <2>2. DumpOK(t)
    BY <1>3, <2>1 DEF TableInv
  <2>3. \A p : At(t, p)' = At(t, p)
    BY <2>1 DEF At
  <2> QED
    BY <1>1, <1>2, <2>1, <2>2, <2>3 DEF DumpOK, HasTable, dbVars
<1>4. \A t \in Threads : Dumping(t)' /\ ~spoiled' => thread'[t].alone
  BY <1>1 DEF TableInv, Still
<1>5. TableIsCurrent'
  BY <1>1, <1>2 DEF TableInv, TableIsCurrent, NoSession, dbVars
<1> QED
  BY <1>3, <1>4, <1>5 DEF TableInv

\* A dump's own step before its commit.
LEMMA DumpStep ==
  ASSUME TypeOK, TableInv, NEW t \in Threads, Step(t), ~OpenSession(t), Dumping(t), Dumping(t)',
         thread'[t].alone = thread[t].alone, spoiled' = spoiled, DumpOK(t) => DumpOK(t)'
  PROVE  TableInv'
<1>1. \A u \in Threads : /\ Dumping(u)' <=> Dumping(u)
                         /\ thread'[u].alone = thread[u].alone
  BY OtherThreads DEF Dumping
<1>2. \A u \in Threads : Dumping(u)' /\ thread'[u].alone => DumpOK(u)'
  BY <1>1 DEF TableInv, DumpOK
<1>3. TableIsCurrent'
  BY DEF TableIsCurrent
<1> QED
  BY <1>1, <1>2, <1>3 DEF TableInv

\* A step that only says where its thread goes.
LEMMA GoesFacts ==
  ASSUME TypeOK, NEW t \in Threads, NEW p, Goes(t, p)
  PROVE  /\ thread'[t].pc = p /\ thread'[t].rows = thread[t].rows
         /\ thread'[t].alone = thread[t].alone
<1>1. thread \in [Threads -> ThreadState] /\ thread[t] \in ThreadState
  BY DEF TypeOK, ThreadState, Steps
<1>2. thread'[t] = [thread[t] EXCEPT !.pc = p]
  BY <1>1 DEF Goes
<1> QED
  BY <1>1, <1>2 DEF ThreadState

\* The steps of the dumps themselves.
LEMMA OpenSessionStep ==
  ASSUME TypeOK, TableInv, NEW t \in Threads, OpenSession(t) PROVE TableInv'
<1> DEFINE others == {u \in Threads \ {t} : Dumping(u)}
<1>1. /\ thread \in [Threads -> ThreadState] /\ \A u \in Threads : thread[u] \in ThreadState
      /\ tx \in Transaction
  BY DEF TypeOK, ThreadState, Steps, Transaction
<1>2. thread'[t] = [thread[t] EXCEPT !.pc = "delete", !.alone = (others = {})]
  BY DEF OpenSession
<1>3. thread'[t].pc = "delete" /\ thread'[t].alone = (others = {})
  BY <1>1, <1>2 DEF ThreadState
<1>4. \A u \in Threads \ {t} : thread'[u].pc = thread[u].pc /\ thread'[u].alone = FALSE
  <2>1. \A u \in Threads \ {t} : thread'[u] = [thread[u] EXCEPT !.alone = FALSE]
    BY DEF OpenSession
  <2> QED
    BY <1>1, <2>1 DEF ThreadState
<1>5. pending' = {} /\ ~broken' /\ ~tx'.current /\ spoiled' = (spoiled \/ others # {})
  <2>1. ~[tx EXCEPT !.current = FALSE].current
    BY <1>1 DEF Transaction
  <2> QED
    BY <2>1 DEF OpenSession
<1>6. Dumping(t)' /\ \A u \in Threads \ {t} : Dumping(u)' <=> u \in others
  BY <1>3, <1>4 DEF Dumping, DumpSteps
<1> HIDE DEF others
<1>7. ASSUME NEW u \in Threads, Dumping(u)', thread'[u].alone PROVE DumpOK(u)'
  <2>1. u = t /\ others = {}
    BY <1>3, <1>4, <1>7
  <2> QED
    BY <1>3, <1>5, <1>6, <2>1 DEF DumpOK, At
<1>8. ASSUME NEW u \in Threads, Dumping(u)', ~spoiled' PROVE thread'[u].alone
  BY <1>3, <1>5, <1>6, <1>8
<1> QED
  BY <1>6, <1>7, <1>8 DEF TableInv, TableIsCurrent

\* The DELETE that takes the write lock.
LEMMA DeleteStep ==
  ASSUME TypeOK, TableInv, NEW t \in Threads, Delete(t) PROVE TableInv'
<1>1. /\ thread'[t].pc = "select" /\ thread'[t].alone = thread[t].alone
      /\ thread[t].pc = "delete"
  BY GoesFacts DEF Delete, At
<1>2. /\ tx' = [by |-> t, deleted |-> TRUE, ins |-> {}, current |-> TRUE]
      /\ UNCHANGED <<pending, broken, spoiled>>
  BY DEF Delete
<1>3. Step(t) /\ ~OpenSession(t)
  BY DEF Step, OpenSession, At, Delete
<1>4. Dumping(t) /\ Dumping(t)' /\ \A u \in Threads : u # t => (Dumping(u)' <=> Dumping(u))
  BY <1>1, <1>3, OtherThreads DEF Dumping, DumpSteps
<1>5. DumpOK(t) => DumpOK(t)'
  BY <1>1, <1>2, <1>4 DEF DumpOK, At, HasTable
<1> QED
  BY <1>1, <1>2, <1>3, <1>4, <1>5, DumpStep

\* The rows the dump has to add are read from the list.
LEMMA SelectStep ==
  ASSUME TypeOK, TableInv, NEW t \in Threads, Select(t) PROVE TableInv'
<1>1. thread[t] \in ThreadState /\ thread \in [Threads -> ThreadState]
  BY DEF TypeOK, ThreadState, Steps
<1>2. thread'[t] = [thread[t] EXCEPT !.rows = SelectAlive, !.pc = "add"]
  BY <1>1 DEF Select
<1>3. /\ thread'[t].pc = "add" /\ thread'[t].alone = thread[t].alone
      /\ thread'[t].rows = SelectAlive /\ thread[t].pc = "select"
  BY <1>1, <1>2 DEF ThreadState, Select, At
<1>4. UNCHANGED <<pending, broken, spoiled, tx, aliveList>>
  BY DEF Select, dbVars
<1>5. Step(t) /\ ~OpenSession(t)
  BY DEF Step, OpenSession, At, Select
<1>6. Dumping(t) /\ Dumping(t)' /\ \A u \in Threads : u # t => (Dumping(u)' <=> Dumping(u))
  BY <1>3, <1>5, OtherThreads DEF Dumping, DumpSteps
<1>7. SelectAlive' = SelectAlive
  BY <1>4, AliveSame DEF Place
<1>8. DumpOK(t) => DumpOK(t)'
  BY <1>3, <1>4, <1>6, <1>7 DEF DumpOK, At, HasTable
<1> QED
  BY <1>3, <1>4, <1>5, <1>6, <1>8, DumpStep

\* A row goes into the session, or all have.
LEMMA AddStep ==
  ASSUME TypeOK, TableInv, NEW t \in Threads, Add(t) PROVE TableInv'
<1>1. thread[t] \in ThreadState /\ thread \in [Threads -> ThreadState] /\ thread[t].pc = "add"
  BY DEF TypeOK, ThreadState, Steps, Add, At
<1>2. UNCHANGED <<broken, spoiled, tx, aliveList>>
  BY DEF Add
<1>3. \/ /\ thread[t].rows = {} /\ thread'[t].pc = "flush" /\ pending' = pending
         /\ thread'[t].alone = thread[t].alone
      \/ /\ thread'[t].pc = "add" /\ thread'[t].rows \cup pending' = thread[t].rows \cup pending
         /\ thread'[t].alone = thread[t].alone
  <2>1. CASE thread[t].rows = {}
    BY <2>1, GoesFacts DEF Add
  <2>2. CASE thread[t].rows # {}
    <3>1. PICK r \in thread[t].rows : /\ pending' = pending \cup {r}
                                      /\ thread' = [thread EXCEPT ![t].rows = @ \ {r}]
      BY <2>2 DEF Add
    <3>2. thread'[t] = [thread[t] EXCEPT !.rows = @ \ {r}]
      BY <1>1, <3>1
    <3>3. /\ thread'[t].pc = "add" /\ thread'[t].rows = thread[t].rows \ {r}
          /\ thread'[t].alone = thread[t].alone
      BY <1>1, <3>2 DEF ThreadState
    <3> QED
      BY <3>1, <3>3
  <2> QED
    BY <2>1, <2>2
<1>4. Step(t) /\ ~OpenSession(t)
  BY <1>1 DEF Step, OpenSession, At
<1>5. /\ Dumping(t) /\ Dumping(t)' /\ (NoSession' => NoSession)
      /\ \A u \in Threads : u # t => (Dumping(u)' <=> Dumping(u))
  BY <1>1, <1>3, <1>4, OtherThreads DEF Dumping, DumpSteps, NoSession, At
<1>6. SelectAlive' = SelectAlive
  BY <1>2, AliveSame DEF Place
<1>7. DumpOK(t) => DumpOK(t)'
  BY <1>1, <1>2, <1>3, <1>5, <1>6 DEF DumpOK, At, HasTable
<1> QED
  BY <1>2, <1>3, <1>4, <1>5, <1>7, DumpStep

\* The rows go to the table, under the lock.
LEMMA FlushStep ==
  ASSUME TypeOK, TableInv, NEW t \in Threads, Flush(t) PROVE TableInv'
<1>1. /\ thread'[t].pc = "commit" /\ thread'[t].alone = thread[t].alone
      /\ thread[t].pc = "flush"
  BY GoesFacts DEF Flush, At
<1>2. UNCHANGED <<broken, spoiled, aliveList>> /\ pending' = {}
  BY DEF Flush
<1>3. DumpOK(t) => HasTable(t)' /\ tx'.ins = tx.ins \cup pending
  <2>1. tx \in Transaction
    BY DEF TypeOK, Transaction
  <2>2. CASE UNCHANGED tx /\ pending = {}
    BY <1>1, <2>2 DEF DumpOK, HasTable, At
  <2>3. CASE tx' = [tx EXCEPT !.by = t, !.ins = @ \cup pending, !.current = TRUE]
    <3>1. tx'.by = t /\ tx'.ins = tx.ins \cup pending /\ tx'.current /\ tx'.deleted = tx.deleted
      BY <2>1, <2>3 DEF Transaction
    <3> QED
      BY <1>1, <3>1 DEF DumpOK, HasTable, At
  <2> QED
    BY <2>2, <2>3 DEF Flush
<1>4. Step(t) /\ ~OpenSession(t)
  BY <1>1 DEF Step, OpenSession, At
<1>5. /\ Dumping(t) /\ Dumping(t)' /\ (NoSession' => NoSession)
      /\ \A u \in Threads : u # t => (Dumping(u)' <=> Dumping(u))
  BY <1>1, <1>4, OtherThreads DEF Dumping, DumpSteps, NoSession, At
<1>6. SelectAlive' = SelectAlive
  BY <1>2, AliveSame DEF Place
<1>7. DumpOK(t) => DumpOK(t)'
  BY <1>1, <1>2, <1>3, <1>5, <1>6 DEF DumpOK, At
<1> QED
  BY <1>1, <1>2, <1>4, <1>5, <1>7, DumpStep

\* Of the dumps that commit, only one that is alone can leave the table
\* unspoiled, and what it commits shows the nodes alive.
LEMMA CommitStep ==
  ASSUME TypeOK, TableInv, NEW t \in Threads, Commit(t) PROVE TableInv'
<1>1. /\ thread'[t].pc = "list" /\ thread'[t].alone = thread[t].alone
      /\ thread[t].pc = "commit"
  BY GoesFacts DEF Commit, At
<1>2. UNCHANGED <<broken, aliveList>> /\ spoiled' = (spoiled /\ ~thread[t].alone)
  BY DEF Commit
<1>3. Step(t) /\ ~OpenSession(t)
  BY <1>1 DEF Step, OpenSession, At
<1>4. /\ Dumping(t) /\ ~Dumping(t)' /\ (NoSession' => NoSession)
      /\ \A u \in Threads : u # t => /\ Dumping(u)' <=> Dumping(u)
                                     /\ thread'[u].alone = thread[u].alone
  BY <1>1, <1>3, OtherThreads DEF Dumping, DumpSteps, NoSession, At
<1>5. \A u \in Threads : Dumping(u)' => ~thread'[u].alone
  BY <1>4 DEF TableInv, DumpOK
<1>6. ~spoiled' => thread[t].alone
  BY <1>2, <1>4 DEF TableInv
<1>7. ~spoiled' => DumpOK(t)
  BY <1>4, <1>6 DEF TableInv
<1>8. SelectAlive' = SelectAlive
  BY <1>2, AliveSame DEF Place
<1>9. TableIsCurrent'
  <2> SUFFICES ASSUME ~spoiled', NoSession' PROVE table' = SelectAlive'
    BY DEF TableIsCurrent, NoSession
  <2>1. HasTable(t) /\ pending = {} /\ tx.ins = SelectAlive
    BY <1>1, <1>4, <1>7 DEF DumpOK, At
  <2>2. table' = (IF tx.deleted THEN {} ELSE table) \cup tx.ins \cup pending
    BY <2>1 DEF Commit, NothingToDo, HasTable
  <2> QED
    BY <1>8, <2>1, <2>2 DEF HasTable
<1>10. ~spoiled' => \A u \in Threads : ~Dumping(u)'
  BY <1>4, <1>7 DEF DumpOK
<1> QED
  BY <1>5, <1>9, <1>10 DEF TableInv

\* A dump that fails spoils the table.
LEMMA FailStep ==
  ASSUME TypeOK, TableInv, NEW t \in Threads, Fail(t) PROVE TableInv'
<1>1. Dumping(t) /\ spoiled' /\ thread' = [thread EXCEPT ![t] = Raise(t)]
  BY DEF Fail, Dumping, DumpSteps, At
<1>2. thread \in [Threads -> ThreadState] /\ Raise(t).pc \in {"idle", "dead"}
  BY DEF TypeOK, ThreadState, Steps, Raise, Idle
<1>3. ~Dumping(t)' /\ \A u \in Threads : u # t => thread'[u] = thread[u]
  BY <1>1, <1>2 DEF Dumping, DumpSteps
<1>4. \A u \in Threads : Dumping(u)' => u # t /\ Dumping(u) /\ thread'[u].alone = thread[u].alone
  BY <1>3 DEF Dumping
<1>5. \A u \in Threads : Dumping(u)' => ~thread'[u].alone
  BY <1>1, <1>4 DEF TableInv, DumpOK
<1> QED
  BY <1>1, <1>5 DEF TableInv, TableIsCurrent

\* Collecting a session that was replaced does not touch the one a lone dump
\* has.
LEMMA CollectStep ==
  ASSUME TypeOK, TableInv, Collect PROVE TableInv'
<1>1. ~tx.current /\ tx' = NoTx /\ UNCHANGED <<aliveList, thread, pending, broken, table, spoiled>>
  BY DEF Collect
<1>2. SelectAlive' = SelectAlive
  BY <1>1, AliveSame DEF Place
<1>3. \A t \in Threads : (Dumping(t)' <=> Dumping(t)) /\ \A p : At(t, p)' = At(t, p)
  BY <1>1 DEF Dumping, At
<1>4. NoSession' = NoSession
  BY <1>3 DEF NoSession
<1>5. ~NoTx.current
  BY DEF NoTx
<1>6. \A t \in Threads : Dumping(t) /\ thread[t].alone => DumpOK(t)'
  <2> SUFFICES ASSUME NEW t \in Threads, Dumping(t), thread[t].alone PROVE DumpOK(t)'
    OBVIOUS
  <2>1. DumpOK(t)
    BY DEF TableInv
  <2>2. At(t, "delete")
    BY <1>1, <2>1 DEF DumpOK, HasTable, Dumping, DumpSteps, At
  <2> QED
    BY <1>1, <1>3, <1>5, <2>1, <2>2 DEF DumpOK, At
<1> QED
  BY <1>1, <1>2, <1>3, <1>4, <1>6 DEF TableInv, TableIsCurrent

\* A step of one thread that is not dumping, nor about to, before or after.
LEMMA StillOne ==
  ASSUME TypeOK, NEW t \in Threads, NEW e, thread' = [thread EXCEPT ![t] = e],
         ~Dumping(t), ~At(t, "session"), e.pc \notin DumpSteps
  PROVE  \A u \in Threads : Still(u)
<1>1. thread \in [Threads -> ThreadState]
  BY DEF TypeOK, ThreadState, Steps
<1>2. ~Dumping(t)'
  BY <1>1 DEF Dumping
<1>3. \A u \in Threads : u # t => thread'[u] = thread[u]
  BY <1>1
<1> QED
  BY <1>2, <1>3 DEF Still

\* The steps outside the dumps leave everybody as the dumps need it.
LEMMA QuietActions ==
  ASSUME TypeOK, NEW t \in Threads,
         \/ AddNode(t) \/ UpdateNode(t) \/ CheckAlive(t) \/ List(t) \/ MakeDir(t) \/ Copy(t)
  PROVE  UNCHANGED <<dbVars, spoiled>> /\ \A u \in Threads : Still(u)
<1>1. thread[t] \in ThreadState /\ thread \in [Threads -> ThreadState]
  BY DEF TypeOK, ThreadState, Steps
<1>2. UNCHANGED <<dbVars, spoiled>>
  BY DEF AddNode, UpdateNode, CheckAlive, List, MakeDir, Copy
<1>3. ~Dumping(t) /\ ~At(t, "session")
  BY DEF AddNode, UpdateNode, CheckAlive, List, MakeDir, Copy, At, Dumping, DumpSteps
<1>4. \A p : [Idle EXCEPT !.pc = p].pc = p
  BY DEF Idle
<1>5. Idle.pc \notin DumpSteps /\ Raise(t).pc \notin DumpSteps
  BY DEF Raise, Idle, DumpSteps
<1>6. CASE AddNode(t) \/ UpdateNode(t)
  <2>1. PICK p \in {"session", "check"} : thread' = [thread EXCEPT ![t] = [Idle EXCEPT !.pc = p]]
    BY <1>6 DEF AddNode, UpdateNode
  <2>2. p \notin DumpSteps
    BY DEF DumpSteps
  <2> QED
    BY <1>2, <1>3, <1>4, <2>1, <2>2, StillOne
<1>7. CASE CheckAlive(t)
  <2> DEFINE e == [thread[t] EXCEPT !.pc = "session", !.last = TRUE]
  <2>1. e.pc \notin DumpSteps
    BY <1>1 DEF ThreadState, DumpSteps
  <2>2. thread' = [thread EXCEPT ![t] = e] \/ thread' = [thread EXCEPT ![t] = Idle]
    BY <1>7 DEF CheckAlive
  <2> HIDE DEF e
  <2> QED
    BY <1>2, <1>3, <1>5, <2>1, <2>2, StillOne
<1>8. CASE List(t)
  <2> DEFINE e == [thread[t] EXCEPT !.version = "next", !.pc = "mkdir"]
  <2>1. e.pc \notin DumpSteps
    BY <1>1 DEF ThreadState, DumpSteps
  <2>2. thread' = [thread EXCEPT ![t] = e]
    BY <1>8 DEF List
  <2> HIDE DEF e
  <2> QED
    BY <1>2, <1>3, <2>1, <2>2, StillOne
<1>9. CASE Copy(t)
  <2>1. [Idle EXCEPT !.pc = "check"].pc \notin DumpSteps
    BY DEF Idle, DumpSteps
  <2>2. \/ thread' = [thread EXCEPT ![t] = Idle]
        \/ thread' = [thread EXCEPT ![t] = [Idle EXCEPT !.pc = "check"]]
    BY <1>9 DEF Copy
  <2> QED
    BY <1>2, <1>3, <1>5, <2>1, <2>2, StillOne
<1>10. CASE MakeDir(t)
  <2>1. CASE thread' = [thread EXCEPT ![t] = Raise(t)]
    BY <1>2, <1>3, <1>5, <2>1, StillOne
  <2>2. CASE thread[t].version = "next"
    <3> DEFINE old(u) == [thread[u] EXCEPT !.version = "old"]
    <3>1. \A u \in Threads : /\ old(u).pc = thread[u].pc /\ old(u).rows = thread[u].rows
                             /\ old(u).alone = thread[u].alone
      BY <1>1 DEF ThreadState
    <3>2. \A u \in Threads : u # t => thread'[u] = old(u) \/ thread'[u] = thread[u]
      BY <1>10, <2>2 DEF MakeDir
    <3>3. thread'[t] = [thread[t] EXCEPT !.version = "newest", !.pc = "copy"]
      BY <1>10, <2>2 DEF MakeDir
    <3>4. ~Dumping(t)'
      BY <1>1, <3>3 DEF ThreadState, Dumping, DumpSteps
    <3> HIDE DEF old
    <3> QED
      BY <1>2, <1>3, <3>1, <3>2, <3>4 DEF Still
  <2> QED
    BY <1>10, <2>1, <2>2 DEF MakeDir
<1> QED
  BY <1>6, <1>7, <1>8, <1>9, <1>10

\* A step keeps what makes the table current.
LEMMA TableStep ==
  ASSUME TypeOK, TableInv, [Next]_vars PROVE TableInv'
<1> USE NodesAssumption DEF NodesAssumption
<1>1. CASE \E t \in Threads : Step(t)
  <2>1. PICK t \in Threads : Step(t)
    BY <1>1
  <2>2. CASE \/ AddNode(t) \/ UpdateNode(t) \/ CheckAlive(t) \/ List(t) \/ MakeDir(t) \/ Copy(t)
    BY <2>2, QuietActions, QuietStep
  <2>3. CASE \/ OpenSession(t) \/ Delete(t) \/ Select(t) \/ Add(t) \/ Flush(t) \/ Commit(t) \/ Fail(t)
    BY <2>3, OpenSessionStep, DeleteStep, SelectStep, AddStep, FlushStep, CommitStep, FailStep
  <2> QED
    BY <2>1, <2>2, <2>3 DEF Step
<1>2. CASE Collect
  BY <1>2, CollectStep
<1>3. CASE \E t \in Requests : Deploy(t) \/ \E a \in Addresses : Heartbeat(t, a)
  <2>1. PICK t \in Requests : Deploy(t) \/ \E a \in Addresses : Heartbeat(t, a)
    BY <1>3
  <2>2. t \in Threads /\ ~Dumping(t) /\ ~At(t, "session") /\ UNCHANGED <<dbVars, spoiled>>
    BY <2>1 DEF Threads, Deploy, Heartbeat, Dumping, DumpSteps, At
  <2>3. [Idle EXCEPT !.pc = "list", !.last = TRUE].pc \notin DumpSteps
    BY DEF Idle, DumpSteps
  <2>4. \A a \in Addresses : \A p \in {"update", "add node"} :
          [Idle EXCEPT !.addr = a, !.pc = p].pc \notin DumpSteps
    BY DEF Idle, DumpSteps
  <2>5. CASE Deploy(t)
    <3>1. thread' = [thread EXCEPT ![t] = [Idle EXCEPT !.pc = "list", !.last = TRUE]]
      BY <2>5 DEF Deploy
    <3> QED
      BY <2>2, <2>3, <3>1, StillOne, QuietStep
  <2>6. CASE \E a \in Addresses : Heartbeat(t, a)
    <3>1. PICK a \in Addresses : Heartbeat(t, a)
      BY <2>6
    <3>2. \E p \in {"update", "add node"} :
            thread' = [thread EXCEPT ![t] = [Idle EXCEPT !.addr = a, !.pc = p]]
      BY <3>1 DEF Heartbeat
    <3> QED
      BY <2>2, <2>4, <3>2, StillOne, QuietStep
  <2> QED
    BY <2>1, <2>5, <2>6
<1>4. CASE CheckNode
  <2>1. Checker \in Threads /\ thread[Checker] \in ThreadState
    BY DEF Threads, TypeOK, ThreadState, Steps
  <2>2. [thread[Checker] EXCEPT !.pc = "check"].pc \notin DumpSteps
    BY <2>1 DEF ThreadState, DumpSteps
  <2>3. /\ thread' = [thread EXCEPT ![Checker] = [thread[Checker] EXCEPT !.pc = "check"]]
        /\ UNCHANGED <<dbVars, spoiled>> /\ ~Dumping(Checker) /\ ~At(Checker, "session")
    BY <1>4, <2>1 DEF CheckNode, Goes, Dumping, DumpSteps, At, TypeOK
  <2> QED
    BY <2>1, <2>2, <2>3, StillOne, QuietStep
<1>5. CASE UNCHANGED vars \/ Tick \/ (\E a \in Addresses : ServerStops(a))
  <2>1. UNCHANGED <<dbVars, spoiled, thread>>
    BY <1>5 DEF vars, webVars, Tick, ServerStops, dbVars
  <2> QED
    BY <2>1, QuietStep DEF Still
<1> QED
  BY <1>1, <1>2, <1>3, <1>4, <1>5, Zenon DEF Next

\* A dump that meets no other leaves the table showing the nodes that are
\* alive, whatever becomes of them before and after it selects them, and
\* repairs what overlapping and failed dumps have left.
THEOREM TableCorrect == Spec => []TableIsCurrent
<1>1. Init => TableInv
  <2> SUFFICES ASSUME Init PROVE TableInv
    OBVIOUS
  <2>1. \A t \in Threads : ~Dumping(t)
    BY DEF Init, Dumping, DumpSteps, Idle
  <2>2. Place = {} /\ table = {}
    BY DEF Init, Place
  <2>3. SelectAlive = {}
    BY <2>2 DEF SelectAlive, Alive
  <2> QED
    BY <2>1, <2>2, <2>3 DEF TableInv, TableIsCurrent
<1>2. TypeOK /\ TableInv /\ [Next]_vars => TableInv'
  BY TableStep
<1>3. TableInv => TableIsCurrent
  BY DEF TableInv
<1> QED
  BY <1>1, <1>2, <1>3, TypeCorrect, PTL DEF Spec
-----------------------------------------------------------------------------
(* PoliciesHaveServers.                                                    *)

\* Among rows of different servers and services, with some key above 0 on the
\* ring, the ring picks one row for each metric, and the only server to find
\* it its own is that row's.
LEMMA OneOwner ==
  ASSUME NEW rows, DOMAIN rows \subseteq Nat, Distinct(rows),
         \A i \in DOMAIN rows : rows[i].service \in Services,
         \E i \in DOMAIN rows : VirtualNodes[rows[i].service] \ {0} # {}
  PROVE  OneServerEach(rows)
<1> USE AssignmentAssumption DEF AssignmentAssumption
<1> DEFINE ring == Ring(rows)
           Owners(k) == {i \in DOMAIN rows : k \in VirtualNodes[rows[i].service]}
           Keys == UNION {VirtualNodes[rows[i].service] : i \in DOMAIN rows}
<1>1. Keys \subseteq Nat /\ \E k \in Keys : k > 0
  OBVIOUS
<1>2. \A k \in Keys : Owners(k) \in SUBSET Nat /\ Owners(k) # {}
  OBVIOUS
<1>3. \A k \in Keys : Min(Owners(k)) \in Owners(k)
  <2> HIDE DEF Owners, Keys
  <2> QED
    BY <1>2, LeastNumber
<1>4. DOMAIN ring = Keys /\ \A k \in Keys : ring[k] = rows[Min(Owners(k))].service
  BY DEF Ring, FirstService
<1> SUFFICES ASSUME NEW m \in Metrics
             PROVE  \E i \in DOMAIN rows : \A a \in {rows[j].address : j \in DOMAIN rows} :
                      Checks(rows, a, m) <=> a = rows[i].address
  BY DEF OneServerEach
<1>5. Hash[m] \in Nat
  OBVIOUS
<1>6. \E k \in Keys : GetService(ring, Hash[m]) = ring[k]
  <2> DEFINE above(n) == {k \in DOMAIN ring : k > n}
  <2> HIDE DEF ring, Keys
  <2>1. above(0) # {}
    BY <1>1, <1>4
  <2>2. \A n \in {0, Hash[m]} : above(n) # {} => Min(above(n)) \in Keys
    <3>1. \A n \in {0, Hash[m]} : above(n) \in SUBSET Nat /\ above(n) \subseteq Keys
      BY <1>1, <1>4
    <3> HIDE DEF above
    <3> QED
      BY <3>1, LeastNumber
  <2>3. GetService(ring, Hash[m]) = IF above(Hash[m]) # {} THEN ring[Min(above(Hash[m]))]
                                                           ELSE ring[Min(above(0))]
    BY <2>1 DEF GetService
  <2> QED
    BY <2>1, <2>2, <2>3
<1>7. PICK i \in DOMAIN rows : GetService(ring, Hash[m]) = rows[i].service
  BY <1>3, <1>4, <1>6
<1>8. DOMAIN ring # {}
  BY <1>1, <1>4
<1>9. ASSUME NEW j \in DOMAIN rows
      PROVE  Checks(rows, rows[j].address, m) <=> rows[j].address = rows[i].address
  <2>1. RowsOf(rows, rows[j].address) = {j}
    BY DEF RowsOf, Distinct
  <2>2. Max({j}) = j
    BY DEF Max
  <2>3. ServiceName(rows, rows[j].address) = rows[j].service
    BY <2>1, <2>2 DEF ServiceName
  <2>4. Checks(rows, rows[j].address, m) <=> rows[i].service = rows[j].service
    BY <1>7, <1>8, <2>1, <2>3 DEF Checks, ContainThisServer, IsMyMetric
  <2> QED
    BY <2>4 DEF Distinct
<1> QED
  BY <1>9

\* In every version whose table names no server twice, each policy is checked
\* by one server that is in it: no service in it is ever two servers'.
THEOREM PoliciesCorrect == Spec => []PoliciesHaveServers
<1>1. Init => Bounded
  BY NodesAssumption DEF Init, Bounded, NodesAssumption
<1>2. TypeOK /\ Bounded /\ [Next]_vars => Bounded'
  BY ListStep
<1>3. ASSUME TypeOK, Bounded, RowsNameNodes PROVE PoliciesHaveServers
  <2> USE NodesAssumption DEF NodesAssumption
  <2> SUFFICES ASSUME newest \notin {NoFile, {}},
                      \A p, q \in newest : p.address = q.address => p = q,
                      \E r \in newest : VirtualNodes[r.service] \ {0} # {}
               PROVE  OneServerEach(RowsById(newest))
    BY DEF PoliciesHaveServers
  <2> DEFINE rows == RowsById(newest)
  <2>1. Len(aliveList) \in Nat
    BY <1>3, LenProperties DEF TypeOK
  <2>2. Place \subseteq Services /\ Place \subseteq Nat
    BY <1>3, <2>1 DEF Place, Bounded
  <2>3. \A r \in newest : r.service \in Place /\ aliveList[r.service].address = r.address
    BY <1>3 DEF RowsNameNodes
  <2>4. \A p, q \in newest : p.service = q.service => p = q
    BY <2>3
  <2>5. DOMAIN rows = {r.service : r \in newest} /\ \A r \in newest : rows[r.service] = r
    BY <2>4 DEF RowsById
  <2> HIDE DEF rows
  <2>6. \A i \in DOMAIN rows : rows[i] \in newest /\ rows[i].service = i
    BY <2>5
  <2>7. Distinct(rows)
    BY <2>6 DEF Distinct
  <2>8. DOMAIN rows \subseteq Nat /\ \A i \in DOMAIN rows : rows[i].service \in Services
    <3>1. \A i \in DOMAIN rows : i \in Place
      BY <2>3, <2>6
    <3> QED
      BY <2>2, <2>6, <3>1
  <2>9. \E i \in DOMAIN rows : VirtualNodes[rows[i].service] \ {0} # {}
    BY <2>5
  <2>10. OneServerEach(rows)
    BY <2>7, <2>8, <2>9, OneOwner
  <2> QED
    BY <2>10 DEF rows
<1> QED
  BY <1>1, <1>2, <1>3, TypeCorrect, RowsCorrect, PTL DEF Spec
=============================================================================
