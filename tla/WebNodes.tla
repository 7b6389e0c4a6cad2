------------------------------ MODULE WebNodes ------------------------------
(***************************************************************************)
(* RAWeb's list of RAServers (heart_beats.ServiceNode) and the table       *)
(* RedAlert made from it, which every version of the configuration has a   *)
(* copy of and by which the servers share the policies out (Assignment).   *)
(*                                                                         *)
(* Ten uwsgi threads handle heartbeats, and one thread of main.checkNode   *)
(* looks every two seconds for nodes that have been silent for long.  A    *)
(* lock guards the list; the session dumpsRedAlert writes the table        *)
(* through is an attribute of the one ServiceNode, which another dump may  *)
(* replace at any time.                                                    *)
(*                                                                         *)
(* Of SQLAlchemy and SQLite: a session connects when it first executes     *)
(* SQL, the connection belongs to the thread that did, and the first write *)
(* takes the file's only write lock, up to the commit; whoever finds it    *)
(* taken waits, for some seconds at most.  What a flush fails on is rolled *)
(* back, and its session refuses to go on.  A session nobody refers to is  *)
(* collected some time, and its transaction is rolled back.                *)
(*                                                                         *)
(* Versions are only ever compared with the highest one, so that one is    *)
(* all there is of them; module ConfigDelivery has the rest of their way.  *)
(***************************************************************************)
EXTENDS Assignment, Sequences

CONSTANTS
  Addresses,    \* where RAServers run
  Requests,     \* RAWeb's request threads
  Checker,      \* the thread of main.checkNode
  Nobody,       \* None
  MaxBackends,  \* MAX_RA_SERVER
  Silence,      \* 3 * interval_s, in ticks: what is older is not alive
  ForeignLocks, \* whether deploys may lock the tables for long
  MaxNodes,     \* bound: entries in the list
  MaxDeaths     \* bound: servers that stop

Threads == Requests \cup {Checker}

ASSUME NodesAssumption ==
  /\ Checker \notin Requests /\ Nobody \notin Threads \cup Addresses
  /\ MaxBackends \in Nat \ {0} /\ Silence \in Nat
  /\ MaxNodes \in Nat /\ MaxDeaths \in Nat
  /\ ForeignLocks \in BOOLEAN
  /\ 1..MaxNodes \subseteq Services

VARIABLES
  up, deaths,   \* the servers that run; those that stopped so far
  aliveList,    \* the nodes; a node's id is its place
  thread,       \* per thread: its step and its local variables
  pending,      \* rows added to ServiceNode.session and not flushed
  broken,       \* whether a flush of that session has failed
  tx,           \* the transaction that has the tables' write lock
  table,        \* RedAlert as it was last committed: pairs of address and service
  newest,       \* RedAlert in the newest version, or that it has no file yet
  spoiled       \* history: dumps have overlapped or failed since the last
                \* one that did neither

dbVars == <<pending, broken, tx, table>>
webVars == <<thread, dbVars, newest, spoiled>>
vars == <<up, deaths, aliveList, webVars>>

Place == 1..Len(aliveList)
\* The list, its ids in order and no more than MAX_RA_SERVER of them: selectAlive.
Alive == {i \in Place : aliveList[i].status = 1}
SelectAlive ==
  {[address |-> aliveList[i].address, service |-> i] :
     i \in {j \in Alive : Cardinality({k \in Alive : k < j}) < MaxBackends}}

NoFile == {Nobody}
\* A transaction: the thread of its connection; whether it has deleted the
\* table's rows, and the rows it has inserted since; whether it is the one of
\* ServiceNode.session, or of one that has been replaced.
NoTx == [by |-> Nobody, deleted |-> FALSE, ins |-> {}, current |-> FALSE]
\* A thread: its step; the heartbeat's address; whether checkAlive comes last;
\* the rows it has still to add; whether its dump has been the only one; how
\* the version it makes stands to the highest.
Idle == [pc |-> "idle", addr |-> Nobody, last |-> FALSE, rows |-> {}, alone |-> FALSE,
         version |-> "none"]

Init == /\ up = Addresses /\ deaths = 0
        /\ aliveList = <<>>
        /\ thread = [t \in Threads |-> Idle]
        /\ pending = {} /\ broken = FALSE /\ tx = NoTx
        /\ table = {} /\ newest = {}
        /\ spoiled = FALSE

At(t, step) == thread[t].pc = step
Goes(t, step) == thread' = [thread EXCEPT ![t].pc = step]
\* checkNode has no handler: an exception ends its thread.
Raise(t) == IF t = Checker THEN [Idle EXCEPT !.pc = "dead"] ELSE Idle
DumpSteps == {"delete", "select", "add", "flush", "commit"}
Dumping(t) == thread[t].pc \in DumpSteps
-----------------------------------------------------------------------------
(* The servers and the time.                                               *)

ServerStops(a) ==
  /\ a \in up /\ deaths < MaxDeaths
  /\ up' = up \ {a} /\ deaths' = deaths + 1
  /\ UNCHANGED <<aliveList, webVars>>

\* A node's age is the time since its last heartbeat; beyond Silence it does
\* not matter any more.
Tick ==
  /\ \E i \in Place : aliveList[i].age <= Silence
  /\ aliveList' = [i \in Place |->
       [aliveList[i] EXCEPT !.age = IF @ <= Silence THEN @ + 1 ELSE @]]
  /\ UNCHANGED <<up, deaths, webVars>>
-----------------------------------------------------------------------------
(* heartbeats                                                              *)

\* Mutant: the address is not looked up.
HeartbeatOfKnown(t, a) ==
  /\ a \in up /\ At(t, "idle")
  /\ thread' = [thread EXCEPT ![t] = [Idle EXCEPT !.addr = a, !.pc = "update"]]
  /\ UNCHANGED <<up, deaths, aliveList, dbVars, newest, spoiled>>

\* The addresses are looked up in the list without its lock.
Heartbeat(t, a) ==
  /\ a \in up /\ At(t, "idle")
  /\ LET known == \E i \in Place : aliveList[i].address = a IN
     thread' = [thread EXCEPT ![t] = [Idle EXCEPT !.addr = a,
                                                  !.pc = IF known THEN "update" ELSE "add node"]]
  /\ UNCHANGED <<up, deaths, aliveList, dbVars, newest, spoiled>>

\* The node of the heartbeat's address, just heard of.
Fresh(t) == [address |-> thread[t].addr, status |-> 1, age |-> 0]

\* Mutant: a dead node's place, and id, is used again.
AddNodeInPlace(t) ==
  LET dead == Place \ Alive IN
  /\ At(t, "add node") /\ Len(aliveList) < MaxNodes
  /\ aliveList' = IF dead = {} THEN Append(aliveList, Fresh(t)) ELSE [aliveList EXCEPT ![Min(dead)] = Fresh(t)]
  /\ thread' = [thread EXCEPT ![t] = [Idle EXCEPT !.pc = "session"]]
  /\ UNCHANGED <<up, deaths, dbVars, newest, spoiled>>

AddNode(t) ==
  /\ At(t, "add node") /\ Len(aliveList) < MaxNodes
  /\ aliveList' = Append(aliveList, Fresh(t))
  /\ thread' = [thread EXCEPT ![t] = [Idle EXCEPT !.pc = "session"]]
  /\ UNCHANGED <<up, deaths, dbVars, newest, spoiled>>

\* Mutants: a node that is back is not written to the table; its own heartbeat
\* is all a request looks at.
UpdateNodeQuietly(t) ==
  LET i == Min({j \in Place : aliveList[j].address = thread[t].addr}) IN
  /\ At(t, "update")
  /\ aliveList' = [aliveList EXCEPT ![i] = Fresh(t)]
  /\ thread' = [thread EXCEPT ![t] = [Idle EXCEPT !.pc = "check"]]
  /\ UNCHANGED <<up, deaths, dbVars, newest, spoiled>>
UpdateNodeOnly(t) ==
  LET i == Min({j \in Place : aliveList[j].address = thread[t].addr}) IN
  /\ At(t, "update")
  /\ aliveList' = [aliveList EXCEPT ![i] = Fresh(t)]
  /\ thread' = [thread EXCEPT ![t] =
       [Idle EXCEPT !.pc = IF aliveList[i].status = 0 THEN "session" ELSE "idle"]]
  /\ UNCHANGED <<up, deaths, dbVars, newest, spoiled>>

\* Only the first node with the address is updated.
UpdateNode(t) ==
  LET i == Min({j \in Place : aliveList[j].address = thread[t].addr}) IN
  /\ At(t, "update")
  /\ aliveList' = [aliveList EXCEPT ![i] = Fresh(t)]
  /\ thread' = [thread EXCEPT ![t] =
       [Idle EXCEPT !.pc = IF aliveList[i].status = 0 THEN "session" ELSE "check"]]
  /\ UNCHANGED <<up, deaths, dbVars, newest, spoiled>>

Expired(i) == aliveList[i].status = 1 /\ aliveList[i].age > Silence

CheckAlive(t) ==
  LET some == \E i \in Place : Expired(i) IN
  /\ At(t, "check")
  /\ aliveList' = [i \in Place |->
       IF Expired(i) THEN [aliveList[i] EXCEPT !.status = 0] ELSE aliveList[i]]
  /\ thread' = [thread EXCEPT ![t] =
       IF some THEN [@ EXCEPT !.pc = "session", !.last = TRUE] ELSE Idle]
  /\ UNCHANGED <<up, deaths, dbVars, newest, spoiled>>

\* A user's deploy, when it has come to deployNewVersion.
Deploy(t) ==
  /\ At(t, "idle")
  /\ thread' = [thread EXCEPT ![t] = [Idle EXCEPT !.pc = "list", !.last = TRUE]]
  /\ UNCHANGED <<up, deaths, aliveList, dbVars, newest, spoiled>>

\* main.checkNode wakes up.
CheckNode ==
  /\ At(Checker, "idle")
  /\ Goes(Checker, "check")
  /\ UNCHANGED <<up, deaths, aliveList, dbVars, newest, spoiled>>
-----------------------------------------------------------------------------
(* dumpsRedAlert                                                           *)

OpenSession(t) ==
  LET others == {u \in Threads \ {t} : Dumping(u)} IN
  /\ At(t, "session")
  /\ pending' = {} /\ broken' = FALSE /\ tx' = [tx EXCEPT !.current = FALSE]
  /\ thread' = [u \in Threads |->
       IF u = t THEN [thread[t] EXCEPT !.pc = "delete", !.alone = (others = {})]
       ELSE [thread[u] EXCEPT !.alone = FALSE]]
  /\ spoiled' = (spoiled \/ others # {})
  /\ UNCHANGED <<up, deaths, aliveList, table, newest>>

\* Whether thread t can execute SQL that writes.
MayWrite(t) == ~broken /\ (tx = NoTx \/ (tx.current /\ tx.by = t))

Delete(t) ==
  /\ At(t, "delete") /\ MayWrite(t)
  /\ tx' = [by |-> t, deleted |-> TRUE, ins |-> {}, current |-> TRUE]
  /\ Goes(t, "select")
  /\ UNCHANGED <<up, deaths, aliveList, pending, broken, table, newest, spoiled>>

Select(t) ==
  /\ At(t, "select")
  /\ thread' = [thread EXCEPT ![t].rows = SelectAlive, ![t].pc = "add"]
  /\ UNCHANGED <<up, deaths, aliveList, dbVars, newest, spoiled>>

\* The rows are added one by one, each to the session of that moment.
Add(t) ==
  /\ At(t, "add")
  /\ IF thread[t].rows = {}
     THEN Goes(t, "flush") /\ UNCHANGED pending
     ELSE \E r \in thread[t].rows :
            /\ \A q \in thread[t].rows : r.service <= q.service
            /\ pending' = pending \cup {r}
            /\ thread' = [thread EXCEPT ![t].rows = @ \ {r}]
  /\ UNCHANGED <<up, deaths, aliveList, broken, tx, table, newest, spoiled>>

Flush(t) ==
  /\ At(t, "flush")
  /\ IF pending = {}
     THEN UNCHANGED <<pending, tx>>
     ELSE /\ MayWrite(t)
          /\ tx' = [tx EXCEPT !.by = t, !.ins = @ \cup pending, !.current = TRUE]
          /\ pending' = {}
  /\ Goes(t, "commit")
  /\ UNCHANGED <<up, deaths, aliveList, broken, table, newest, spoiled>>

NothingToDo == ~broken /\ ~tx.current /\ pending = {}
\* Mutant: what the liveness thread commits is not deployed.
CommitOnly(t) ==
  /\ At(t, "commit")
  /\ \/ NothingToDo /\ UNCHANGED <<pending, tx, table>>
     \/ /\ ~NothingToDo /\ MayWrite(t)
        /\ table' = (IF tx.deleted THEN {} ELSE table) \cup tx.ins \cup pending
        /\ tx' = NoTx /\ pending' = {}
  /\ spoiled' = (spoiled /\ ~thread[t].alone)
  /\ Goes(t, IF t = Checker THEN "idle" ELSE "list")
  /\ UNCHANGED <<up, deaths, aliveList, broken, newest>>

\* A commit flushes what has been added since.
Commit(t) ==
  /\ At(t, "commit")
  /\ \/ NothingToDo /\ UNCHANGED <<pending, tx, table>>
     \/ /\ ~NothingToDo /\ MayWrite(t)
        /\ table' = (IF tx.deleted THEN {} ELSE table) \cup tx.ins \cup pending
        /\ tx' = NoTx /\ pending' = {}
  /\ spoiled' = (spoiled /\ ~thread[t].alone)
  /\ Goes(t, "list")
  /\ UNCHANGED <<up, deaths, aliveList, broken, newest>>

\* SQL finds the lock taken for too long, the session in another thread's
\* hands, or broken.  The exception ends the request, or the thread.
Fail(t) ==
  /\ \/ At(t, "delete")
     \/ At(t, "flush") /\ pending # {}
     \/ At(t, "commit") /\ ~NothingToDo
  /\ ~MayWrite(t) \/ (ForeignLocks /\ ~tx.current)
  /\ IF At(t, "delete")
     THEN UNCHANGED <<pending, broken, tx>>
     ELSE /\ pending' = {} /\ broken' = TRUE
          /\ tx' = IF tx.current THEN NoTx ELSE tx
  /\ thread' = [thread EXCEPT ![t] = Raise(t)]
  /\ spoiled' = TRUE
  /\ UNCHANGED <<up, deaths, aliveList, table, newest>>

\* A session that has been replaced goes, and its transaction with it.
Collect ==
  /\ tx # NoTx /\ ~tx.current
  /\ tx' = NoTx
  /\ UNCHANGED <<up, deaths, aliveList, thread, pending, broken, table, newest, spoiled>>
-----------------------------------------------------------------------------
(* storage.deployNewVersion, and on to the check or the end.               *)

List(t) ==
  /\ At(t, "list")
  /\ thread' = [thread EXCEPT ![t].version = "next", ![t].pc = "mkdir"]
  /\ UNCHANGED <<up, deaths, aliveList, dbVars, newest, spoiled>>

\* The number is still free, and nobody else's after this; or it is taken,
\* and mkdir raises.
MakeDir(t) ==
  /\ At(t, "mkdir")
  /\ \/ /\ thread[t].version = "next"
        /\ thread' = [u \in Threads |->
             IF u = t THEN [thread[t] EXCEPT !.version = "newest", !.pc = "copy"]
             ELSE IF thread[u].version \in {"next", "newest"}
             THEN [thread[u] EXCEPT !.version = "old"] ELSE thread[u]]
        /\ newest' = NoFile
     \/ /\ thread[t].version = "old"
        /\ thread' = [thread EXCEPT ![t] = Raise(t)]
        /\ UNCHANGED newest
  /\ UNCHANGED <<up, deaths, aliveList, dbVars, spoiled>>

Copy(t) ==
  /\ At(t, "copy")
  /\ newest' = IF thread[t].version = "newest" THEN table ELSE newest
  /\ thread' = [thread EXCEPT ![t] =
       IF t = Checker \/ @.last THEN Idle
       ELSE [Idle EXCEPT !.pc = "check"]]
  /\ UNCHANGED <<up, deaths, aliveList, dbVars, spoiled>>
-----------------------------------------------------------------------------
Step(t) ==
  \/ AddNode(t) \/ UpdateNode(t) \/ CheckAlive(t)
  \/ OpenSession(t) \/ Delete(t) \/ Select(t) \/ Add(t) \/ Flush(t) \/ Commit(t) \/ Fail(t)
  \/ List(t) \/ MakeDir(t) \/ Copy(t)

Next ==
  \/ Tick \/ CheckNode \/ Collect
  \/ \E a \in Addresses : ServerStops(a)
  \/ \E t \in Requests : Deploy(t) \/ \E a \in Addresses : Heartbeat(t, a)
  \/ \E t \in Threads : Step(t)

Spec == Init /\ [][Next]_vars

\* Time passes, threads run, and a server that runs sends its heartbeats.
Fairness ==
  /\ WF_vars(Tick) /\ WF_vars(CheckNode) /\ WF_vars(Collect)
  /\ \A t \in Threads : WF_vars(Step(t))
  /\ \A a \in Addresses : SF_vars(\E t \in Requests : Heartbeat(t, a))
FairSpec == Spec /\ Fairness
-----------------------------------------------------------------------------
Rows == [address : Addresses, service : Nat]
TypeOK ==
  /\ up \subseteq Addresses /\ deaths \in 0..MaxDeaths
  /\ aliveList \in Seq([address : Addresses, status : {0, 1}, age : 0..(Silence + 1)])
  /\ thread \in [Threads -> [pc : {"idle", "dead", "add node", "update", "check", "session",
                                     "list", "mkdir", "copy"} \cup DumpSteps,
                              addr : Addresses \cup {Nobody}, last : BOOLEAN,
                              rows : SUBSET Rows, alone : BOOLEAN,
                              version : {"none", "next", "newest", "old"}]]
  /\ pending \subseteq Rows /\ broken \in BOOLEAN
  /\ tx \in [by : Threads \cup {Nobody}, deleted : BOOLEAN, ins : SUBSET Rows, current : BOOLEAN]
  /\ tx.by = Nobody => tx = NoTx
  /\ table \subseteq Rows /\ newest \in (SUBSET Rows) \cup {NoFile}
  /\ spoiled \in BOOLEAN
  /\ \A t \in Threads :
       /\ At(t, "add node") => thread[t].addr \in Addresses
       /\ At(t, "update") => (\E i \in Place : aliveList[i].address = thread[t].addr)

(* A row of the table stands for a node, by its own address, in whatever   *)
(* way dumps have run into each other, and so in every version: no service *)
(* is ever two servers'.                                                   *)
RowsNameNodes ==
  \A r \in table \cup (IF newest = NoFile THEN {} ELSE newest) :
    r.service \in Place /\ aliveList[r.service].address = r.address

(* What a dump has committed gets into the newest version, unless somebody *)
(* is about to put it there, although deploys race for version numbers and *)
(* the loser makes none: the winner copies what the loser has committed.   *)
NewestHasTable ==
  newest # table =>
    \E t \in Threads : \/ At(t, "list")
                       \/ At(t, "mkdir") /\ thread[t].version = "next"
                       \/ At(t, "copy") /\ thread[t].version = "newest"

(* A dump that meets no other leaves the table showing the nodes that are  *)
(* alive, whatever becomes of them before and after it selects them, and   *)
(* repairs what earlier ones have left.                                    *)
TableIsCurrent ==
  ~spoiled /\ (\A t \in Threads : ~At(t, "session") /\ ~Dumping(t)) => table = SelectAlive

(* In every version whose table names no server twice, each policy is      *)
(* checked by one server that is in it, although every server works out    *)
(* alone which are its own: no service in it is ever two servers'.         *)
RowsById(S) == [i \in {r.service : r \in S} |-> CHOOSE r \in S : r.service = i]
PoliciesHaveServers ==
  /\ newest \notin {NoFile, {}}
  /\ \A p, q \in newest : p.address = q.address => p = q
  /\ \E r \in newest : VirtualNodes[r.service] \ {0} # {}
  => OneServerEach(RowsById(newest))

(* A server that has stopped is found out: by the thread that looks, or,   *)
(* as an exception ends that, by the heartbeats of another.                *)
StoppedAreFound ==
  \A a \in Addresses :
    <>[](a \notin up) =>
      <>[](\A i \in Place : aliveList[i].address = a => aliveList[i].status = 0)
      \/ <>[](up = {} /\ At(Checker, "dead"))
=============================================================================
