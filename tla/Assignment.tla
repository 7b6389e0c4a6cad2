----------------------------- MODULE Assignment -----------------------------
(***************************************************************************)
(* Which RAServer checks which policy (RedAlertConfig, ConsistentHash).    *)
(* Every server reads the same table RedAlert and puts the services in it  *)
(* on a ring, each at as many keys as its weight says; a policy belongs to *)
(* the service at the first key above the hash of its metric, and a server *)
(* keeps the policies of the service its own address stands for.           *)
(*                                                                         *)
(* A table is a function from the ids of its rows, in whose order they are *)
(* read.  The hash functions are parameters: Hash of a metric,             *)
(* VirtualNodes of a service, which depend on nothing else as all rows     *)
(* have the same weight.                                                   *)
(***************************************************************************)
EXTENDS Integers, FiniteSets, FiniteSetsExt

CONSTANTS Metrics, Services, Hash, VirtualNodes, Null

ASSUME AssignmentAssumption ==
  /\ Hash \in [Metrics -> Nat]
  /\ VirtualNodes \in [Services -> SUBSET Nat]
  /\ Null \notin Services
  /\ \A s \in Services : IsFiniteSet(VirtualNodes[s])

\* addNode skips a key that is taken: it stays the earliest row's.
FirstService(rows, k) == rows[Min({i \in DOMAIN rows : k \in VirtualNodes[rows[i].service]})].service
Ring(rows) ==
  [k \in UNION {VirtualNodes[rows[i].service] : i \in DOMAIN rows} |-> FirstService(rows, k)]

\* Mutant: no way round.
GetServiceUpwards(ring, key) ==
  LET above == {k \in DOMAIN ring : k > key} IN
  IF above # {} THEN ring[Min(above)] ELSE Null

\* upper_bound(key), or upper_bound(0), which leaves a service at 0 out.
GetService(ring, key) ==
  LET above(n) == {k \in DOMAIN ring : k > n} IN
  CASE above(key) # {} -> ring[Min(above(key))]
    [] above(key) = {} /\ above(0) # {} -> ring[Min(above(0))]
    [] OTHER -> Null

\* loadConfig: the last row with a server's address is its own.
RowsOf(rows, address) == {i \in DOMAIN rows : rows[i].address = address}
ContainThisServer(rows, address) == RowsOf(rows, address) # {}
ServiceName(rows, address) == rows[Max(RowsOf(rows, address))].service

IsMyMetric(rows, address, metric) ==
  DOMAIN Ring(rows) = {} \/ GetService(Ring(rows), Hash[metric]) = ServiceName(rows, address)

\* ConfigWrapper::loadConfig: a server that is not in the table has no
\* policies; one that is keeps its own.
Checks(rows, address, metric) ==
  ContainThisServer(rows, address) /\ IsMyMetric(rows, address, metric)
-----------------------------------------------------------------------------
Distinct(rows) ==
  \A i, j \in DOMAIN rows : i # j => /\ rows[i].address # rows[j].address
                                     /\ rows[i].service # rows[j].service

(* Every policy is checked, and by one server, though each works out alone *)
(* which are its own.                                                      *)
OneServerEach(rows) ==
  \A m \in Metrics : \E i \in DOMAIN rows :
    \A a \in {rows[j].address : j \in DOMAIN rows} : Checks(rows, a, m) <=> a = rows[i].address
=============================================================================
