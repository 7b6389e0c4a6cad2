----------------------------- MODULE MCWebNodes -----------------------------
(* Two servers and a request thread beside the liveness thread.            *)
(* On the ring, two services want the same key and one the key 0; of the   *)
(* metrics, one hashes to a key, one between keys, one above all.          *)
EXTENDS WebNodes
CONSTANTS x, y, r1
TwoServers == {x, y}
OneRequest == {r1}
MCServices == 1..3
MCMetrics == 1..3
MCHash == [m \in MCMetrics |-> CASE m = 1 -> 2 [] m = 2 -> 3 [] m = 3 -> 9]
MCVirtualNodes == [s \in MCServices |-> CASE s = 1 -> {0, 2} [] s = 2 -> {2, 5, 8} [] s = 3 -> {4}]
=============================================================================
