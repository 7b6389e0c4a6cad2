---------------------------- MODULE MCThreadPool ----------------------------
(* Two threads and two producers over a queue of two slots (the argument 1 *)
(* is raised to the number of threads): a producer can block, a worker can *)
(* sleep, and stop's two dummies exceed the capacity.                      *)
EXTENDS ThreadPool
CONSTANTS w1, w2, p1, p2
MCWorkers == {w1, w2}
MCProducers == {p1, p2}
=============================================================================
