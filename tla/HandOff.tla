------------------------------ MODULE HandOff ------------------------------
(***************************************************************************)
(* What a thread pool promises to the managers that own one: a bounded     *)
(* FIFO queue.  A work item is accepted once, taken by one worker in the   *)
(* order of acceptance, and then finished; items nobody took are dropped   *)
(* only when the pool is destroyed.  Threads, the mutex, the condition     *)
(* variables and the shutdown items do not appear here: ThreadPool         *)
(* implements this module with them.                                       *)
(***************************************************************************)
EXTENDS Naturals, Sequences

CONSTANTS Items,     \* the work items producers may hand over
          Workers,   \* the pool's threads
          Capacity,  \* how many accepted items may wait
          None       \* "no item"

VARIABLES pending,   \* accepted items nobody has taken, oldest first
          active,    \* active[w]: the item worker w is processing, or None
          finished,  \* the items that were processed
          dropped    \* the items deleted unprocessed by the destructor

hvars == <<pending, active, finished, dropped>>

Init == /\ pending = <<>>
        /\ active = [w \in Workers |-> None]
        /\ finished = {}
        /\ dropped = {}

Known(i) == \/ \E k \in 1..Len(pending) : pending[k] = i
            \/ \E w \in Workers : active[w] = i
            \/ i \in finished \cup dropped

Accept(i) == /\ ~Known(i)
             /\ Len(pending) < Capacity
             /\ pending' = Append(pending, i)
             /\ UNCHANGED <<active, finished, dropped>>

Take(w) == /\ active[w] = None
           /\ pending # <<>>
           /\ active' = [active EXCEPT ![w] = Head(pending)]
           /\ pending' = Tail(pending)
           /\ UNCHANGED <<finished, dropped>>

Finish(w) == /\ active[w] # None
             /\ finished' = finished \cup {active[w]}
             /\ active' = [active EXCEPT ![w] = None]
             /\ UNCHANGED <<pending, dropped>>

DropAll == /\ dropped' = dropped \cup {pending[k] : k \in 1..Len(pending)}
           /\ pending' = <<>>
           /\ UNCHANGED <<active, finished>>

Next == \/ \E i \in Items : Accept(i)
        \/ \E w \in Workers : Take(w) \/ Finish(w)
        \/ DropAll

Spec == Init /\ [][Next]_hvars
=============================================================================
