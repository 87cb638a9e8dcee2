---------------------------- MODULE PriorityFifo ----------------------------
(***************************************************************************)
(* What mln::morpho::details::pqueue_fifo promises: a priority queue of    *)
(* points, first in first out within a level.  The highest level comes     *)
(* first, the lowest one when the queue is reversed.                       *)
(***************************************************************************)
EXTENDS Integers, Sequences, FiniteSets

CONSTANTS Point,    \* the points that may be queued
          MaxLevel, \* the greatest priority
          Reversed  \* the template parameter of the same name

ASSUME PriorityFifoAssumption ==
    /\ IsFiniteSet(Point)
    /\ MaxLevel \in Nat
    /\ Reversed \in BOOLEAN

Level == 0 .. MaxLevel

VARIABLE queue \* the points waiting at each level, the oldest first

(* Mutant: the order of the two queues is exchanged. *)
BeforeSwapped(l, m) == IF Reversed THEN l > m ELSE l < m

Before(l, m) == IF Reversed THEN l < m ELSE l > m

IsTopLevel(l) ==
    /\ queue[l] # <<>>
    /\ \A m \in Level : queue[m] # <<>> => m = l \/ Before(l, m)

AllEmpty == \A l \in Level : queue[l] = <<>>

(* The points in the queue. *)
Waiting == {q \in Point : \E l \in Level : \E i \in DOMAIN queue[l] : queue[l][i] = q}

Push(l, q) == queue' = [queue EXCEPT ![l] = Append(@, q)]

Pop == \E l \in Level :
          /\ IsTopLevel(l)
          /\ queue' = [queue EXCEPT ![l] = Tail(@)]

Init == queue = [l \in Level |-> <<>>]

Next == \/ \E l \in Level, q \in Point : Push(l, q)
        \/ Pop

Spec == Init /\ [][Next]_queue
=============================================================================
