------------------------------ MODULE PeakFlood ------------------------------
(***************************************************************************)
(* What a depth-first flooding of an image promises, whatever the queue    *)
(* and the marking of the pixels that realise it: points are discovered    *)
(* from a start point through the neighbourhood and a point is finished    *)
(* once, when all its neighbours are discovered and no discovered point    *)
(* that is still open is higher.                                           *)
(***************************************************************************)
EXTENDS Integers

CONSTANTS Point,   \* the pixels of the domain
          Adjacent \* the pairs <<p, q>> where q is a neighbour of p in the domain

VARIABLES f,       \* the image, a level for each point
          seen,    \* the points discovered so far
          finished \* the points that are completely processed

vars == <<f, seen, finished>>

Open == seen \ finished

Init == /\ seen # {}
        /\ seen \subseteq Point
        /\ finished = {}

(* A neighbour of a point that is still open is discovered. *)
Discover(q) ==
    /\ q \in Point \ seen
    /\ \E p \in Open : <<p, q>> \in Adjacent
    /\ seen' = seen \cup {q}
    /\ UNCHANGED <<f, finished>>

(* An open point of the highest level is finished. *)
Finish(p) ==
    /\ p \in Open
    /\ \A q \in Point : <<p, q>> \in Adjacent => q \in seen
    /\ \A q \in Open : f[q] <= f[p]
    /\ finished' = finished \cup {p}
    /\ UNCHANGED <<f, seen>>

Next == \E p \in Point : Discover(p) \/ Finish(p)

Spec == Init /\ [][Next]_vars

(***************************************************************************)
(* The order tests/morpho/depthfirst.cpp expects: of two neighbours, the   *)
(* higher one is finished first, so that a peak component is complete      *)
(* before anything below it.                                               *)
(***************************************************************************)
HigherFirst ==
    \A p, q \in Point :
        <<p, q>> \in Adjacent /\ f[q] > f[p] /\ p \in finished => q \in finished
=============================================================================
