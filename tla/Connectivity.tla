---------------------------- MODULE Connectivity ----------------------------
(***************************************************************************)
(* Connected components of a set of points, the vocabulary in which the    *)
(* results of the morphological algorithms are stated.                     *)
(***************************************************************************)
EXTENDS Integers, FiniteSets

(* The connected component of S that contains q, for the pairs of adj:   *)
(* what is reached in n steps (the bound variable near is the set reached *)
(* in n - 1, evaluated once).                                             *)
Component(S, q, adj) ==
    LET reach[n \in 0 .. Cardinality(S)] ==
            IF n = 0 THEN {q}
            ELSE UNION {{r \in S : \E o \in near : o = r \/ <<o, r>> \in adj} :
                            near \in {reach[n - 1]}}
    IN  reach[Cardinality(S)]

(* The points of S next to C, C excluded. *)
Boundary(S, C, adj) == {r \in S \ C : \E o \in C : <<o, r>> \in adj}
=============================================================================
