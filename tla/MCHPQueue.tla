------------------------------ MODULE MCHPQueue ------------------------------
EXTENDS HPQueue, TLC

(* The points are interchangeable: only their identity matters. *)
Symmetry == Permutations(Point)
=============================================================================
