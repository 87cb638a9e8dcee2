--------------------------- MODULE MCComponentTree ---------------------------
(***************************************************************************)
(* Every tree of up to five nodes, with values that increase away from the *)
(* root, that decrease, and that do neither.                               *)
(***************************************************************************)
EXTENDS ComponentTree

CONSTANT MaxNode

MCModulus == 4

Parents(n) == {p \in [0 .. n -> -1 .. n - 1] :
                   p[0] = -1 /\ \A j \in 1 .. n : p[j] \in 0 .. j - 1}

Patterns(n) == {[j \in 0 .. n |-> Min({j, 3})],
                [j \in 0 .. n |-> 3 - Min({j, 3})],
                [j \in 0 .. n |-> (3 * j + 1) % 4]}

MCTrees == UNION {{[parent |-> p, values |-> v] : p \in Parents(n), v \in Patterns(n)}
                  : n \in 0 .. MaxNode}
=============================================================================
