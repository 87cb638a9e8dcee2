------------------------------ MODULE MergeTree ------------------------------
(***************************************************************************)
(* Trees that are built by merging sets in the order of sorted edges: the  *)
(* leaves are created first and a node after its children, then the arrays *)
(* are reversed so that a parent precedes its children.  An array of n     *)
(* cells is a function over 0 .. n - 1; the parent of a root is itself.    *)
(***************************************************************************)
EXTENDS Integers, FiniteSets

Size(a) == Cardinality(DOMAIN a)

(* std::vector::push_back *)
Push(a, v) == [i \in 0 .. Size(a) |-> IF i = Size(a) THEN v ELSE a[i]]

Iota(n) == [i \in 0 .. n - 1 |-> i]

(* alphatree_reorder_nodes: both arrays are reversed and the nodes renamed. *)
ReversedParents(par) == [i \in DOMAIN par |-> Size(par) - 1 - par[Size(par) - 1 - i]]

ReversedLevels(levels) == [i \in DOMAIN levels |-> levels[Size(levels) - 1 - i]]

(* Mutant: a node that is removed goes to the first node. *)
TranslationToRoot(par, levels) ==
    [i \in DOMAIN par |->
        IF i = 0 \/ levels[i] = levels[par[i]] THEN 0
        ELSE Cardinality({j \in 0 .. i - 1 : j = 0 \/ levels[j] # levels[par[j]]})]

(***************************************************************************)
(* canonize_component_tree: a node is kept when its level is not the one   *)
(* of its parent, and is given the next number; another one goes where its *)
(* parent went.  An entry that is read before it is written is zero.       *)
(***************************************************************************)
Kept(par, levels) == {i \in DOMAIN par : i = 0 \/ levels[i] # levels[par[i]]}

Translation(par, levels) ==
    LET kept == Kept(par, levels)
        to[i \in DOMAIN par] ==
            IF i \in kept THEN Cardinality({j \in kept : j < i})
            ELSE IF par[i] < i THEN to[par[i]] ELSE 0
    IN  to

CanonizedLevels(par, levels) ==
    LET kept == Kept(par, levels)
        node(r) == CHOOSE i \in kept : Cardinality({j \in kept : j < i}) = r
    IN  [r \in 0 .. Cardinality(kept) - 1 |-> levels[node(r)]]

CanonizedParents(par, levels) ==
    LET kept == Kept(par, levels)
        node(r) == CHOOSE i \in kept : Cardinality({j \in kept : j < i}) = r
    IN  [r \in 0 .. Cardinality(kept) - 1 |->
            IF r = 0 \/ par[node(r)] >= node(r) THEN 0
            ELSE Translation(par, levels)[par[node(r)]]]

-----------------------------------------------------------------------------
(* Vocabulary of the properties. *)

(* The last node above i, i included, whose level is at most l, in a tree   *)
(* where parents come first; the regions of the cut at l are these nodes.   *)
CutNode(par, levels, l) ==
    LET up[i \in DOMAIN par] ==
            IF par[i] >= i \/ levels[par[i]] > l THEN i ELSE up[par[i]]
    IN  up
=============================================================================
