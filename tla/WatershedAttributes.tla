------------------------ MODULE WatershedAttributes ------------------------
(***************************************************************************)
(* The attributes from which mln::morpho::watershed_hierarchy weighs the   *)
(* edges of the minimum spanning tree.  par and values are those of the    *)
(* binary tree of the merges, parents first; its last nb_leaves nodes are  *)
(* the pixels.  An attribute of a leaf is not read, and is left out.       *)
(***************************************************************************)
EXTENDS Integers, FiniteSetsExt

Inner(par, nb_leaves) == 0 .. Cardinality(DOMAIN par) - nb_leaves - 1

Children(par, i) == {c \in DOMAIN par : c > i /\ par[c] = i}

(* height_attribute: the depth of a node below the level of its parent; the *)
(* altitude of a leaf is the level of its parent.                           *)
HeightAttribute(par, values, nb_leaves) ==
    LET deepest[i \in DOMAIN par] ==
            IF Children(par, i) = {} THEN values[par[i]]
            ELSE Min({deepest[c] : c \in Children(par, i)})
    IN  [i \in Inner(par, nb_leaves) |-> values[par[i]] - deepest[i]]

(***************************************************************************)
(* dynamic_attribute: the branch that holds the deepest node below a node  *)
(* (path_to_minima) has the dynamic of that node, and the other one is as  *)
(* deep as it goes below the node where they meet.                         *)
(***************************************************************************)
DynamicAttribute(par, values, nb_leaves) ==
    LET inner       == Inner(par, nb_leaves)
        branches(i) == Children(par, i) \cap inner
        deepest[i \in inner] ==
            IF branches(i) = {} THEN values[i] ELSE Min({deepest[c] : c \in branches(i)})
        path_to_minima(i) == Max({c \in branches(i) : deepest[c] = deepest[i]})
        dynamic[i \in inner] ==
            IF i = 0 THEN values[0] - deepest[0]
            ELSE IF i = path_to_minima(par[i]) THEN dynamic[par[i]]
            ELSE values[par[i]] - deepest[i]
    IN  dynamic

(* get_computed_attribute: a node at the level of its parent is not a node *)
(* of the quasi-flat zones, and has the attribute of the ones below.       *)
ComputedAttribute(par, values, nb_leaves, attribute) ==
    LET computed[i \in DOMAIN par] ==
            IF i \in Inner(par, nb_leaves) /\ (i = 0 \/ values[par[i]] # values[i])
            THEN attribute[i]
            ELSE Max({0} \cup {computed[c] : c \in Children(par, i)})
    IN  computed

(* Mutant: the arrays are taken for those before the reversal. *)
NewWeightUnreversed(par, values, nb_leaves, attribute, k) ==
    Min({ComputedAttribute(par, values, nb_leaves, attribute)[c] : c \in Children(par, k)})

(* watershed: the weight of the k-th edge of the tree (from zero). *)
NewWeight(par, values, nb_leaves, attribute, k) ==
    Min({ComputedAttribute(par, values, nb_leaves, attribute)[c] :
             c \in Children(par, nb_leaves - k - 2)})
=============================================================================
