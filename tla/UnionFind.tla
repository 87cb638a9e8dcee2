------------------------------ MODULE UnionFind ------------------------------
(***************************************************************************)
(* Disjoint sets as a forest: par maps an element to its parent and a root *)
(* to itself (mln::morpho::canvas::impl::zfindroot, on images of points    *)
(* and on arrays of indexes).                                              *)
(***************************************************************************)
EXTENDS Integers, FiniteSets

(* The elements met on the way from q up to the root of its set. *)
Way(par, q) ==
    LET up[n \in 0 .. Cardinality(DOMAIN par)] == IF n = 0 THEN q ELSE par[up[n - 1]]
    IN  {up[n] : n \in 0 .. Cardinality(DOMAIN par)}

zfindroot(par, q) == CHOOSE r \in Way(par, q) : par[r] = r

(* What zfindroot leaves behind: the way is compressed. *)
Compressed(par, q) ==
    [x \in DOMAIN par |-> IF x \in Way(par, q) THEN zfindroot(par, q) ELSE par[x]]
=============================================================================
