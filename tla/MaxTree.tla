------------------------------- MODULE MaxTree -------------------------------
(***************************************************************************)
(* mln::morpho::maxtree: the depth-first canvas run with the visitor that  *)
(* builds the tree of the peak components of an image, followed by the     *)
(* renumbering of the nodes.  Node ids start at 0 and -1 is the parent of  *)
(* the root, so that the entry of node i is at rank i + 1 of a sequence.   *)
(***************************************************************************)
EXTENDS DepthFirst, Connectivity, SequencesExt

VARIABLES
    nodes,    \* the parent of each node (ct.parent once the tree is returned)
    lvlnodes, \* the level of each node (ct.values)
    roots,    \* the stack of the nodes that are being built
    nodemap,  \* the node of each point
    perm,     \* permute_parent: the new id of the nodes numbered so far
    next,     \* permute_parent: the node the loop considers next
    built     \* whether the tree is returned

treeVars == <<nodes, lvlnodes, roots, nodemap, perm, next, built>>
renumberVars == <<perm, next, built>>
vars == <<canvasVars, treeVars>>

Unset == -2 \* an entry of node_map that was never written

NodeIds == 0 .. Len(nodes) - 1

-----------------------------------------------------------------------------
(* The visitor. *)

OnFloodStart(l) ==
    /\ nodes' = Append(nodes, -1)
    /\ lvlnodes' = Append(lvlnodes, l)
    /\ roots' = Append(roots, [id |-> Len(nodes), level |-> l])

OnDone(q) == nodemap' = [nodemap EXCEPT ![q] = Last(roots).id]

(* Mutants: a node is resumed whatever its level; the component that ends is *)
(* not attached to the node that is created.                                *)
OnFloodEndResumesAny(newLevel) ==
    LET current == Last(roots).id
        rest    == Front(roots)
    IN  \/ /\ rest # <<>>
           /\ nodes' = [nodes EXCEPT ![current + 1] = Last(rest).id]
           /\ roots' = rest
           /\ UNCHANGED lvlnodes
        \/ /\ rest = <<>>
           /\ nodes' = Append([nodes EXCEPT ![current + 1] = Len(nodes)], -1)
           /\ roots' = Append(rest, [id |-> Len(nodes), level |-> newLevel])
           /\ lvlnodes' = Append(lvlnodes, newLevel)

OnFloodEndDetached(newLevel) ==
    LET current  == Last(roots).id
        rest     == Front(roots)
        resuming == rest # <<>> /\ Last(rest).level = newLevel
    IN  \/ /\ resuming
           /\ nodes' = [nodes EXCEPT ![current + 1] = Last(rest).id]
           /\ roots' = rest
           /\ UNCHANGED lvlnodes
        \/ /\ ~resuming
           /\ nodes' = Append(nodes, -1)
           /\ roots' = Append(rest, [id |-> Len(nodes), level |-> newLevel])
           /\ lvlnodes' = Append(lvlnodes, newLevel)

(* The component on the top of the stack is attached to the node of the new *)
(* level, which is created unless it is the next one of the stack.          *)
OnFloodEnd(newLevel) ==
    LET current  == Last(roots).id
        rest     == Front(roots)
        resuming == rest # <<>> /\ Last(rest).level = newLevel
    IN  \/ /\ resuming
           /\ nodes' = [nodes EXCEPT ![current + 1] = Last(rest).id]
           /\ roots' = rest
           /\ UNCHANGED lvlnodes
        \/ /\ ~resuming
           /\ nodes' = Append([nodes EXCEPT ![current + 1] = Len(nodes)], -1)
           /\ roots' = Append(rest, [id |-> Len(nodes), level |-> newLevel])
           /\ lvlnodes' = Append(lvlnodes, newLevel)

OnLastFloodEnd ==
    /\ nodes' = [nodes EXCEPT ![Last(roots).id + 1] = -1]
    /\ roots' = Front(roots)
    /\ UNCHANGED lvlnodes

-----------------------------------------------------------------------------
(* permute_parent: the nodes are considered by increasing id.              *)

(* The nodes met on the way from node i to the root, then -1. *)
WayUp(i) ==
    LET up[j \in 0 .. Len(nodes)] ==
            IF j = 0 THEN i
            ELSE LET below == up[j - 1] IN IF below = -1 THEN -1 ELSE nodes[below + 1]
    IN  up

(* The nodes from next up to the first one that is numbered get the next   *)
(* numbers, the highest for next itself.                                   *)
NumberBranch ==
    \E len \in 1 .. Len(nodes) :
        LET up     == WayUp(next)
            branch == {up[j] : j \in 0 .. len - 1}
            rank(q) == CHOOSE j \in 0 .. len - 1 : up[j] = q
            pos    == Cardinality(DOMAIN perm)
        IN  /\ branch \cap (DOMAIN perm \cup {-1}) = {}
            /\ up[len] \in DOMAIN perm \cup {-1}
            /\ perm' = [q \in DOMAIN perm \cup branch |->
                           IF q \in branch THEN pos + len - 1 - rank(q) ELSE perm[q]]

(* Mutant: the loop does not advance over a node that is numbered. *)
RenumberStays ==
    /\ pc = "end" /\ next < Len(nodes)
    /\ IF next \in DOMAIN perm THEN UNCHANGED <<perm, next>>
       ELSE NumberBranch /\ next' = next + 1
    /\ UNCHANGED <<canvasVars, nodes, lvlnodes, roots, nodemap, built>>

Renumber ==
    /\ pc = "end" /\ next < Len(nodes)
    /\ next' = next + 1
    /\ IF next \in DOMAIN perm THEN perm' = perm ELSE NumberBranch
    /\ UNCHANGED <<canvasVars, nodes, lvlnodes, roots, nodemap, built>>

(* Mutant: the parents are moved but not renumbered. *)
ReorderKeepsIds ==
    /\ pc = "end" /\ next = Len(nodes) /\ ~built
    /\ LET old(i) == CHOOSE j \in NodeIds : perm[j] = i - 1
       IN  /\ nodes' = [i \in 1 .. Len(nodes) |-> nodes[old(i) + 1]]
           /\ lvlnodes' = [i \in 1 .. Len(nodes) |-> lvlnodes[old(i) + 1]]
           /\ nodemap' = [q \in Point |-> perm[nodemap[q]]]
    /\ built' = TRUE
    /\ UNCHANGED <<canvasVars, roots, perm, next>>

(* permute_parent_and_node_map applies the numbering to the three arrays, *)
(* which are then moved to the tree that is returned.                     *)
Reorder ==
    /\ pc = "end" /\ next = Len(nodes) /\ ~built
    /\ LET old(i) == CHOOSE j \in NodeIds : perm[j] = i - 1
           new(j) == IF j < 0 THEN j ELSE perm[j]
       IN  /\ nodes' = [i \in 1 .. Len(nodes) |-> new(nodes[old(i) + 1])]
           /\ lvlnodes' = [i \in 1 .. Len(nodes) |-> lvlnodes[old(i) + 1]]
           /\ nodemap' = [q \in Point |-> new(nodemap[q])]
    /\ built' = TRUE
    /\ UNCHANGED <<canvasVars, roots, perm, next>>

-----------------------------------------------------------------------------
MTInit ==
    /\ Init
    /\ nodes = <<>>
    /\ lvlnodes = <<>>
    /\ roots = <<>>
    /\ nodemap = [q \in Point |-> Unset]
    /\ perm = [i \in {} |-> 0]
    /\ next = 0
    /\ built = FALSE

MTFlood == Flood /\ OnFloodStart(level) /\ UNCHANGED <<nodemap, renumberVars>>

MTScan == (Skip \/ Postpone \/ Climb) /\ UNCHANGED treeVars

MTDoneSameLevel ==
    /\ DoneSameLevel
    /\ OnDone(p)
    /\ UNCHANGED <<nodes, lvlnodes, roots, renumberVars>>

(* has_level_flooding_started is always true for this visitor. *)
MTDoneOtherLevel ==
    /\ DoneOtherLevel(TRUE)
    /\ OnDone(p)
    /\ OnFloodEnd(level')
    /\ UNCHANGED renumberVars

MTDoneLast ==
    /\ DoneLast
    /\ OnDone(p)
    /\ OnLastFloodEnd
    /\ UNCHANGED renumberVars

MTNext ==
    \/ MTFlood
    \/ MTScan
    \/ MTDoneSameLevel
    \/ MTDoneOtherLevel
    \/ MTDoneLast
    \/ Renumber
    \/ Reorder

MTSpec == MTInit /\ [][MTNext]_vars /\ WF_vars(MTNext)

-----------------------------------------------------------------------------
(***************************************************************************)
(* The stack of the visitor mirrors the recursion the gotos replaced: its  *)
(* levels increase, its top is the component being flooded, and a          *)
(* component below the top still has a point waiting in the queue.  Hence  *)
(* the visitor's assertions: the stack is never empty when a flooding      *)
(* ends, the level that ends is the top's, its parent is not higher than   *)
(* the new level, and nothing is left on the stack at the last end.        *)
(***************************************************************************)
RootsMirrorRecursion ==
    /\ \A i, j \in 1 .. Len(roots) : i < j => roots[i].level < roots[j].level
    /\ pc = "scan" => roots # <<>> /\ Last(roots).level = level
    /\ \A i \in 1 .. Len(roots) : ~IsEmpty(roots[i].level)
    /\ pc = "end" => roots = <<>>

(***************************************************************************)
(* What a max-tree is: two points share a node iff they are in the same    *)
(* peak component of their level, and the parent of a node is the smallest *)
(* peak component that strictly contains it.                               *)
(***************************************************************************)
PeakOf(q) == Component({r \in Point : f[r] >= f[q]}, q, Adjacent)

ParentPeak(q) ==
    LET around == Boundary(Point, PeakOf(q), Adjacent)
    IN  {r \in around : \A o \in around : f[o] <= f[r]}

IsMaxTree ==
    built =>
        /\ NodeIds = {nodemap[q] : q \in Point}
        /\ \A q, r \in Point : nodemap[q] = nodemap[r] <=> f[q] = f[r] /\ r \in PeakOf(q)
        /\ \A q \in Point :
               IF ParentPeak(q) = {} THEN nodes[nodemap[q] + 1] = -1
               ELSE \A r \in ParentPeak(q) : nodes[nodemap[q] + 1] = nodemap[r]

(***************************************************************************)
(* After the renumbering a parent precedes its children, which every       *)
(* traversal of a component tree relies on.                                *)
(***************************************************************************)
ParentsFirst == built => \A i \in NodeIds : nodes[i + 1] < i

(* A tree is returned for every image. *)
TreeReturned == <>built
=============================================================================
