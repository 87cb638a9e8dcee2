------------------------------ MODULE AlphaTree ------------------------------
(***************************************************************************)
(* mln::morpho::alphatree: the edges of an image are sorted by weight, the *)
(* null ones give the flat zones, and the others merge sets of zones under *)
(* the nodes of a tree that is then reversed and canonised.                *)
(* mln::morpho::watershed_hierarchy runs it a first time to get the binary *)
(* tree of the merges and the minimum spanning tree, gives the edges of    *)
(* the latter a weight that an attribute of the former decides, and builds *)
(* the tree of these edges.                                                *)
(***************************************************************************)
EXTENDS UnionFind, MergeTree, DirectionalQueue, WatershedAttributes, Connectivity

CONSTANTS Point,           \* the pixels of the domain
          After,           \* After[p]: the neighbours that nbh.after(p) yields
          Raster,          \* the points in the order of a scan of the domain
          distance(_, _),  \* the weight of an edge, from the values of its ends
          Images,          \* the images considered
          Tasks            \* among those below

(* alphatree with its two containers of edges, and watershed_hierarchy with *)
(* its two predefined attributes.                                           *)
AllTasks == {"alphatree_hq", "alphatree_vector", "HEIGHT", "DYNAMIC"}

(* The pairs of neighbours stay in T or out of it. *)
IsUnionOfRegions(T) ==
    \A x \in Point, d \in 1 .. NDir : After[x][d] \in Point => (x \in T <=> After[x][d] \in T)

ASSUME AlphaTreeAssumption ==
    /\ NDir \in Nat /\ NLevels \in Nat \ {0}
    /\ IsFiniteSet(Point)
    /\ Raster \in Seq(Point) /\ Range(Raster) = Point
    /\ \A im \in Images : \A x \in Point :
          /\ \A y \in Point : distance(im[x], im[y]) = distance(im[y], im[x])
          /\ \A d \in 1 .. NDir :
                After[x][d] \in Point => distance(im[x], im[After[x][d]]) \in 0 .. NLevels - 1
    /\ Tasks \subseteq AllTasks

(* The domain is in one piece, as the box of an image is. *)
ASSUME ConnectedAssumption ==
    Point # {} /\ \A T \in SUBSET Point : T # {} /\ IsUnionOfRegions(T) => T = Point

VARIABLES
    f,        \* the input image
    task,     \* what is computed
    pc,       \* "edges", "flatzones", "hierarchy", "reweight" or "end"
    canonize_tree, \* whether a node of the level of an edge is reused
    i,        \* the rank of the pixel whose edges are computed
    hqueue,   \* the edges, when they are in a directional queue
    cont,     \* the edges left, when they are in a vector (sorted once complete)
    zones,    \* the forest of the flat zones
    node_map, \* the node of each point
    zpar,     \* the forest of the sets of leaves
    links,    \* the node of each set
    par,      \* the parent of each node
    levels,   \* the level of each node
    mst       \* the edges that merged two sets

vars == <<f, task, pc, canonize_tree, i, hqueue, cont, zones, node_map, zpar, links, par, levels, mst>>

HQ == task = "alphatree_hq"

ForHierarchy == task \in {"HEIGHT", "DYNAMIC"}

Dist(x, y) == distance(f[x], f[y])

Edge(x, y, w) == [p |-> x, q |-> y, w |-> w]

-----------------------------------------------------------------------------
(* alphatree_edges: the edge that comes next, and the container without it. *)

NoEdge == IF HQ THEN hqueue.size = 0 ELSE cont = <<>>

TopEdge ==
    IF HQ THEN Edge(FrontPoint(hqueue), After[FrontPoint(hqueue)][hqueue.dir], hqueue.level)
    ELSE Head(cont)

PopEdge ==
    /\ ~NoEdge
    /\ IF HQ THEN hqueue' = PopFront(hqueue) /\ UNCHANGED cont
             ELSE cont' = Tail(cont) /\ UNCHANGED hqueue

(* The edges of s of weight l, in their order. *)
OfWeight(s, l) ==
    LET kept[m \in 0 .. Len(s)] ==
            IF m = 0 THEN <<>>
            ELSE IF s[m].w = l THEN Append(kept[m - 1], s[m]) ELSE kept[m - 1]
    IN  kept[Len(s)]

(* std::stable_sort by weight. *)
SortedEdges(s) == FlattenSeq([l \in 1 .. NLevels |-> OfWeight(s, l - 1)])

(* The edges left, whatever their order. *)
EdgesLeft ==
    IF HQ THEN UNION {UNION {{Edge(x, After[x][d], l) : x \in Range(hqueue.cells[d][l])} :
                                 l \in 0 .. NLevels - 1} : d \in 1 .. NDir}
    ELSE Range(cont)

-----------------------------------------------------------------------------
Init ==
    /\ f \in Images
    /\ task \in Tasks
    /\ pc = "edges"
    /\ canonize_tree = ~ForHierarchy
    /\ i = 1
    /\ hqueue = EmptyHQueue
    /\ cont = <<>>
    /\ zones = [x \in Point |-> x]
    /\ node_map = [x \in Point |-> -1]
    /\ zpar = Iota(0)
    /\ links = Iota(0)
    /\ par = Iota(0)
    /\ levels = Iota(0)
    /\ mst = <<>>

(* The containers once the edges of x are added, one direction after the other. *)
InsertedEdges(x) ==
    LET filled[d \in 0 .. NDir] ==
            IF d = 0 THEN hqueue
            ELSE IF After[x][d] \in Point THEN Insert(filled[d - 1], d, Dist(x, After[x][d]), x)
            ELSE filled[d - 1]
    IN  filled[NDir]

PushedEdges(x) ==
    LET filled[d \in 0 .. NDir] ==
            IF d = 0 THEN cont
            ELSE IF After[x][d] \in Point
                 THEN Append(filled[d - 1], Edge(x, After[x][d], Dist(x, After[x][d])))
            ELSE filled[d - 1]
    IN  filled[NDir]

(* One pixel of alphatree_compute_edges. *)
ComputeEdges ==
    /\ pc = "edges" /\ i <= Len(Raster)
    /\ IF HQ THEN hqueue' = InsertedEdges(Raster[i]) /\ UNCHANGED cont
             ELSE cont' = PushedEdges(Raster[i]) /\ UNCHANGED hqueue
    /\ i' = i + 1
    /\ UNCHANGED <<f, task, pc, canonize_tree, zones, node_map, zpar, links, par, levels, mst>>

(* on_finish_insert *)
FinishInsert ==
    /\ pc = "edges" /\ i > Len(Raster)
    /\ cont' = SortedEdges(cont)
    /\ pc' = "flatzones"
    /\ UNCHANGED <<f, task, canonize_tree, i, hqueue, zones, node_map, zpar, links, par, levels, mst>>

(* alphatree_compute_flatzones, which watershed_hierarchy does not call. *)
ZonesRemain == ~ForHierarchy /\ ~NoEdge /\ TopEdge.w = 0

MergeZones ==
    /\ pc = "flatzones" /\ ZonesRemain
    /\ LET rp == zfindroot(zones, TopEdge.p)
           rq == zfindroot(zones, TopEdge.q)
           compressed == Compressed(Compressed(zones, TopEdge.p), TopEdge.q)
       IN  zones' = IF rp = rq THEN compressed ELSE [compressed EXCEPT ![rq] = rp]
    /\ PopEdge
    /\ UNCHANGED <<f, task, pc, canonize_tree, i, node_map, zpar, links, par, levels, mst>>

(* What alphatree_from_graph starts from, with n leaves. *)
StartHierarchy(n) ==
    /\ zpar' = Iota(n)
    /\ links' = Iota(n)
    /\ par' = Iota(n)
    /\ levels' = [j \in 0 .. n - 1 |-> 0]
    /\ pc' = "hierarchy"

(* alphatree_create_nodemap: the zones are numbered in the order in which  *)
(* the scan meets them.                                                    *)
CreateNodemap ==
    /\ pc = "flatzones" /\ ~ZonesRemain
    /\ \E root \in {[x \in Point |-> zfindroot(zones, x)]} :
       \E firsts \in {{r \in DOMAIN Raster :
                          \A s \in 1 .. r - 1 : root[Raster[s]] # root[Raster[r]]}} :
          /\ node_map' =
                [x \in Point |->
                    LET first == CHOOSE r \in firsts : root[Raster[r]] = root[x]
                    IN  Cardinality({r \in firsts : r < first})]
          /\ StartHierarchy(Cardinality(firsts))
    /\ UNCHANGED <<f, task, canonize_tree, i, hqueue, cont, zones, mst>>

-----------------------------------------------------------------------------
(* alphatree_compute_hierarchy, one action per edge. *)

RootOf(x) == zfindroot(zpar, node_map[x])

CompressedForEnds ==
    Compressed(Compressed(zpar, node_map[TopEdge.p]), node_map[TopEdge.q])

Merging ==
    /\ pc = "hierarchy"
    /\ PopEdge
    /\ UNCHANGED <<f, task, pc, canonize_tree, i, zones, node_map>>

SkipEdge ==
    /\ Merging
    /\ RootOf(TopEdge.p) = RootOf(TopEdge.q)
    /\ zpar' = CompressedForEnds
    /\ UNCHANGED <<links, par, levels, mst>>

(* Two sets merge under the node n, where the arrays of the nodes are ps and *)
(* ls.  Only watershed_hierarchy, for its binary tree, asks for the edges.   *)
MergeUnder(n, ps, ls) ==
    LET rp == RootOf(TopEdge.p)
        rq == RootOf(TopEdge.q)
    IN  /\ zpar' = [CompressedForEnds EXCEPT ![rq] = rp]
        /\ par' = [ps EXCEPT ![links[rp]] = n, ![links[rq]] = n]
        /\ levels' = ls
        /\ links' = [links EXCEPT ![rp] = n]
        /\ mst' = IF canonize_tree THEN mst ELSE Append(mst, TopEdge)

LastRoot == Max({links[RootOf(TopEdge.p)], links[RootOf(TopEdge.q)]})
FirstRoot == Min({links[RootOf(TopEdge.p)], links[RootOf(TopEdge.q)]})

HasLevel(n) == canonize_tree /\ levels[n] = TopEdge.w

(* Mutant: the first of the two nodes is tried first. *)
ReuseNodeFirst ==
    /\ Merging
    /\ RootOf(TopEdge.p) # RootOf(TopEdge.q)
    /\ HasLevel(LastRoot) \/ HasLevel(FirstRoot)
    /\ MergeUnder(IF HasLevel(FirstRoot) THEN FirstRoot ELSE LastRoot, par, levels)

(* The node of one of the two sets has the level of the edge. *)
ReuseNode ==
    /\ Merging
    /\ RootOf(TopEdge.p) # RootOf(TopEdge.q)
    /\ HasLevel(LastRoot) \/ HasLevel(FirstRoot)
    /\ MergeUnder(IF HasLevel(LastRoot) THEN LastRoot ELSE FirstRoot, par, levels)

CreateNode ==
    /\ Merging
    /\ RootOf(TopEdge.p) # RootOf(TopEdge.q)
    /\ ~HasLevel(LastRoot) /\ ~HasLevel(FirstRoot)
    /\ MergeUnder(Size(par), Push(par, Size(par)), Push(levels, TopEdge.w))

-----------------------------------------------------------------------------
(* The end of alphatree_from_graph. *)

ReturnCanonized ==
    /\ pc = "hierarchy" /\ NoEdge /\ canonize_tree
    /\ LET parents == ReversedParents(par)
           values  == ReversedLevels(levels)
           to      == Translation(parents, values)
       IN  /\ par' = CanonizedParents(parents, values)
           /\ levels' = CanonizedLevels(parents, values)
           /\ node_map' = [x \in Point |-> to[Size(par) - 1 - node_map[x]]]
    /\ pc' = "end"
    /\ UNCHANGED <<f, task, canonize_tree, i, hqueue, cont, zones, zpar, links, mst>>

ReturnBinary ==
    /\ pc = "hierarchy" /\ NoEdge /\ ~canonize_tree
    /\ par' = ReversedParents(par)
    /\ levels' = ReversedLevels(levels)
    /\ node_map' = [x \in Point |-> Size(par) - 1 - node_map[x]]
    /\ pc' = "reweight"
    /\ UNCHANGED <<f, task, canonize_tree, i, hqueue, cont, zones, zpar, links, mst>>

(* The rest of watershed_hierarchy: the attribute of the binary tree, the  *)
(* edges it weighs, and what the second tree starts from.                  *)
Attribute(nb_leaves) ==
    IF task = "HEIGHT" THEN HeightAttribute(par, levels, nb_leaves)
                       ELSE DynamicAttribute(par, levels, nb_leaves)

Reweight ==
    /\ pc = "reweight"
    /\ \E nb_leaves \in {Cardinality(Point)} :
          /\ \E attribute \in {Attribute(nb_leaves)} :
                cont' = SortedEdges([k \in DOMAIN mst |->
                            [mst[k] EXCEPT !.w =
                                NewWeight(par, levels, nb_leaves, attribute, k - 1)]])
          /\ StartHierarchy(nb_leaves)
    /\ canonize_tree' = TRUE
    /\ node_map' = [x \in Point |-> Size(par) - 1 - node_map[x]]
    /\ UNCHANGED <<f, task, i, hqueue, zones, mst>>

Next ==
    \/ ComputeEdges \/ FinishInsert
    \/ MergeZones \/ CreateNodemap
    \/ SkipEdge \/ ReuseNode \/ CreateNode
    \/ ReturnCanonized
    \/ ReturnBinary \/ Reweight

Spec == Init /\ [][Next]_vars

-----------------------------------------------------------------------------
(***************************************************************************)
(* Whatever holds the edges, and though its cache follows neither the      *)
(* insertions nor the directions, the edge that comes next is one of those *)
(* of the least weight: Kruskal's algorithm relies on it.                  *)
(***************************************************************************)
LightestEdgeFirst ==
    pc \in {"flatzones", "hierarchy"} /\ ~NoEdge =>
        /\ TopEdge \in EdgesLeft
        /\ \A e \in EdgesLeft : TopEdge.w <= e.w

(***************************************************************************)
(* While the sets merge, a node comes before its parent, is not above it,  *)
(* and the node that links gives for a set is the one under which all the  *)
(* leaves of the set are, though a merge may reuse a node of either set.   *)
(* It is what the reversal and the canonisation of the arrays rely on.     *)
(***************************************************************************)
NodesMirrorSets ==
    pc = "hierarchy" =>
        /\ \A j \in DOMAIN par : par[j] >= j /\ levels[par[j]] >= levels[j]
        /\ \E reversed \in {ReversedParents(par)} :
              \E top \in {CutNode(reversed, ReversedLevels(levels), NLevels)} :
                \A j \in DOMAIN zpar :
                  Size(par) - 1 - top[Size(par) - 1 - j] = links[zfindroot(zpar, j)]

(* The pairs of neighbours whose edge is not heavier than l. *)
Linked(l) ==
    {e \in {<<x, y>> : x \in Point, y \in Point} :
        /\ \E d \in 1 .. NDir : After[e[1]][d] = e[2] \/ After[e[2]][d] = e[1]
        /\ Dist(e[1], e[2]) <= l}

SameRegion(cut, x, y) == cut[node_map[x]] = cut[node_map[y]]

(* The nodes are in the order every traversal of a component tree assumes. *)
ParentsFirst == par[0] = 0 /\ \A j \in DOMAIN par \ {0} : par[j] < j /\ levels[par[j]] > levels[j]

(***************************************************************************)
(* What an alpha-tree is: parents come first and are strictly above, and   *)
(* for every level the regions of the cut of the tree are the quasi-flat   *)
(* zones, the components of the graph of the edges that are not heavier.   *)
(***************************************************************************)
IsAlphaTree ==
    pc = "end" /\ ~ForHierarchy =>
        /\ ParentsFirst
        /\ \A l \in 0 .. NLevels - 1 :
             \E cut \in {CutNode(par, levels, l)}, adj \in {Linked(l)} :
             \A x \in Point : \E zone \in {Component(Point, x, adj)} :
                \A y \in Point : SameRegion(cut, x, y) <=> y \in zone

(* The quasi-flat zones; the lightest edge inside one of them and the       *)
(* lightest one that leaves it, all being the same for the whole image.     *)
Zones == UNION {{Component(Point, x, adj) : x \in Point} :
                    adj \in {Linked(l) : l \in 0 .. NLevels - 1}}

Floor(zone, all) ==
    Min({NLevels} \cup {Dist(e[1], e[2]) : e \in {g \in all : g[1] \in zone /\ g[2] \in zone}})

Brim(zone, all) ==
    Min({2 * NLevels} \cup
        {Dist(e[1], e[2]) : e \in {g \in all : g[1] \in zone /\ g[2] \notin zone}})

(***************************************************************************)
(* What the watershed hierarchies by height and by dynamics are: the       *)
(* regions of the cut at l are connected, and each one holds exactly one   *)
(* of the minimal zones that water must rise by more than l to leave.      *)
(***************************************************************************)
RegionsAreDeep ==
    pc = "end" /\ ForHierarchy =>
        /\ ParentsFirst
        /\ \E all \in {Linked(NLevels)}, every \in {Zones} : \A l \in 0 .. NLevels - 1 :
           \E cut \in {CutNode(par, levels, l)},
              deep \in {{z \in every : Brim(z, all) - Floor(z, all) > l}} :
           \E lakes \in {{z \in deep : \A y \in deep : y \subseteq z => y = z}} :
            \A x \in Point : \E region \in {{y \in Point : SameRegion(cut, x, y)}} :
              /\ Component(region, x, all) = region
              /\ Cardinality({z \in lakes : z \subseteq region}) = 1
=============================================================================
