------------------------- MODULE MultivariateShapes -------------------------
(***************************************************************************)
(* mln::morpho::mtos: the shapes of the three channels of a color image    *)
(* are ordered by inclusion in a graph; the depth of a face is the length  *)
(* of the longest path from the root of the graph to a shape that holds    *)
(* it; the saturated max-tree of the depths is the multivariate tree.  The *)
(* trees are those of module TreeOfShapes: of the channels, then of the    *)
(* map of the depths.                                                      *)
(***************************************************************************)
EXTENDS TreeOfShapes, SequencesExt

VARIABLES
    ses,           \* ses[j][k][n]: the smallest enclosing shape in tree k of the node n of tree j
    tree_to_graph, \* for each tree, the vertex of each node
    gT,            \* the transposed graph: the vertices included in each vertex
    st,            \* topo_sort: the stack
    visited,       \* topo_sort: the marks
    res,           \* topo_sort: the end of the order, as far as it is known
    at,            \* the vertex, or its rank in the order, that is considered
    graph_depth    \* the length of the longest path to each vertex

graphVars == <<ses, tree_to_graph, gT, st, visited, res, at, graph_depth>>
mtosVars  == <<tosVars, graphVars>>

ntrees  == 3
Channel == 1 .. ntrees

ASSUME MtosAssumption == \A input \in Inputs : Len(input.images) \in {1, ntrees}

NodesOf(t) == DOMAIN t.parent

(* The ancestors of a node, itself included; the root is node 0. *)
Ancestors(t, n) ==
    LET branch[m \in NodesOf(t)] == IF m = 0 THEN {0} ELSE {m} \cup branch[t.parent[m]]
    IN  branch[n]

DepthIn(t, n) == Cardinality(Ancestors(t, n)) - 1

(* The lowest common ancestor of some nodes: parents have smaller numbers. *)
Lca(t, S) == Max({m \in NodesOf(t) : \A n \in S : m \in Ancestors(t, n)})

RegionOf(t, n) == {q \in Faces : n \in Ancestors(t, t.node_map[q])}

Vertex == DOMAIN gT

-----------------------------------------------------------------------------
MtosInit ==
    /\ Init
    /\ ses = <<>> /\ tree_to_graph = <<>> /\ gT = <<>>
    /\ st = <<>> /\ visited = <<>> /\ res = <<>>
    /\ at = 0
    /\ graph_depth = <<>>

TosStep == TosNext /\ UNCHANGED graphVars

NextChannel ==
    /\ stage = "tos_end" /\ c < Len(inputs)
    /\ c' = c + 1
    /\ stage' = "immerse"
    /\ UNCHANGED <<inputs, pstart, inf, sup, ord, lists, previous_level, cur_level, p,
                   depth, depth2lvl, trees, graphVars>>

(* From here to the map of the depths, the trees do not change. *)
Fusion(from, to) ==
    /\ stage = from /\ stage' = to
    /\ UNCHANGED <<pstart, inf, sup, ord, lists, previous_level, cur_level, p, depth,
                   depth2lvl, trees>>

(* smallest_enclosing_shape: the lowest common ancestor, in the other tree, *)
(* of the nodes of the points of a shape.                                   *)
EnclosingShape(j, k, n) ==
    IF j = k THEN n
    ELSE Lca(trees[k], {trees[k].node_map[q] : q \in RegionOf(trees[j], n)})

ComputeEnclosingShapes ==
    /\ c = ntrees /\ Len(inputs) = ntrees
    /\ Fusion("tos_end", "vertices")
    /\ ses' = [j \in Channel |-> [k \in Channel |-> [n \in NodesOf(trees[j]) |-> EnclosingShape(j, k, n)]]]
    /\ UNCHANGED <<inputs, c, tree_to_graph, gT, st, visited, res, at, graph_depth>>

(* The first trees in which the node n of tree j is also a node. *)
SameShape(j, n) == {k \in 1 .. j - 1 : ses[k][j][ses[j][k][n]] = n}

Added == UNION {{<<j, n>> : n \in {m \in NodesOf(trees[j]) : m > 0 /\ SameShape(j, m) = {}}} : j \in Channel}

(* A vertex for each shape: 0 for the roots, then in the order of the trees. *)
AddVertices ==
    /\ Fusion("vertices", "edges")
    /\ \E added \in {Added} :
       LET rank(j, n) == Cardinality({a \in added : a[1] < j \/ (a[1] = j /\ a[2] <= n)})
           link[j \in Channel] ==
               [n \in NodesOf(trees[j]) |->
                   IF n = 0 THEN 0
                   ELSE IF SameShape(j, n) = {} THEN rank(j, n)
                   ELSE LET k == Min(SameShape(j, n)) IN link[k][ses[j][k][n]]]
       IN  tree_to_graph' = [j \in Channel |-> link[j]]
    /\ UNCHANGED <<inputs, c, ses, gT, st, visited, res, at, graph_depth>>

(***************************************************************************)
(* The edges go from a shape to its parent and to the smallest shapes of   *)
(* the other trees that enclose it; among them, those that are shallower   *)
(* than another one in all the trees are removed.                          *)
(***************************************************************************)
EdgesFrom(v) ==
    UNION {UNION {
        {tree_to_graph[j][trees[j].parent[n]]} \cup
        {tree_to_graph[k][ses[j][k][n]] :
            k \in {l \in Channel : l # j /\ ses[l][j][ses[j][l][n]] # n}}
      : n \in {m \in NodesOf(trees[j]) : m > 0 /\ tree_to_graph[j][m] = v}} : j \in Channel}

(* The depths, in all the trees, of the shape that added a vertex. *)
NodeDepths(v) ==
    LET origin == Min({j \in Channel : v \in Range(tree_to_graph[j])})
        n      == CHOOSE m \in NodesOf(trees[origin]) : tree_to_graph[origin][m] = v
    IN  [k \in Channel |-> DepthIn(trees[k], ses[origin][k][n])]

(* Mutant: one tree in which the other shape is deeper is enough. *)
ReducedTooFar(S) ==
    LET deeper(a, b) == \E k \in Channel : NodeDepths(a)[k] > NodeDepths(b)[k]
    IN  S \ {b \in S : \E a \in S \ {b} : deeper(a, b)}

Reduced(S) ==
    LET deeper(a, b) == \A k \in Channel : NodeDepths(a)[k] > NodeDepths(b)[k]
    IN  S \ {b \in S : \E a \in S \ {b} : deeper(a, b)}

AddEdges ==
    /\ Fusion("edges", "topo")
    /\ \E last \in {Max(UNION {Range(tree_to_graph[j]) : j \in Channel})} :
       \E graph \in {[v \in 0 .. last |-> Reduced(EdgesFrom(v))]} :
          /\ gT' = [v \in 0 .. last |-> {w \in 0 .. last : v \in graph[w]}]
          /\ visited' = [v \in 0 .. last |-> "UNMARKED"]
    /\ at' = 0
    /\ UNCHANGED <<inputs, c, ses, tree_to_graph, st, res, graph_depth>>

-----------------------------------------------------------------------------
(* topo_sort: a traversal in depth, with a stack, from each vertex. *)
StartFrom ==
    /\ st = <<>> /\ at \in Vertex
    /\ Fusion("topo", "topo")
    /\ st' = <<at>>
    /\ at' = at + 1
    /\ UNCHANGED <<inputs, c, ses, tree_to_graph, gT, visited, res, graph_depth>>

Ascending(S) == Among([k \in 1 .. Max(S \cup {0}) + 1 |-> k - 1], S)

VisitTop ==
    /\ st # <<>>
    /\ Fusion("topo", "topo")
    /\ LET v    == Last(st)
           rest == Front(st)
       IN  CASE visited[v] = "PERMANENT" ->
                    st' = rest /\ UNCHANGED <<visited, res>>
             [] visited[v] = "TEMPORARY" ->
                    /\ st' = rest
                    /\ visited' = [visited EXCEPT ![v] = "PERMANENT"]
                    /\ res' = <<v>> \o res
             [] OTHER ->
                    /\ st' = st \o Ascending(gT[v])
                    /\ visited' = [visited EXCEPT ![v] = "TEMPORARY"]
                    /\ UNCHANGED res
    /\ UNCHANGED <<inputs, c, ses, tree_to_graph, gT, at, graph_depth>>

EndTopo ==
    /\ st = <<>> /\ at \notin Vertex
    /\ Fusion("topo", "depths")
    /\ at' = 1
    /\ graph_depth' = [v \in Vertex |-> IF v = 0 THEN 0 ELSE -1]
    /\ UNCHANGED <<inputs, c, ses, tree_to_graph, gT, st, visited, res>>

(* The vertices included in the next one of the order are deeper than it. *)
Deepen ==
    /\ at <= Len(res)
    /\ Fusion("depths", "depths")
    /\ graph_depth' = [e \in Vertex |-> IF e \in gT[res[at]]
                                        THEN Max({graph_depth[e], graph_depth[res[at]] + 1})
                                        ELSE graph_depth[e]]
    /\ at' = at + 1
    /\ UNCHANGED <<inputs, c, ses, tree_to_graph, gT, st, visited, res>>

DepthMap == [q \in Faces |-> Max({graph_depth[tree_to_graph[j][trees[j].node_map[q]]] : j \in Channel})]

(* The map of the depths is the image tos is called on next. *)
ComputeDepthMap ==
    /\ at > Len(res)
    /\ Fusion("depths", "immerse")
    /\ inputs' = Append(inputs, DepthMap)
    /\ c' = c + 1
    /\ UNCHANGED graphVars

(* Mutant: the shift of the parent is not inherited. *)
OwnDelta(t) ==
    [n \in NodesOf(t) |-> IF n = 0 THEN 0 ELSE Max({0, t.values[t.parent[n]] - t.values[n]})]

-----------------------------------------------------------------------------
(***************************************************************************)
(* satmaxtree: the values are shifted so as not to decrease from a node to *)
(* its children, and component_tree::filter (module ComponentTree), with   *)
(* the strategy DIRECT, removes the nodes that have the value of their     *)
(* parent, unless the parent is the root.                                  *)
(***************************************************************************)
Delta(t) ==
    LET delta[n \in NodesOf(t)] ==
            IF n = 0 THEN 0
            ELSE delta[t.parent[n]] + Max({0, t.values[t.parent[n]] - t.values[n]})
    IN  delta

Saturate ==
    /\ stage = "tos_end" /\ c = ntrees + 1
    /\ \E delta \in {Delta(trees[c])} :
       \E t \in {trees[c]} :
       LET value(n) == t.values[n] + delta[n]
           pass(n)  == n = 0 \/ value(n) > value(t.parent[n]) \/ t.parent[n] = 0
           closest(S) == Max({a \in S : pass(a)})
       IN  trees' = [trees EXCEPT ![c] =
               [parent   |-> [n \in NodesOf(t) |-> IF n = 0 THEN -1 ELSE closest(Ancestors(t, t.parent[n]))],
                values   |-> [n \in NodesOf(t) |-> value(closest(Ancestors(t, n)))],
                node_map |-> [q \in Faces |-> closest(Ancestors(t, t.node_map[q]))]]]
    /\ stage' = "end"
    /\ UNCHANGED <<inputs, pstart, c, inf, sup, ord, lists, previous_level, cur_level, p,
                   depth, depth2lvl, graphVars>>

MtosNext ==
    \/ TosStep \/ NextChannel
    \/ ComputeEnclosingShapes \/ AddVertices \/ AddEdges
    \/ StartFrom \/ VisitTop \/ EndTopo
    \/ Deepen \/ ComputeDepthMap \/ Saturate

MtosSpec == MtosInit /\ [][MtosNext]_mtosVars

-----------------------------------------------------------------------------
(* The shapes of the channels. *)
ChannelShapes == UNION {{RegionOf(trees[j], n) : n \in NodesOf(trees[j])} : j \in Channel}

(* For each face, the length of the longest chain of shapes around it. *)
LongestChains(shapes) ==
    LET chain[S \in shapes] == Max({0} \cup {chain[T] + 1 : T \in {U \in shapes : S \subseteq U /\ U # S}})
    IN  [q \in UNION shapes |-> Max({chain[S] : S \in {T \in shapes : q \in T}})]

(***************************************************************************)
(* The depth of a face is the greatest number of shapes, of any of the     *)
(* three trees, strictly nested around a point of a shape that holds the   *)
(* face (the whole image aside): the graph is the inclusion of the shapes, *)
(* its reduction removes no edge of a longest path, and the order of the   *)
(* vertices visits a shape after all those that include it.                *)
(***************************************************************************)
DepthMapIsLongestChain ==
    stage = "immerse" /\ c = ntrees + 1 =>
        \A shapes \in {ChannelShapes} : inputs[c] = LongestChains(shapes)

(***************************************************************************)
(* The nodes of the multivariate tree are the saturations of the           *)
(* components of the faces that are as deep as a level, and their values   *)
(* increase from the root on.                                              *)
(***************************************************************************)
TreeIsSaturated ==
    stage = "end" =>
        LET t == trees[c]
        IN  /\ {RegionOf(t, n) : n \in Range(t.node_map)} =
                   {Faces} \cup {Saturation(C) : C \in UNION {Components({q \in Faces : inf[q] >= l}) : l \in Level}}
            /\ \A n \in Range(t.node_map) : n > 0 => t.values[n] > t.values[t.parent[n]]
=============================================================================
