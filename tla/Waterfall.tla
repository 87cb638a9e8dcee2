------------------------------ MODULE Waterfall ------------------------------
(***************************************************************************)
(* mln::morpho::waterfall: the minima of an image, or the components of an *)
(* image of markers, are labelled, then flooded into regions; the minimum  *)
(* spanning tree of the graph of the regions is computed, its edges are    *)
(* given the iteration of the waterfall at which they vanish, and the tree *)
(* of the regions these edges merge is built.                              *)
(***************************************************************************)
EXTENDS LocalMinima, MergeTree, SequencesExt

CONSTANTS Nbh,        \* Nbh[x]: the neighbours of x, in the order nbh(x) yields them
          MaxLevel,   \* the greatest level of an image
          MarkerPairs,\* the pairs <<image, seeds>> given to waterfall_from_markers
          MaxLabel,   \* the greatest label
          Ties        \* how equal edges are sorted, among the orders below

VARIABLES
    seeds,    \* the image of the markers, if there are some
    stack,    \* the stack of blobs
    queue,    \* pqueue
    rag,      \* rag[l]: the pairs [out, w] of the region l
    graph,    \* flatten_graph, sorted
    mst,      \* the edges of the minimum spanning tree
    j,        \* the rank of the edge Kruskal's algorithm considers
    zpar,     \* its forest
    roots,    \* m_roots of its visitor
    diameter, \* m_diameter
    par,      \* the parent of each node
    levels    \* the level of each node

flooding == <<queue, rag>>
merging  == <<graph, mst, j, zpar, roots, diameter, par, levels>>
labelling == <<f, parent, i, k, root, possible, n_label, seeds, stack>>

wvars == <<vars, seeds, stack, flooding, merging>>

B == INSTANCE Blobs WITH LBL_MAX <- MaxLabel, ima <- seeds, out <- output, nlabel <- n_label

Q == INSTANCE PriorityFifo WITH Reversed <- TRUE

ASSUME WaterfallAssumption ==
    /\ \A x \in Point : DOMAIN Nbh[x] = 1 .. Len(Nbh[x]) /\ Len(Nbh[x]) \in Nat
    /\ \A pair \in MarkerPairs : pair[2] \in [Point -> BOOLEAN]
    /\ MaxLabel \in Nat
    /\ \A x, y \in Point : y \in Range(Nbh[x]) <=> <<x, y>> \in Adjacent
    /\ MaxLevel \in Nat
    /\ \A im \in Images : im \in [Point -> 0 .. MaxLevel]
    /\ \A u, v \in 0 .. MaxLevel : cmp(u, v) <=> u < v

Unmarked == [x \in Point |-> FALSE]

WaterfallInit ==
    /\ \/ Init /\ seeds = Unmarked
       \/ /\ \E pair \in MarkerPairs : f = pair[1] /\ seeds = pair[2]
          /\ B!BlobsInit
          /\ parent = [x \in Point |-> Nowhere]
          /\ k = 1 /\ root = Raster[1] /\ possible = TRUE
    /\ stack = <<>>
    /\ Q!Init
    /\ rag = Iota(0)
    /\ graph = <<>> /\ mst = <<>>
    /\ j = 1
    /\ zpar = Iota(0) /\ roots = Iota(0) /\ diameter = Iota(0)
    /\ par = Iota(0) /\ levels = Iota(0)

LocalMinimaStep == Next /\ UNCHANGED <<seeds, stack, flooding, merging>>

BlobsStep == B!BlobsNext /\ UNCHANGED <<f, parent, k, root, possible, flooding, merging>>

-----------------------------------------------------------------------------
(* watershed_rag: the flooding, once the regions are labelled. *)

Near(x) == B!Selected(Nbh[x], Point)

(* The points of a level that start the flooding. *)
Shore(l) == {x \in Point : f[x] = l /\ output[x] > 0 /\ \E y \in Range(Near(x)) : output[y] = 0}

StartFlood ==
    /\ pc \in {"end", "labelled"}
    /\ queue' = [l \in Q!Level |-> B!Selected(Raster, Shore(l))]
    /\ rag' = [l \in 0 .. n_label |-> <<>>]
    /\ pc' = "flood"
    /\ UNCHANGED <<labelling, output, merging>>

(* Mutant: an edge keeps the weight it was created with. *)
AddEdgeOnce(g, x, y) ==
    LET lbl_min == Min({output[x], output[y]})
        lbl_max == Max({output[x], output[y]})
    IN  IF \E e \in DOMAIN g[lbl_min] : g[lbl_min][e].out = lbl_max THEN g
        ELSE [g EXCEPT ![lbl_min] = Append(@, [out |-> lbl_max, w |-> Max({f[x], f[y]})])]

(* add_edge: x and y are neighbours in two regions. *)
AddEdge(g, x, y) ==
    LET lbl_min == Min({output[x], output[y]})
        lbl_max == Max({output[x], output[y]})
        max_w   == Max({f[x], f[y]})
    IN  IF \E e \in DOMAIN g[lbl_min] : g[lbl_min][e].out = lbl_max
        THEN [g EXCEPT ![lbl_min] = [e \in DOMAIN @ |->
                 IF @[e].out = lbl_max THEN [out |-> lbl_max, w |-> Min({@[e].w, max_w})] ELSE @[e]]]
        ELSE [g EXCEPT ![lbl_min] = Append(@, [out |-> lbl_max, w |-> max_w])]

(* An edge for each of the points of s, which are neighbours of x. *)
AddEdges(g, x, s) ==
    LET added[m \in 0 .. Len(s)] == IF m = 0 THEN g ELSE AddEdge(added[m - 1], x, s[m])
    IN  added[Len(s)]

(* The neighbours that have no label yet, and those of another region. *)
New(x) == B!Selected(Near(x), {y \in Point : output[y] = 0})

Foreign(x) == B!Selected(Near(x), {y \in Point : output[y] > 0 /\ output[y] # output[x]})

Flood ==
    /\ pc = "flood"
    /\ \E l \in Q!Level :
          /\ Q!IsTopLevel(l)
          /\ LET x == Head(queue[l])
             IN  /\ output' = [y \in Point |-> IF y \in Range(New(x)) THEN output[x] ELSE output[y]]
                 /\ queue' = [m \in Q!Level |-> (IF m = l THEN Tail(queue[m]) ELSE queue[m])
                                                \o B!Selected(New(x), {y \in Point : f[y] = m})]
                 /\ rag' = AddEdges(rag, x, Foreign(x))
    /\ UNCHANGED <<labelling, pc, merging>>

-----------------------------------------------------------------------------
(* mst_waterfall and waterfall_from_mst *)

nlbl == n_label + 1

(* std::sort by weight: two of the orders it may leave equal edges in. *)
AllTies == {"as they come", "backwards"}

Sorted(edges, tie) ==
    LET s == IF tie = "backwards" THEN Reverse(edges) ELSE edges
        weights == {s[e].w : e \in DOMAIN s}
    IN  FlattenSeq([r \in 1 .. Cardinality(weights) |->
            B!Selected(s, {e \in Range(s) : Cardinality({w \in weights : w < e.w}) = r - 1})])

FlattenedGraph ==
    FlattenSeq([l \in 1 .. nlbl |->
        [e \in DOMAIN rag[l - 1] |-> [p |-> l - 1, q |-> rag[l - 1][e].out, w |-> rag[l - 1][e].w]]])

(* What kruskal and the visitors start from. *)
StartKruskal ==
    /\ zpar' = Iota(nlbl)
    /\ roots' = Iota(nlbl)
    /\ j' = 1

SortGraph ==
    /\ pc = "flood" /\ Q!AllEmpty
    /\ \E tie \in Ties : graph' = Sorted(FlattenedGraph, tie)
    /\ StartKruskal
    /\ diameter' = [v \in 0 .. n_label |-> 0]
    /\ pc' = "mst"
    /\ UNCHANGED <<labelling, output, flooding, mst, par, levels>>

(* The next edge: it links the sets of roots rp and rq, or is left alone. *)
Rp(e) == zfindroot(zpar, e.p)
Rq(e) == zfindroot(zpar, e.q)

Processed(e) == Compressed(Compressed(zpar, e.p), e.q)

Kruskal(edges) ==
    /\ j <= Len(edges)
    /\ j' = j + 1
    /\ zpar' = IF Rp(edges[j]) = Rq(edges[j]) THEN Processed(edges[j])
               ELSE [Processed(edges[j]) EXCEPT ![Rp(edges[j])] = Rq(edges[j])]
    /\ UNCHANGED <<labelling, output, pc, flooding, graph>>

(* Mutant: the iteration at which the two regions are single ones. *)
IterationOfBoth(a, b) == Max({a, b}) + 1

(* The iteration at which two regions of given diameters merge: the first *)
(* of the two that is a single region follows their edge.                 *)
Iteration(a, b) == Min({a, b}) + 1

(* mst_waterfall_visitor::on_union *)
UnionOfMst ==
    /\ pc = "mst"
    /\ Kruskal(graph)
    /\ LET e == graph[j]
           a == diameter[roots[Rp(e)]]
           b == diameter[roots[Rq(e)]]
       IN  /\ Rp(e) # Rq(e)
           /\ diameter' = Push(diameter, Max({Iteration(a, b), a, b}))
           /\ mst' = Append(mst, [p |-> e.p, q |-> e.q, w |-> Iteration(a, b)])
           /\ roots' = [roots EXCEPT ![Rp(e)] = Size(diameter), ![Rq(e)] = Size(diameter)]
    /\ UNCHANGED <<par, levels>>

(* on_processing *)
SkipOfMst ==
    /\ pc = "mst"
    /\ Kruskal(graph)
    /\ Rp(graph[j]) = Rq(graph[j])
    /\ UNCHANGED <<mst, roots, diameter, par, levels>>

SortMst ==
    /\ pc = "mst" /\ j > Len(graph)
    /\ \E tie \in Ties : mst' = Sorted(mst, tie)
    /\ StartKruskal
    /\ par' = [v \in 0 .. n_label |-> 0]
    /\ levels' = [v \in 0 .. n_label |-> 0]
    /\ pc' = "tree"
    /\ UNCHANGED <<labelling, output, flooding, graph, diameter>>

(* waterfall_bpt_visitor::on_union, whose edges always merge two sets. *)
UnionOfTree ==
    /\ pc = "tree"
    /\ Kruskal(mst)
    /\ Rp(mst[j]) # Rq(mst[j])
    /\ LET node == Size(par)
           rp == Rp(mst[j])
           rq == Rq(mst[j])
       IN  /\ par' = [Push(par, node) EXCEPT ![roots[rp]] = node, ![roots[rq]] = node]
           /\ levels' = Push(levels, mst[j].w)
           /\ roots' = [roots EXCEPT ![rp] = node, ![rq] = node]
    /\ UNCHANGED <<mst, diameter>>

(* The output is the node map. *)
Return ==
    /\ pc = "tree" /\ j > Len(mst)
    /\ LET parents == ReversedParents(par)
           values  == ReversedLevels(levels)
           to      == Translation(parents, values)
       IN  /\ par' = CanonizedParents(parents, values)
           /\ levels' = CanonizedLevels(parents, values)
           /\ output' = [x \in Point |-> to[Size(par) - 1 - output[x]]]
    /\ pc' = "return"
    /\ UNCHANGED <<labelling, flooding, graph, mst, j, zpar, roots, diameter>>

WaterfallNext ==
    \/ LocalMinimaStep \/ BlobsStep
    \/ StartFlood \/ Flood
    \/ SortGraph \/ UnionOfMst \/ SkipOfMst
    \/ SortMst \/ UnionOfTree
    \/ Return

WaterfallSpec == WaterfallInit /\ [][WaterfallNext]_wvars

-----------------------------------------------------------------------------
BlobsAreComponents == B!BlobsAreComponents

(***************************************************************************)
(* When the regions grow from the minima, two pixels are linked by a path  *)
(* that stays at or below a level iff their regions are linked by edges of *)
(* the graph of at most this weight: the graph keeps the passes of the     *)
(* image, though the flooding enters a region at any level and meets the   *)
(* points of a border in any order.  (There is no label at all if the      *)
(* image of the markers is empty.)                                         *)
(***************************************************************************)
GraphKeepsPasses ==
    pc = "mst" /\ j = 1 /\ seeds = Unmarked /\ n_label # 0 =>
        \E adj \in {Adjacent} : \A l \in Q!Level :
          \E low \in {{x \in Point : f[x] <= l}},
             linked \in {UNION {{<<graph[e].p, graph[e].q>>, <<graph[e].q, graph[e].p>>} :
                                   e \in {d \in DOMAIN graph : graph[d].w <= l}}} :
          \A x \in low :
            \E zone \in {Component(low, x, adj)}, regions \in {Component(1 .. n_label, output[x], linked)} :
              \A y \in low : y \in zone <=> output[y] \in regions

(***************************************************************************)
(* The regions after n iterations of the waterfall, which is defined as    *)
(* Boruvka's algorithm is: at once, every region merges with the one on    *)
(* the other side of the first edge that leaves it.                        *)
(***************************************************************************)
WaterfallOf(n) ==
    LET leaving(region) == {e \in DOMAIN graph : (graph[e].p \in region) # (graph[e].q \in region)}
        ends(e) == {<<graph[e].p, graph[e].q>>, <<graph[e].q, graph[e].p>>}
        taken[m \in 0 .. n] ==
            IF m = 0 THEN {}
            ELSE UNION {UNION {before \cup ends(Min(leaving(region))) :
                                   region \in {r \in {Component(1 .. n_label, v, before) : v \in 1 .. n_label} :
                                                   leaving(r) # {}}} \cup before :
                            before \in {taken[m - 1]}}
    IN  taken[n]

(***************************************************************************)
(* The cut of the tree that is returned, at level n, gives the regions of  *)
(* the image after n iterations of the waterfall, though a single run of   *)
(* Kruskal's algorithm finds the iteration at which each edge vanishes.    *)
(* The leaf of the label a is the a-th node from the end.                  *)
(***************************************************************************)
TreeIsWaterfall ==
    pc = "return" /\ n_label # 0 =>
        /\ {output[x] : x \in Point} = {Size(par) - a : a \in 1 .. n_label}
        /\ \A n \in 0 .. levels[0] + 1 :
             \E cut \in {CutNode(par, levels, n)}, merged \in {WaterfallOf(n)} :
               \A a \in 1 .. n_label : \E region \in {Component(1 .. n_label, a, merged)} :
                 \A b \in 1 .. n_label :
                   cut[Size(par) - a] = cut[Size(par) - b] <=> b \in region
=============================================================================
