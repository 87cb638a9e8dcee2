# Verification of the morphology core of pylene

pylene (Milena) is a C++ image-processing library. This directory holds TLA+ models of its
algorithmic core, the TLC configurations that check them on small images, queues, trees and
columns, and theorems proved with TLAPS. The reference is always the code under `src/`;
`PROJECT.json` maps each definition to the lines it stands for.

Contents: [inventory](#inventory) - [modules](#modules-and-their-correspondence-with-the-code) -
[runs](#runs-bounds-and-what-they-show) - [fairness](#fairness) - [proofs](#proofs) -
[findings](#findings) - [remarks](#remarks-on-the-code) -
[what is not modelled](#what-is-only-model-checked-and-what-is-not-modelled) - [plan](#plan).

## Inventory

`mln/` is header-mostly; `src/pylene/src` holds the non-template parts. Most of the library is
single-threaded and has no I/O, no persistence and no messages: the hard behaviours are *orders*.
Queues are shared by many levels, loops read what they are rewriting, recursion is unrolled into
`goto`s, and a state of one data structure has to mirror another. The tiled execution of filters is
the one place where the order of the steps is not the program's.

| component | state | operations | interacts with | what makes it correct |
|---|---|---|---|---|
| hierarchical queues (`morpho/private/{pqueue,hpqueue,hlinked_lists,hvector}.hpp`) | lists or buckets per level, a cached current level | push, pop, top, empty | depth-first canvas, watershed | FIFO inside a level, best level first; no list spliced into another, no bucket overrun; the cache is right |
| unbounded queues (`pset`, `hvector_unbounded`, `directional_hqueue`) | stacks per level, and per direction; a cached next element | insert, pop, closest level | tree of shapes, alpha-tree | the closest (or lightest) element comes next |
| depth-first canvas (`morpho/canvas/depthfirst.hpp`) | 8-bit status image, queue, current point, mask of scanned neighbours | flood, postpone, climb, done | calls the visitor; queue | each point once; a peak component is complete before anything below it |
| max-tree (`morpho/maxtree.hpp`, `maxtree.cpp`) | stack of roots, arrays of nodes, node map | `on_flood_start`, `on_done`, `on_flood_end`, renumbering | visitor of the canvas | the arrays are the max-tree; parents precede children |
| watershed (`morpho/watershed.hpp`) | output image with four kinds of value, queue | initial scan, flood, spread | queue; labels from minima or markers | lines separate basins; nothing forgotten; labels final |
| labeling (`labeling/{local_extrema,blobs}.hpp`) | union-find image and flags; stack of points | scans, labelling | feeds the watershed and the waterfall | labels are exactly the minima, or the components, as long as there is a label left |
| union-find / Kruskal canvases | parents, roots | make-set, union, merge | alpha-tree, waterfall | sorted merges build a binary tree |
| component tree (`morpho/component_tree.hpp`) | parent, values, node map | filters, depth, attributes | built by max-tree, alpha-tree, tree of shapes | a filter run in place equals the filter on a copy |
| alpha-tree, watershed hierarchy (`morpho/{alphatree,watershed_hierarchy}.hpp`) | edges in a queue or a vector, flat zones, sets of leaves, arrays of nodes | sort, merge, reverse, canonise, weigh again | directional queue, union-find | the hierarchy of the quasi-flat zones; regions deep enough for their level |
| waterfall (`morpho/waterfall.hpp`, `.cpp`) | regions, their graph, diameters, two forests | flood, Kruskal twice | labeling, Kruskal | each merge at the iteration at which its pass vanishes |
| tree of shapes (`tos.hpp`, `private/{immersion,propagation}.hpp`, `mtos.hpp`, `trees_fusion.cpp`, `satmaxtree.cpp`) | interval image, queue, order; graph of shapes | immersion, propagation, fusion, depths, saturation | unbounded queues, max-tree | each face once; its depth is its number of shapes, or the longest chain of them |
| tiled execution (`core/parallel_local.cpp`, `morpho/filters2d.cpp`) | ranges of tasks, tiles under way, two buffers per task | split, load, filter, write | thread pool, 2D dilation | tiles partition the output; inputs cover what is read |
| running maximum, structuring elements (`running_max_1d.hpp`, `block_running_max.cpp`, `traverse2d.cpp`, `se/*`) | line buffers, offsets that enter and leave | two passes by chunks, traversal by lines, decomposition | dilations | equals the supremum over the whole element |
| segment detection (`scribo/segdet`) | buckets of trackers, observations, segments | predict, match, select, fuse, end | - | no tracker lost or duplicated, which trackers are missed, which observations are lost |
| other filters, accumulators, images and ranges, I/O, bindings, apps | - | - | - | thin compositions, values or pure I/O |

The hazards, each at the line where it bites and with the properties that would catch it, are listed
under `hazards` in `PROJECT.json`. Each one has a property.

## Modules and their correspondence with the code

```
PriorityFifo <--refines-- HPQueue              PeakFlood <--refines-- DepthFirst <-- MaxTree
   ^      ^                                                                            :
Watershed  \                                   ComponentTree (filters such arrays) . . :
   :        \                                                                          : Saturated
LocalMinima + Blobs --> Waterfall --> MergeTree      TreeOfShapes <-- MultivariateShapes
   |                        |            ^
UnionFind <-----------------+-------  AlphaTree --> DirectionalQueue, WatershedAttributes

TiledDilation --> LocalMaximum --> StructuringElements          LineTracking
Grid, Connectivity: vocabulary; MC*: values of the constants; *Proofs, DataLemmas: theorems
```

* **Grid, Connectivity** - the domain of a 2D image, the scan order, `c4`/`c8` in the order the code
  enumerates them, and connected components. A neighbour outside the domain is a pixel of the
  *extension*, which the algorithms do read.
* **PeakFlood** - what the depth-first canvas promises. **DepthFirst** - `canvas::impl::depthfirst`
  with `hvectors`. The label `flood`, the scan loop and `done` with its three exits are actions:
  `Flood`, `Skip`, `Postpone`, `Climb`, `DoneSameLevel`, `DoneOtherLevel`, `DoneLast`. `ToStatus` is
  the conversion to `uint8_t`. `on_flood_end` returns a free boolean, so that every visitor is
  covered. `cnt` is a history variable, the calls of `on_done`.
* **MaxTree** - the visitor composed with the actions of DepthFirst, then `permute_parent`
  (`Renumber`, one action per iteration) and the permutation of the arrays (`Reorder`).
* **PriorityFifo** - a queue: FIFO in a level, best level first. **HPQueue** - `hpqueue` over
  `hlinked_lists`: the levels thread one image `link` that is never reset; `Garbage` is the value of
  a link that was never written. `queue` is a history variable there; the refinement does not use it: its
  lists are `ListOf`, what following the links from `head` gives.
* **Watershed** - both implementations (`waterline` chooses), and the entry from markers, over
  PriorityFifo. Actions: the initial scan, the flooding, the loop over the neighbours.
* **UnionFind** - `zfindroot` with its compression. **LocalMinima** - the two scans of
  `labeling::impl::local_minima`, one action per neighbour. **Blobs** - `labeling::impl::blobs` with
  its stack and the test on the last label.
* **Waterfall** - from either labeling: the flooding of `watershed_rag` with `add_edge`, the sort of
  the graph (equal edges in two orders), `kruskal` with its first visitor (diameters) and its second
  one (the tree). One action per pixel that leaves the queue and per edge.
* **DirectionalQueue** - the container of edges with its cached direction and level, as operators on
  a record. **MergeTree** - the reversal and the canonisation of the arrays, and cuts.
  **WatershedAttributes** - attributes by height and by dynamics, and the weight they give an edge.
  **AlphaTree** - `alphatree` with both containers and `watershed_hierarchy` with both attributes:
  one action per pixel while the edges are computed, per edge while the flat zones, then the sets,
  merge (`SkipEdge`, `ReuseNode`, `CreateNode`), and the returns.
* **TreeOfShapes** - the immersion (the intervals of the faces), `propagation` with `pset`, one action
  per face, and the tree of the depths it writes. **MultivariateShapes** - on the result for
  three channels: the graph of shapes (`compute_inclusion_graph` and its smallest enclosing shapes),
  its reduction, its topological order by an explicit stack, the depth map and `satmaxtree`.
* **ComponentTree** - `filter_impl` under its four strategies with the update of the node map, and
  `filter_direct_T`. One action per iteration: the loops read the arrays they rewrite.
* **StructuringElements** - boxes, rectangles, lines and discs, the regions they need or give, their
  decompositions. **LocalMaximum** - the running maximum by chunks, the lines of a region along a
  direction, the incremental accumulation of a disc. A value is the set of the sources it
  comes from, so that the supremum is a union and no value can hide another.
  **TiledDilation** - `dilation2d` over `parallel_local`: `Split` (a range is cut, and the chain of filters
  cloned), `Load`, `Execute` (one filter), `WriteTile`, by any task in any order, or the loop in sequence.
* **LineTracking** - the traversal of `segdet`: `NextColumn` (predict, extract, fill the buckets),
  `Match` (one observation), `Release`, the selection (`StopSteep`, `Integrate` with the fusions,
  `Continue`, `Stop`), `EndColumn`, `FinishTraversal`. `column` is a history variable, what happened to
  each observation of the column.

Abstractions: levels are `0 .. MaxLevel`; images are functions; loops whose iterations commute (a
final sweep, a permutation of arrays, the update of a node map) are one step. The predictors of
`segdet` (averages and Kalman filters over floats) are a position, a slope and a thickness to half a pixel, corrected at
each integration by gains taken from a set (the gains of a Kalman filter change with its covariance). `KALMAN` moves its own
position at each prediction, integrated or not; the others start again from what they integrated.
Deviations are constants, luminosity is left out, and whether a tracker that is long enough is too steep is a free choice. The thread pool of TBB is
external: its range is split as `blocked_range2d` documents, and its tasks run in any order.

An operator written next to another with a comment "Mutant" is a plausible wrong version of it; it
is used to confirm that the properties can fail.

## Runs, bounds, and what they show

| run | instance | states | shows |
|---|---|---|---|
| `hpqueue` | 4 points, 3 levels, any push of a point that does not wait, any pop | 96,394 | `Represents`: every list is exactly its contents in the shared links. `TopIsRight`: the cache answers for the whole queue. `ImplementsFifo`: refinement, the lists being read from the pointers |
| `depthfirst` | 3x2, `c4`, all the images of 3 levels, every visitor | 45,704 | `CurrentIsTop`, `BucketsNeverOverflow`, `DoneOnce`, `ImplementsPeakFlood`, `Termination` |
| `maxtree` | 3x2, `c4`, all the images of 3 levels | 30,226 | `RootsMirrorRecursion`, `IsMaxTree` (against the definition by connected components of upper sets), `ParentsFirst`, `TreeReturned` |
| `maxtree_c8` | one 5x5 image, `c8` | - | a violation of `DoneOnce`, see findings |
| `watershed` | 3x3, `c4`, images of 3 levels; minima, and seeds on a slope | 94,680 | `Separation`, `NothingForgotten`, `LinesSeparate`, `BasinsAreRegions`, `LabelsAreFinal`, `WaterRises`, `Termination` |
| `waterfall` | 5x3, `c4`: checkerboards of minima, ledges; no marker, slopes with markers; 7 labels at most | 157,260 | `LabelsAreMinima`, `BlobsAreComponents`, `GraphKeepsPasses`, `TreeIsWaterfall` |
| `hierarchy` | 3x3, `c4`, values 0, 1 and 3; both containers, both attributes | 262,440 | `LightestEdgeFirst`, `NodesMirrorSets`, `IsAlphaTree`, `RegionsAreDeep` |
| `shapes` | crosses in 3x3, all 3x2 images of 2 values, colour images of 3x1, 2x2 and 4x3 | 137,074 | `FrontIsSound`, `DepthsAreShapes`, `DepthMapIsLongestChain`, `TreeIsSaturated` |
| `filter` | every tree of up to 5 nodes, 3 patterns of values modulo 4, every predicate, every strategy | 181,200 | `ParentsAreKept`, `ValuesAreKept`, `PointsAreKept` |
| `filter_values` | trees of up to 3 nodes | - | a violation, see findings |
| `tiles` | nine dilations (`MCTiledDilation`), in sequence and in parallel | 1,643 | `TilesAreExclusive`, `RegionsFit`, `DilationIsExact` |
| `segdet` | 6 columns of 9 pixels among 4; a Kalman filter over binary runs, a predictor without slope over a gradient | 253,657 | `OnlyStrayedAreMissed`: a tracker that is missed predicts more than a bucket away from its last value. `LostObservationsAreOutbid`: an observation is lost only when all of the several trackers found for it hold nearer ones. `TrackersAreConserved` |

The reference definitions are independent of the algorithms: a max-tree or an alpha-tree is
compared with connected components of level sets or of light edges at every level; a pass
(`GraphKeepsPasses`) is the lowest edge between two regions; the waterfall is
computed by merging each region with its nearest neighbour, iteration after iteration; the depth of a
face is the number of its shapes, or the longest chain in the inclusion of the shapes of three
channels; a dilation is the union over the whole element, not over its decomposition.

Why the bounds are enough to be interesting:

* Three levels are the least where a level is left for a higher one, resumed, and skipped. In the
  values 0, 1, 3 of `hierarchy` a weight (2) may come from two different pairs of values.
* In a 3x2 image a point is postponed, climbed from and resumed with a partial mask, and two
  components of a level meet under a third one. In 3x3 there is an inner pixel, flat zones meet
  around a hole, two basins meet along a line, and a pixel can be enclosed by lines.
* The boards of `waterfall` have up to eight minima, hence merges of merged regions at several
  iterations; a marker image has as many components as there are labels, or one more. The ledges
  are flat zones whose first pixel, or of whose two parts one, shows no lower neighbour.
* The crosses of `shapes` have shapes within shapes, holes, and saddles. At a saddle the immersion joins both
  diagonals, so that `DepthsAreShapes` is stated of the images without one (`WellComposed`); the
  other properties are stated of all.
* The points of `hpqueue` are symmetric. It pushes a point again after it was popped: links are stale by then.
* In a tree of five nodes a chain of three removed nodes separates a node from its kept ancestor.
  Values modulo 4 wrap in the subtractive filter.
* The tiles do not divide the images: the last ones are cut. Lines are longer than an image and than
  a tile, a disc is larger than its image; one image is larger than its output, so that nothing is padded.
* The columns of `segdet` have two thin runs, a thin and a thick one, and two wider objects, one of which
  reaches `MaxThickness`: lines move apart and meet, trackers share observations, exchange them, are fused, pass under
  the object, stray from their bucket of one pixel, and end. `MinNbValuesSigma` is small enough for the test on the ratio of thicknesses.
* `CHECK_DEADLOCK FALSE` is said of the algorithms, which stop; the queue never does.

## Fairness

Liveness is checked of the sequential algorithms of `depthfirst`, `maxtree` and `watershed`: one
thread executes them and nothing else can be scheduled in its place. Weak fairness of the whole
next-state relation says that the processor keeps executing. No fairness is assumed of single
actions. The other specifications state none and check safety: the queue is driven by its clients,
the tasks of the tiled dilation by a scheduler outside of this library, and the others are loops over
finite arrays.

## Proofs

Checked by TLAPS for any value of the constants: any finite set of points, neighbourhood, number of
levels, set of images, visitor, box, tile and bucket.

*MaxTreeProofs, the canvas.* `CanvasInv` is `TypeOK`, `CurrentIsTop`, and two facts about the queue: no bucket
is read past its end, and every bucket above the cached level is empty. `CurrentIsTop` alone is not
inductive: a point that is climbed to is the top only because nothing waits higher. From it:
`TypeCorrect`, `PopsTheCurrentPoint`, `ResumedFromAbove`.

Second part, under the hypothesis `NbhFitsStatus`: fewer than 8 neighbours (false of `c8`, and
`maxtree_c8` shows that the theorem is then false). `OnceInv` adds to `CanvasInv`: the marked points
are those that were pushed, once each and at their own level, and the points that are done are the
prefixes the buckets have consumed. From it `EachPointOnce` and, by counting, `BucketsFit`. `ScanInv`
adds what the mask means; with it each step maps to a step of PeakFlood or a stutter:
`CanvasFloodsPeaks`. `PeaksFirst` derives from the refinement the order the test asserts.

*MaxTreeProofs, the visitor.* `RootsMirrorRecursion` is not inductive: it does not say that a component is
entered above those of the stack (`EntersAbove`), nor that the entries are levels and nodes. With these, and
with `CanvasInv` for the queue, it is kept by every step. The key lemma is `PopKeepsWaiting`: a pop
empties no bucket but the current one and goes down to the first that holds points, so that the level
that is resumed is the next one of the stack or lies strictly between the two. No hypothesis on the
neighbourhood is needed: the assertions of the visitor hold with 8 neighbours too.

`TreeIsOrdered` is `ParentsFirst`. `TreeOK`: the arrays have the same length, the parent of a node
that is not on the stack is a node of a strictly lower level, and only one node has none. `NumberInv`:
the nodes numbered so far are closed upwards, have the numbers `0 .. n - 1`, once each, and a parent
has a smaller number than its children. The branch from the next node is finite because its levels
decrease (`WayUpIs`), and is numbered backwards above the numbers in use (`BranchIsNumbered`).

`ResultIsMaxTree` is `IsMaxTree`, for fewer than 8 neighbours (beyond, a point is done twice), a
symmetric neighbourhood and a connected domain. Each node has the set of points of its subtree so far
(`Growing`). The subtrees on the stack share the points that are done. A closed one is connected, has a point of its
own level, and is surrounded by points that are not higher than its parent: it is a peak component. That a subtree
is connected when it is closed is the difficulty, since it grows from several points that only
meet in the queue; what is inductive is `ReachOK`: above any level of the stack, what was reached
without going below it, finished or waiting, is connected, and nothing waits above the level that is
closed. The final renumbering is a permutation of the nodes, which moves no point to another set (`TreeIsRenamed`).

*WatershedProofs.* `WSInv` is inductive for both floodings, from any markers that agree where they
touch, which is what `LabelsAreMinima` gives for the minima. `QueueMarked` ties the marks to the queue
and says that a waiting pixel touches a basin; `LinesOK` gives a pixel of a line two different labels
around it; `NoneForgotten` says, in the middle of a loop over neighbours, that an unlabelled pixel can
only touch the pixel being expanded and is still to come in the loop. From it: types, `Separation`, `PixelsWaitOnce`
(with and without waterlines), `QueueIsMarked`, `NothingForgotten`, `LinesSeparate` and the action property `LabelsAreFinal`.
`BasinsAreRegions`: every labelled pixel is connected, within its basin, to a pixel of the marker of
that label; a pixel is only labelled next to one that is, so that the path is one longer.
`WaterRises`: the level of the flood does not decrease. It needs the immersion: a pixel waits at the level
of its value or at the current one, whichever is higher, and nothing waits below the current level.

*WatershedProofs, the queue* (its last part). `HPInv`: types, `Represents`, `Distinct` (a point waits once), and `CurrentOK` (no
level before the cached one holds a point, and the cache is at the bottom when its own level is
empty). The hard case is `push_back`, which writes a link of the shared image: it is sound only
because the tail of one list is in no other list. From it `HPTypeCorrect`, `ListsAreIntact`,
`TopIsCorrect`, and the refinement `ImplementsPromise`.

*WaterfallProofs.* The labels the waterfall and the watershed start from, and the graph it builds. `MinimaInv`: during the scan of
`local_minima`, `parent` is a forest over the points that are scanned whose roots come first in the scan
(`IsForest`, so that `zfindroot` stops and its compression changes no root: `RootIsFound`); its trees are the
zones that the flat pairs met so far make (`Zones`, a partition each class of which is the least set they do
not leave); the flag of a root is 0 iff a pair met so far goes down from its zone. The flag of another point
may be stale, in one direction only: it may say that a minimum is possible when it is not, which is why the
second scan asks the root. `LocalMinimaCorrect` and `MinimaLabelled` are `LabelsAreMinima`.
`BlobsInv`: two points with the same label are in every set of foreground points that contains one and that no
adjacency leaves, and only the points of the stack may have neighbours without a label (`BlobsOK`). When the
stack is empty each label is thus a component; one more point without a label gives one more component than there are
labels (`TooManyComponents`), so that the exception is never raised early. `BlobsLabelled` is `BlobsAreComponents`.
`GraphInv` is about the flooding from the minima (`FloodOK`). Points leave the queue at a level below which nothing
waits, and every labelled point that has an unlabelled neighbour waits (`FrontIs`), so that an unlabelled point is at
least as high as the front (`UnlabelledIsHigh`). When a point leaves the queue its neighbours have labels, hence:
two neighbours of two regions, one of which left the queue, have an edge of at most the higher of their values, and every edge has the weight of two
such neighbours (`EdgesArePasses`); the part of a region at or below any level is connected, with no detour above it
(`RegionsAreDeep`); every set of points that is closed downwards meets a label
(`BasinsAreLabelled`). When the queue is empty every point is labelled (`FloodEnds`), and a path of the image at or below
a level, which crosses borders, and a path of edges of the graph, which climbs out of a basin and down into the next,
give each other (`PassesAreKept`). The sort and the flattening of the graph keep the set of its edges, for
both orders of equal edges (`SortedIs`, `FlattenedGraphIs`). `PassesKept` is `GraphKeepsPasses`.

*AlphaTreeProofs, the edges.* `EdgesInv`: either container holds exactly the edges of the graph of the pixels the
scan has met, the vector is sorted once the scan is over, and in the directional queue (`QueueOK`) the size is the
number of edges in the lists, the cached list is not empty and every list of a lower level is (`CacheIsRight`). What is left is hence never lighter than what comes next:
`LightestEdgeComesFirst` is `LightestEdgeFirst`, for both containers.

*AlphaTreeProofs, the merges.* Neither forest is ordered: a merge links two roots in either direction, so that
`IsForest` asks only for *some* depth that decreases along the links, which is what makes the roots exist and
compression harmless. `IsHierarchy` is what `NodesMirrorSets` needs of the nodes: the levels of the array do not
decrease, the roots of the nodes are the `links` of the roots of the sets, and the node that `links` gives to the set
of a zone is the top of the branch of that zone. `Separates(reg, G, H)` is the bridge to the image: the ends of an edge of `G` are in the same region, and two points
of the same region are in the same sets of those that no edge of `H` leaves. Each cut of the tree separates the points at least as
the edges of its level that were popped ask and at most as the edges of its level in the graph allow (`RegionsAre`): the two agree
once no edge is left. An edge whose
ends have the same root changes neither side; a merge joins two regions of the top cut and no region of a lower one
(`MergedCut`), whether it makes a node or, with `canonize_tree`, reuses one of the level of the edge.
`NodesAlwaysMirrorSets` is `NodesMirrorSets`.

*AlphaTreeProofs, the result.* There is one root because the domain is in one piece (`ConnectedAssumption`). The
canonisation keeps one node for a parent of the same level; the translation it makes sends a node to the one that
keeps its set (`TranslationIs`), parents come first and strictly above (`CanonizedIsOrdered`), and every cut has
the same regions as before (`CutsAreKept`). `TreeIsAlways` is `IsAlphaTree`.

*ComponentTreeProofs.* `FilterInvariant`, for any tree whose parents precede their nodes, any values,
predicate and strategy. The passes are in place, so that it says at each iteration what is already
rewritten, against the recursive definitions of the strategies: the nodes before the current one in a
pass from the root, those after it in the pass of MAX, which accumulates from the leaves. From it `ParentsAreKept`, `ValuesAreKept`
and `PointsAreKept`.

*ComponentTreeProofs, the front of the tree of shapes.* `FrontInv`: a face waits once, at a level of its own interval;
every waiting face is marked, or only the start waits, which is pushed without a mark; the depths that are given are those
of levels of the intervals; the face that is visited is at the level of the front, waits nowhere and has no depth yet. The mark in `ord` is what
makes the lists sound: without it a face would be pushed once by each of its neighbours. `FrontIsAlwaysSound` is `FrontIsSound`, for any boxes, neighbourhood and images.

*ComponentTreeProofs, the graph of shapes.* The invariant follows `mtos` stage by stage. The trees of the channels are
trees whose parents come first, with a face of its own for each node (`IsTree`), so that their regions are nested or
disjoint (`RegionsOK`). The smallest enclosing shape of a node in another tree is the least region that includes its own
(`SesOK`); the vertices are the shapes, equal ones once (`VerticesOf`). The reduced graph has only strict inclusions for edges, and leads from
a shape to each one it includes (`GraphIs`), which is what makes the reduction harmless. In the topological sort an open vertex
has above it in the stack only shapes it includes, among which all its successors that are not sorted yet (`TopoIs`).
The depths are those of the chains among the shapes that were relaxed (`DeepIs`), and at the end those of the longest chains (`LongestIs`).
`DepthsAreLongestChains` is `DepthMapIsLongestChain`.

*TiledDilationProofs.* `TasksInv`: the boxes of two tasks are separated by a vertical or a horizontal
line (`Apart`), each is a non-empty box of the output, and in parallel the name of a chain has the
top left of the box its task works on, which is why two tasks never have the same buffers. A range
that is divisible is cut into two boxes that are not empty, since the side that is cut is two pixels
long at least (`HalvesOfARange`, which needs products of unknown sizes). From it
`TilesAreApart`: `TilesAreExclusive` for any output, tile size and interleaving.
`RunningMaxIsWindow`: the two passes by chunks give exactly the supremum of the window, when the last chunk is partial too.
`FilterIs`: a filter, by lines or by a disc traversed with the offsets that enter and leave, writes at each
pixel of its output the union of what is loaded over its window. The lines of a decomposition reach
together as far as the element, so that what each filter still needs around the tile fits in the two
buffers: `WorkInv`, from which `RegionsFitInBuffers` is `RegionsFit`. `ImageInv` adds the contents: after the k-th
filter the buffer holds at each pixel of its region the dilation of the image by the first k windows, and a pixel of
the output is exact or still belongs to a task. The offsets of the windows add up to exactly the
element, hence `OutputIsDilation`, that is `DilationIsExact`, in parallel and in sequence.

*LineTrackingProofs.* `WindowCovers`: for every size of the buckets and reach, the bucket
of a tracker that accepts an observation is among those that are visited, unless the tracker strayed (its prediction is more
than a bucket away from its last value): it is why one more bucket is visited on either side. Nothing is assumed of the
predictors, which do stray. `TrackingInvariant` is the inductive invariant of the traversal, for any columns
and thresholds, in five parts: the types (`TypeOK`); which containers are used in which phase (`PhaseOK`); each
tracker in the buckets is in the one of its last position (`BucketsOK`, what `WindowCovers` asks of a tracker); each name that
was given and is not ended is counted once over the buckets, the trackers still to be selected, those that are kept and those
that begin (`NamesOK`); a tracker that was missed had strayed. Trackers are moved by folds, concatenations, partitions and
a swap with the last one, so that the argument is by counting: `Occ(s, T)` is the number of cells of `s` in `T`, and each
of these operations has a lemma that says what it does to the count of any set of trackers (`InsertedHolds`, `OthersAre`,
`WithoutCounts`, `FusedKeeps`). The same counts, of the trackers that would be found and of
those of a name, give the three properties: `OnlyStrayedEscape` is `OnlyStrayedAreMissed`, `NoTrackerIsLost` is
`TrackersAreConserved`, and `OnlyOutbidAreLost` is `LostObservationsAreOutbid`. The last needs two more invariants. `ObservationsOK`: an
observation that at most one tracker accepted is carried by a tracker that was found for it alone, or begins one, since a tracker
that gives it up starts another. `NearestOK`: a tracker that was found for an observation holds one that is not farther, now
and after each later observation of the column, since a tracker only exchanges its observation for a nearer one. The selection of the trackers that begin is written by ranks (`Selected`), since no prover knows
a `SelectSeq` whose test is an operator.

*DataLemmas* - what the other modules need of data: products, quotients, remainders and extrema the provers do not compare
by themselves; induction over the naturals as a statement about a set (`SetOfAllNaturals`, since the
library's induction takes an operator), recursion by course of values, ranks in a finite order; the front of a sequence; the existence of iterates and of recursive functions; sums over finite sets; counts over sequences, what concatenations, flattenings, selections and a
swap with the last element do to them; the
component of a point as the least set that is closed under adjacency (`ComponentIs`).

Assumptions on constants (`DepthFirstAssumption`, `PriorityFifoAssumption`, `MarkersAssumption`,
`TreesAssumption`, `TiledDilationAssumption`, `LineTrackingAssumption`...): the domain is finite, the neighbourhood maps the domain into the domain
and its border and is irreflexive (for the watershed also symmetric), images take their values in the
levels, markers agree where they touch, a tree has a natural number of nodes and parents before
children, outputs and tiles are not empty, an element is a rectangle, a disc or a line, with its
decomposition if it has one (`IsElement`), a bucket is not larger than a column, a column is a sequence
of runs with natural positions, a gain is at most the whole difference, the thresholds of the reach, of the thickness and of the fusion are natural. For the labelings
(`LocalMinimaAssumption`, `WaterfallAssumption`): the scan meets every point, the neighbours that
`nbh.before` yields are points it has met, the levels of an image are weakly ordered by `cmp`, the neighbourhood
of the flooding and of `blobs` is that of `local_minima`, in both directions; the levels are the naturals up to `MaxLevel`, compared by `<`
(`watershed_rag` passes `std::less`). For the alpha-tree (`AlphaTreeAssumption`, `ConnectedAssumption`): the scan meets
every pixel, the distance is symmetric and, between neighbours, one of the levels, and the domain is not empty and in one
piece, as the box of an image is. For the tree of shapes (`TosAssumption`, `MtosAssumption`): the images are boxes from the origin
with values in the levels, the start is a face, the neighbours of a face are distinct, are not the face itself and link all the
faces, and there are one or three channels. The proofs cite no other assumption.

## Findings

1. **`maxtree_c8` (bug).** `depthfirst.hpp:96` stores the mask of scanned neighbours, an `int`, in a
   `uint8_t` pixel. With 8 neighbours the mark of the last one is 256 and may be stored as 0 = NONE: a
   queued point looks new and is done twice. The repository's test, which expects one call per point,
   runs with `c4` only.
2. **`filter_values` (bug).** `component_tree.hpp:329` calls the predicate again, after the values were
   rewritten. With DIRECT, a removed node has the value of a kept one, so a predicate over values holds
   of it and its points are left on a removed node, where the documentation promises valid nodes.

## Remarks on the code

Met while modelling; no run reports them as violations.

* `component_tree.hpp:58-59,64`: the formula of the strategy MIN is a disjunction over the ancestors; the
  code (`:306`), like the prose above it, uses the conjunction. The formula of MAX has the dual exchange.
* `segdet`: `process.cpp:97-104` visits the buckets around an observation and one more on each side, while a tracker
  stays in the bucket of the last value it integrated (`tracker.cpp:50`). The default predictor moves its state in every
  column (`kalman.cpp:36`), also while the tracker passes under another object. After a long enough pass it accepts the
  observation where the line comes out and is not found, though the comment of `find_match` (`process.cpp:87`) says that it
  computes the trackers that accept; a new tracker starts and the line is cut. With the default bucket of 32 pixels it takes
  an object of about 110 pixels over a line of slope 0.8 or 1. The run `segdet` reaches such misses, and
  `OnlyStrayedAreMissed` says that there are no others.
* `segdet`: `match_count` is decremented on a copy (`process.cpp:305-309`), so that an observation that two
  trackers or more give up is lost; `LostObservationsAreOutbid` says that it is the only way to lose one. `same_observation` keeps the product `id * t` (`tracker_impl.cpp:164`), so that the
  first observation of every column has the name 0, though the comment of `process.cpp:118-123` speaks
  of identical observations.
* `waterfall.hpp:197` tests `output.border() < nbh.radial_extent()` to take the branch that reads the
  border as it is; the model has the two branches give the same result.
* `waterfall_from_markers` with an empty image of markers makes a graph of no region and leaves the image
  unlabelled; the proof of `PassesKept` failed without the condition `n_label # 0`, which `GraphKeepsPasses` and
  `TreeIsWaterfall` now state, and the run has that image.
* `trees_fusion.cpp:104-105,126` index with a constant 3: they are right for three trees only. `mtos`
  uses the start point in the doubled grid, while its documentation asks for a point of the domain.
* The empty image is excluded from `AlphaTree` (`ConnectedAssumption`): the last index `n - 1` wraps in `reorder`. The start value `numeric_limits::min()`
  of a maximum is positive for floats; the model has integers.
* `localmax.hpp:85-90` does not update the input region between the lines of a decomposition, but is
  not reached for the 2D boxes that are modelled.

## What is only model-checked, and what is not modelled

Only model-checked:

* liveness, which is out of the prover's reach;
* `TreeIsWaterfall` and `RegionsAreDeep`: the passes of the waterfall and the attributes of the watershed hierarchy are
  folds over the tree of the merges (MergeTree, WatershedAttributes), about which each proof would need an
  induction over the order of the merges; the graph the first starts from and the edges the second pops are proved
  (`PassesKept`, `LightestEdgeComesFirst`);
* `DepthsAreShapes`: that the level at which the front meets a face counts the shapes around it rests on the topology of the plane
  (the border of a shape and its holes), not on the code;
* `TreeIsSaturated`: that a face of a child touches its parent and that holes are filled is topology of the plane too.

Not modelled:

* types, views, ranges and storage of images, `ndbuffer_image`, the border management: a compile-time or
  layout layer without an interleaving or an order to check. It is the largest part of the lines of the
  library; what the algorithms see of it (domain, boxes, order, neighbours, extension, padding) is in
  Grid and StructuringElements;
* accumulators (folds of values), conversions of colours, I/O and bindings;
* the pointwise parallel canvas, whose tasks neither overlap nor have buffers;
* `push_front`/`pop_back` of the FIFO queues (no client), the trie, queues for wide value types;
* other neighbourhoods and 3D domains (the proofs cover any neighbourhood; TLC sees `c4`, and `c8` in
  one run), octagons, masks and dynamic structuring elements;
* the numerical parts of `segdet` (the covariance of the filters, deviations, gradients), the drawing of labels and the
  merge of the segments of the two directions;
* the applications under `src/apps` and the benchmarks, clients of the library that combine its
  operations over real images; allocation failure.

## Plan

Done, in this order: the queue, the canvas and its abstract flooding, the max-tree, the watershed, the
minima it starts from, the filters; then the alpha-tree and the watershed hierarchies, the tree of
shapes and its multivariate version, the tiled dilation with its filters, the labeling of blobs and
the waterfall, the traversal of `segdet`; the proofs about the queue, the canvas, the max-tree, the
watershed, the labels of the minima and of the blobs, the graph of the waterfall, the alpha-tree, the filters of a component tree, the front of the tree of shapes and
its graph of shapes, the tiled dilation and the trackers of `segdet`.

Next:

1. Theorems: the tree of the waterfall and the depths of the watershed hierarchy.
2. Component tree: horizontal cuts and the saliency map over the arrays that are filtered.
3. The chamfer distance and the union-find canvas over an image, with Connectivity as the reference.
4. `segdet`: labels and the merge of the segments found in the two directions.
