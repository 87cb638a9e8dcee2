--------------------------- MODULE TiledDilation ---------------------------
(***************************************************************************)
(* mln::morpho::details::dilation2d: a chain of filters runs tile by tile, *)
(* either over the tiles in order or by tasks that split the output region *)
(* (tbb::parallel_for with the simple partitioner), each of which has a    *)
(* clone of the chain, that is two buffers of its own.  The name of a      *)
(* chain is the region its task was created with.                          *)
(***************************************************************************)
EXTENDS LocalMaximum

CONSTANT Jobs \* records [in, out, tw, th, se, parallel]: the domains of the input
              \* and of the output image, the size of the tiles, the structuring
              \* element and whether the tiles run in parallel

(* The boxes that are not empty. *)
IsBox(b) ==
    /\ b = [x0 |-> b.x0, y0 |-> b.y0, x1 |-> b.x1, y1 |-> b.y1]
    /\ b.x0 \in Int /\ b.y0 \in Int /\ b.x1 \in Int /\ b.y1 \in Int
    /\ b.x0 < b.x1 /\ b.y0 < b.y1

(* The structuring elements: a line has a direction, which is downwards. *)
IsElement(se) ==
    \/ /\ se.kind = "line" /\ se.k \in Nat /\ se.delta \in Int \X Int
       /\ se.delta[2] > 0 \/ (se.delta[2] = 0 /\ se.delta[1] > 0)
    \/ se.kind = "rect" /\ se.h \in Nat /\ se.v \in Nat
    \/ se.kind = "disc" /\ se.radius \in Nat /\ se.exact \in BOOLEAN

ASSUME TiledDilationAssumption ==
    \A j \in Jobs : /\ IsBox(j.in) /\ IsBox(j.out) /\ IsElement(j.se)
                    /\ j.tw \in Nat \ {0} /\ j.th \in Nat \ {0} /\ j.parallel \in BOOLEAN

VARIABLES
    job,     \* the dilation that is asked for
    ranges,  \* the regions no task has begun to compute: [region, chain]
    running, \* the tiles under way: [tile, roi, chain, f], of which f filters ran
    buffers, \* the two buffers of each chain, whose points start from <<0, 0>>
    output   \* the output image

vars == <<job, ranges, running, buffers, output>>

STALE == {<<"stale">>} \* what a buffer holds before it is written
PAD   == {<<"pad">>}   \* the padding value
NONE  == {}            \* the output before it is written

Value(q) == IF Has(job.in, q) THEN {q} ELSE PAD

Filters == Decomposition(job.se)

(* The buffers of a chain are as large as the input region of a tile. *)
BufferAt(q) ==
    LET b == compute_input_region(job.se, Box(0, 0, job.tw, job.th))
    IN  Box(q[1], q[2], Width(b), Height(b))

NewBuffers == [b \in 0 .. 1 |-> [q \in PointsOf(BufferAt(<<0, 0>>)) |-> STALE]]

-----------------------------------------------------------------------------
(* execute_sequential: the tiles of the loops, cut at the end of the region. *)
SequentialTiles(roi, tw, th) ==
    LET MinOf(a, b) == IF a < b THEN a ELSE b
    IN  {Box(q[1], q[2], MinOf(tw, roi.x1 - q[1]), MinOf(th, roi.y1 - q[2])) :
            q \in {r \in PointsOf(roi) : (r[1] - roi.x0) % tw = 0 /\ (r[2] - roi.y0) % th = 0}}

(* The chain is that of the caller, or a clone of it. *)
TDInit ==
    /\ job \in Jobs
    /\ ranges = {[region |-> r, chain |-> job.out] :
                    r \in IF job.parallel THEN {job.out}
                          ELSE SequentialTiles(job.out, job.tw, job.th)}
    /\ running = {}
    /\ buffers = [c \in {job.out} |-> NewBuffers]
    /\ output = [q \in PointsOf(job.out) |-> NONE]

(***************************************************************************)
(* tbb::blocked_range2d: a range is divisible if one of its sides is       *)
(* larger than that of a tile; the side that is the larger one relatively  *)
(* to the tile is cut in the middle.                                       *)
(***************************************************************************)
IsDivisible(b) == Width(b) > job.tw \/ Height(b) > job.th

CutsColumns(b) == Height(b) * job.tw < Width(b) * job.th

MiddleX(b) == b.x0 + Width(b) \div 2
MiddleY(b) == b.y0 + Height(b) \div 2

LeftPart(b)  == IF CutsColumns(b) THEN [b EXCEPT !.x1 = MiddleX(b)] ELSE [b EXCEPT !.y1 = MiddleY(b)]
RightPart(b) == IF CutsColumns(b) THEN [b EXCEPT !.x0 = MiddleX(b)] ELSE [b EXCEPT !.y0 = MiddleY(b)]

(* Mutant: the task that splits off uses the buffers of the other one. *)
SharedChain(t) == t.chain

(* ParallelLocalCanvas2DImpl is copied for the task that splits off, and     *)
(* clones its delegate.                                                      *)
ClonedChain(t) == RightPart(t.region)

Split(t) ==
    /\ job.parallel /\ IsDivisible(t.region)
    /\ ranges' = (ranges \ {t}) \cup
                 {[t EXCEPT !.region = LeftPart(t.region)],
                  [region |-> RightPart(t.region), chain |-> ClonedChain(t)]}
    /\ buffers' = [c \in DOMAIN buffers \cup {ClonedChain(t)} |->
                      IF c \in DOMAIN buffers THEN buffers[c] ELSE NewBuffers]
    /\ UNCHANGED <<job, running, output>>

-----------------------------------------------------------------------------
(* In sequence, a tile begins when those before it are over. *)
IsNext(t) ==
    job.parallel \/ /\ running = {}
                    /\ \A u \in ranges : \/ t.region.y0 < u.region.y0
                                         \/ t.region.y0 = u.region.y0 /\ t.region.x0 <= u.region.x0

(* FilterChain::ComputeInputRegion: from the last filter to the first one. *)
ChainInputRegion(tile) ==
    LET region[f \in 0 .. Len(Filters)] ==
            IF f = Len(Filters) THEN tile ELSE compute_input_region(Filters[f + 1], region[f + 1])
    IN  region[0]

(* The top left of the buffers while they are used for a tile. *)
Origin(t) == TopLeft(ChainInputRegion(t.tile))

(* The buffer that holds the input of the next filter: the two are swapped. *)
Aux(t) == t.f % 2

(* A buffer in which the values of some points are written. *)
Written(buffer, origin, values) ==
    [q \in DOMAIN buffer |-> IF Plus(origin, q, 1) \in DOMAIN values THEN values[Plus(origin, q, 1)] ELSE buffer[q]]

(* ExecuteTile, as far as the loading of the input region: copy_pad. *)
Load(t) ==
    /\ ~(job.parallel /\ IsDivisible(t.region)) /\ IsNext(t)
    /\ \E roi \in {ChainInputRegion(t.region)} :
          /\ running' = running \cup {[tile |-> t.region, roi |-> roi, chain |-> t.chain, f |-> 0]}
          /\ buffers' = [buffers EXCEPT ![t.chain][0] =
                            Written(@, TopLeft(roi), [q \in PointsOf(roi) |-> Value(q)])]
    /\ ranges' = ranges \ {t}
    /\ UNCHANGED <<job, output>>

(* A vertical line is run in place, in the buffer of its input. *)
RunsInPlace(se) == se.kind = "line" /\ se.delta = <<0, 1>>

(* One filter of the chain: SimpleDilation2D::Execute. *)
Execute(t) ==
    /\ t.f < Len(Filters)
    /\ LET se     == Filters[t.f + 1]
           roi    == compute_output_region(se, t.roi)
           origin == Origin(t)
           in     == [q \in PointsOf(BufferAt(origin)) |->
                         buffers[t.chain][Aux(t)][Plus(q, origin, -1)]]
       IN  /\ \E values \in {Filtered(se, in, roi)} :
                 buffers' = [buffers EXCEPT
                     ![t.chain][1 - Aux(t)] = Written(@, origin, values),
                     ![t.chain][Aux(t)] = IF RunsInPlace(se) THEN Written(@, origin, values) ELSE @]
           /\ running' = (running \ {t}) \cup {[t EXCEPT !.roi = roi, !.f = @ + 1]}
    /\ UNCHANGED <<job, ranges, output>>

WriteTile(t) ==
    /\ t.f = Len(Filters)
    /\ output' = [q \in DOMAIN output |-> IF Has(t.roi, q) THEN buffers[t.chain][Aux(t)][Plus(q, Origin(t), -1)]
                                                          ELSE output[q]]
    /\ running' = running \ {t}
    /\ UNCHANGED <<job, ranges, buffers>>

TDNext ==
    \/ \E t \in ranges : Split(t) \/ Load(t)
    \/ \E t \in running : Execute(t) \/ WriteTile(t)

TDSpec == TDInit /\ [][TDNext]_vars

-----------------------------------------------------------------------------
(***************************************************************************)
(* No pixel of the output is computed by two tasks, whatever the way the   *)
(* region was split, and no two tasks have the same buffers.               *)
(***************************************************************************)
Regions == {t.region : t \in ranges} \cup {t.tile : t \in running}

TilesAreExclusive ==
    /\ \A b \in Regions : Includes(job.out, b)
    /\ \A t \in ranges : \A u \in ranges \ {t} :
          PointsOf(t.region) \cap PointsOf(u.region) = {} /\ (job.parallel => t.chain # u.chain)
    /\ \A t \in running : \A u \in running \ {t} :
          PointsOf(t.tile) \cap PointsOf(u.tile) = {} /\ t.chain # u.chain
    /\ \A t \in ranges, u \in running :
          PointsOf(t.region) \cap PointsOf(u.tile) = {} /\ (job.parallel => t.chain # u.chain)

(***************************************************************************)
(* A tile is computed from the region its structuring element asks for:    *)
(* the lines of a decomposition reach together as far as the element, so   *)
(* that the regions the filters work on fit in the buffers (clip throws if *)
(* they do not) and the last one is the tile.                              *)
(***************************************************************************)
RegionsFit ==
    \A t \in running : /\ Includes(BufferAt(Origin(t)), t.roi)
                       /\ t.f = 0 => t.roi = compute_input_region(job.se, t.tile)
                       /\ t.f = Len(Filters) => t.roi = t.tile

(***************************************************************************)
(* The output is the dilation by the whole structuring element: a pixel is *)
(* not written, or has the supremum of its window, and every pixel has it  *)
(* when all the tasks are over.                                            *)
(***************************************************************************)
LineOffsets(se) == {<<i * se.delta[1], i * se.delta[2]>> : i \in -se.k .. se.k}

Offsets ==
    LET sum[f \in 0 .. Len(Filters)] ==
            IF f = 0 THEN {<<0, 0>>}
            ELSE UNION {{Plus(d, e, 1) : d \in previous,
                            e \in IF Filters[f].kind = "line" THEN LineOffsets(Filters[f])
                                                              ELSE DiscOffsets(Filters[f])} :
                           previous \in {sum[f - 1]}}
    IN  sum[Len(Filters)]

DilationIsExact ==
    \A offsets \in {Offsets} : \A q \in DOMAIN output :
        \/ output[q] = UNION {Value(Plus(q, d, 1)) : d \in offsets}
        \/ output[q] = NONE /\ ranges \cup running # {}
=============================================================================
