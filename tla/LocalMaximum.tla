---------------------------- MODULE LocalMaximum ----------------------------
(***************************************************************************)
(* The filters a tiled dilation is made of: the running maximum along the  *)
(* lines of a region (van Herk's algorithm by blocks) and the local        *)
(* accumulation, incremental along the rows.  The supremum of the values   *)
(* is a union: a value is the set of the sources it comes from.            *)
(***************************************************************************)
EXTENDS StructuringElements, FiniteSetsExt

(* Mutant: one value too many. *)
LongAlpha(k) == 2 * k + 2

(***************************************************************************)
(* running_max_1d and block_running_max: f is defined from -k to n + k - 1 *)
(* and cut in chunks of 2k + 1 values, the last of which may be partial;   *)
(* g accumulates from the start of each chunk, h from its end.             *)
(***************************************************************************)
Alpha(k) == 2 * k + 1

ChunkStart(x, k) == Alpha(k) * ((x + k) \div Alpha(k)) - k

ChunkEnd(x, n, k) == Min({ChunkStart(x, k) + Alpha(k), n + k}) - 1

RunningMax(f, x, n, k) ==
    LET g(y) == UNION {f[z] : z \in ChunkStart(y, k) .. y}
        h(y) == UNION {f[z] : z \in y .. ChunkEnd(y, n, k)}
    IN  h(x - k) \cup g(x + k)

-----------------------------------------------------------------------------
(* traverse_along_direction: the lines of a region along a direction that  *)
(* is downwards, each with its origin and its number of points.            *)
Count(start, end, step) == IF start >= end THEN 0 ELSE (end - start - 1) \div step + 1

(* The number of steps from x, along the x axis, within the region. *)
CountX(roi, x, dx) == IF dx > 0 THEN Count(x, roi.x1, dx) ELSE Count(roi.x0, x + 1, -dx)

TopLines(roi, dx, dy) ==
    {[origin |-> <<x, roi.y0 + j>>,
      n |-> IF dx = 0 THEN Count(roi.y0 + j, roi.y1, dy)
            ELSE Min({Count(roi.y0 + j, roi.y1, dy), CountX(roi, x, dx)})] :
       x \in roi.x0 .. roi.x1 - 1, j \in 0 .. dy - 1}

(* Those that start from the side, below the ones that start from the top. *)
SideLines(roi, dx, dy) ==
    LET side(j) == IF dx > 0 THEN roi.x0 + j ELSE roi.x1 - 1 - j
        steps(j) == Count(roi.x0 + j, roi.x1, Abs(dx))
    IN  {[origin |-> <<side(j), y>>,
          n |-> IF dy = 0 THEN steps(j) ELSE Min({steps(j), Count(y, roi.y1, dy)})] :
           j \in 0 .. Abs(dx) - 1, y \in roi.y0 + dy .. roi.y1 - 1}

LinesAlong(roi, direction) ==
    {l \in TopLines(roi, direction[1], direction[2]) \cup SideLines(roi, direction[1], direction[2]) : l.n > 0}

(* What a line filter gives over a region: each point is on a line. *)
DilatedByLine(se, in, roi) ==
    LET on(q)   == {at \in LinesAlong(roi, se.delta) \X (0 .. Max({Width(roi), Height(roi)})) :
                       at[2] < at[1].n /\ Plus(at[1].origin, se.delta, at[2]) = q}
        max(at) == LET value == [i \in -se.k .. at[1].n + se.k - 1 |-> in[Plus(at[1].origin, se.delta, i)]]
                   IN  RunningMax(value, at[2], at[1].n, se.k)
    IN  [q \in PointsOf(roi) |-> UNION {max(at) : at \in on(q)}]

(***************************************************************************)
(* LocalAccumulation: along a row, the accumulator of a pixel is that of   *)
(* the one before, without the points to leave and with the points to      *)
(* take.  What leaves without having been taken would corrupt it.          *)
(***************************************************************************)
DilatedByDisc(se, in, roi) ==
    LET around(x, y, offsets) == {Plus(<<x, y>>, d, 1) : d \in offsets}
        window(q) ==
            LET upTo[x \in roi.x0 .. q[1]] ==
                    IF x = roi.x0 THEN around(x, q[2], DiscOffsets(se))
                    ELSE UNION {IF around(x, q[2], DecOffsets(se)) \subseteq previous
                                THEN (previous \ around(x, q[2], DecOffsets(se)))
                                     \cup around(x, q[2], IncOffsets(se))
                                ELSE {} : previous \in {upTo[x - 1]}}
            IN  upTo[q[1]]
    IN  [q \in PointsOf(roi) |-> UNION {in[r] : r \in window(q)}]

(* The values a filter writes. *)
Filtered(se, in, roi) ==
    IF se.kind = "line" THEN DilatedByLine(se, in, roi) ELSE DilatedByDisc(se, in, roi)
=============================================================================
