------------------------ MODULE StructuringElements ------------------------
(***************************************************************************)
(* Boxes, and the structuring elements of mln::se with the regions of an   *)
(* image they need, or give, and their decompositions in periodic lines.   *)
(* A box is the half-open product of [x0, x1) and [y0, y1).                *)
(***************************************************************************)
EXTENDS Integers, Sequences

Box(x, y, w, h) == [x0 |-> x, y0 |-> y, x1 |-> x + w, y1 |-> y + h]

Width(b)  == b.x1 - b.x0
Height(b) == b.y1 - b.y0
TopLeft(b) == <<b.x0, b.y0>>

Has(b, q) == b.x0 <= q[1] /\ q[1] < b.x1 /\ b.y0 <= q[2] /\ q[2] < b.y1

PointsOf(b) == {<<x, y>> : x \in b.x0 .. b.x1 - 1, y \in b.y0 .. b.y1 - 1}

Includes(a, b) == a.x0 <= b.x0 /\ a.y0 <= b.y0 /\ b.x1 <= a.x1 /\ b.y1 <= a.y1

Inflate(b, dx, dy) ==
    [x0 |-> b.x0 - dx, y0 |-> b.y0 - dy, x1 |-> b.x1 + dx, y1 |-> b.y1 + dy]

Abs(z) == IF z < 0 THEN -z ELSE z

Plus(q, d, times) == <<q[1] + times * d[1], q[2] + times * d[2]>>

-----------------------------------------------------------------------------
(* periodic_line2d: k steps of delta on both sides, delta being downwards. *)
Line(delta, k) ==
    [kind |-> "line", k |-> k,
     delta |-> IF delta[2] < 0 \/ (delta[2] = 0 /\ delta[1] < 0) THEN <<-delta[1], -delta[2]>> ELSE delta]

(* rect2d: the sizes are rounded up to odd numbers; one line along each     *)
(* direction in which it is wider than one pixel.                           *)
Rect(width, height) == [kind |-> "rect", h |-> width \div 2, v |-> height \div 2]

RectLines(se) ==
    (IF se.h > 0 THEN <<Line(<<1, 0>>, se.h)>> ELSE <<>>) \o
    (IF se.v > 0 THEN <<Line(<<0, 1>>, se.v)>> ELSE <<>>)

(* disc, approximated with eight periodic lines or exact. *)
Disc(radius, exact) == [kind |-> "disc", radius |-> radius, exact |-> exact]

(* std::round of (a * radius + b) / 10^6, for a sum that is not negative. *)
Rounded(a, radius, b) == (a * radius + b + 500000) \div 1000000

(* Mutant: the odd pixel of what remains is forgotten. *)
CoefficientsWithoutRest(radius) ==
    LET k0 == IF radius < 11 THEN 1 + ((radius + 1) % 2) ELSE Rounded(224981, radius, -749978)
        k2 == IF radius < 7 THEN 0 ELSE Rounded(92869, radius, 34719)
    IN  IF radius = 0 THEN <<0, 0, 0>> ELSE <<k0, (radius - k0 - 6 * k2) \div 2, k2>>

(* disc_compute_decomposition_coeff: <<k0, k1, k2>>. *)
DiscCoefficients(radius) ==
    LET k0 == IF radius < 11 THEN 1 + ((radius + 1) % 2) ELSE Rounded(224981, radius, -749978)
        k2 == IF radius < 7 THEN 0 ELSE Rounded(92869, radius, 34719)
        r  == radius - k0 - 6 * k2
    IN  IF radius = 0 THEN <<0, 0, 0>>
        ELSE IF r > 0 THEN <<k0 + (r % 2), r \div 2, k2>> ELSE <<k0, 0, k2>>

DiscLines(se) ==
    LET k == DiscCoefficients(se.radius)
    IN  <<Line(<<1, 0>>, k[1]), Line(<<0, 1>>, k[1])>> \o
        (IF k[2] > 0 THEN <<Line(<<1, 1>>, k[2]), Line(<<-1, 1>>, k[2])>> ELSE <<>>) \o
        (IF k[3] > 0 THEN <<Line(<<1, 2>>, k[3]), Line(<<2, 1>>, k[3]),
                            Line(<<-1, 2>>, k[3]), Line(<<-2, 1>>, k[3])>> ELSE <<>>)

(* The points of an exact disc; those to take and to leave when it moves to  *)
(* the right, relative to its new center.                                    *)
DiscOffsets(se) ==
    {d \in {<<x, y>> : x \in -se.radius .. se.radius, y \in -se.radius .. se.radius} :
        d[1] * d[1] + d[2] * d[2] <= se.radius * se.radius}

IncOffsets(se) == {d \in DiscOffsets(se) : <<d[1] + 1, d[2]>> \notin DiscOffsets(se)}
DecOffsets(se) == {<<d[1] - 1, d[2]>> : d \in {e \in DiscOffsets(se) : <<e[1] - 1, e[2]>> \notin DiscOffsets(se)}}

-----------------------------------------------------------------------------
(* How far an element reaches, and the regions this gives. *)
ExtentX(se) == CASE se.kind = "line" -> Abs(se.delta[1]) * se.k
                 [] se.kind = "rect" -> se.h
                 [] se.kind = "disc" -> se.radius

ExtentY(se) == CASE se.kind = "line" -> Abs(se.delta[2]) * se.k
                 [] se.kind = "rect" -> se.v
                 [] se.kind = "disc" -> se.radius

compute_input_region(se, roi)  == Inflate(roi, ExtentX(se), ExtentY(se))
compute_output_region(se, roi) == Inflate(roi, -ExtentX(se), -ExtentY(se))

(* The elements a dilation runs one after the other. *)
Decomposition(se) ==
    CASE se.kind = "rect" -> RectLines(se)
      [] se.kind = "disc" /\ ~se.exact -> DiscLines(se)
      [] OTHER -> <<se>>
=============================================================================
