--------------------------- MODULE MCTreeOfShapes ---------------------------
(***************************************************************************)
(* Images of one channel, of which only the tree of shapes is computed,    *)
(* and color images.  The start point is a pixel.                          *)
(***************************************************************************)
EXTENDS Grid, MultivariateShapes

FourNeighbours(q) == [r \in 1 .. 4 |-> Translate(q, C4Offsets[r])]

Box(w, h) == {<<x, y>> : x \in 0 .. w - 1, y \in 0 .. h - 1}

(* Around a center, a cross; and all the images of 3x2 pixels. *)
Corners == {<<x, y>> : x \in {0, 2}, y \in {0, 2}}
Crosses == {g \in [Box(3, 3) -> 0 .. 2] : \A q \in Corners : g[q] = 1}
Small   == [Box(3, 2) -> {0, 2}]

OneChannel == {[images |-> <<g>>, start |-> s] : g \in Crosses \cup Small, s \in {<<0, 0>>, <<2, 2>>}}

(* Lines, squares that begin with 0, and images where the shapes of two    *)
(* channels may make a wall with a peak behind it.                          *)
Lines   == {g \in [Box(3, 1) -> 0 .. 2] : g[<<0, 0>>] = 1}
Squares == {g \in [Box(2, 2) -> {0, 1}] : g[<<0, 0>>] = 0}

Ridges == {{<<1, 0>>, <<1, 1>>}, {<<1, 1>>, <<1, 2>>}, {<<3, 1>>}}
Peaks  == {[q \in Box(4, 3) |-> IF q[1] = 0 THEN 0 ELSE IF q \in r THEN 2 ELSE 1] : r \in Ridges}

Colors(S) == {[images |-> g, start |-> <<0, 0>>] : g \in S}

MCInputs == OneChannel \cup Colors(Lines \X Lines \X Lines)
                       \cup Colors(Squares \X Squares \X Squares)
                       \cup Colors({g \in Peaks \X Peaks \X Peaks : IsInjective(g)})
=============================================================================
