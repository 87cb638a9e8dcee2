----------------------------- MODULE MCWatershed -----------------------------
EXTENDS Grid, Watershed

(* The values of the constants.  TLC evaluates C4 and Domain once because  *)
(* it substitutes these names, and not them, for the constants.            *)
Pixels == Domain
Extension == Border1
Four == C4

Scan == RasterScan

(* The pairs of neighbours, as Adjacent gives them. *)
Edges == {e \in Domain \X Domain : \E r \in DOMAIN C4[e[1]] : C4[e[1]][r] = e[2]}

(* The connected sets of points, grown one point at a time: the flat zones *)
(* of the images are among them.                                           *)
ConnectedSets ==
    LET ofSize[n \in 1 .. Cardinality(Domain)] ==
            IF n = 1 THEN {{q} : q \in Domain}
            ELSE UNION {{Z \cup {r} : r \in Boundary(Domain, Z, Edges)} : Z \in ofSize[n - 1]}
    IN  UNION {ofSize[n] : n \in 1 .. Cardinality(Domain)}

(* A zone: its points, the points around it, and the rank in the scan of the *)
(* first of its points.                                                     *)
Zone(Z) == [points  |-> Z,
            outside |-> Boundary(Domain, Z, Edges),
            first   |-> CHOOSE a \in DOMAIN RasterScan :
                            /\ RasterScan[a] \in Z
                            /\ \A b \in 1 .. a - 1 : RasterScan[b] \notin Z]

Zones == {Zone(Z) : Z \in ConnectedSets}

(* The regional minima of an image. *)
Minima(im) ==
    {Z \in Zones : /\ \A q \in Z.points : im[q] = im[RasterScan[Z.first]]
                   /\ \A r \in Z.outside : im[r] > im[RasterScan[Z.first]]}

(* Each zone is labelled by the rank of its first point: labels are only *)
(* told apart.                                                           *)
Label(zones) ==
    [q \in Domain |-> IF \E Z \in zones : q \in Z.points
                      THEN (CHOOSE Z \in zones : q \in Z.points).first
                      ELSE 0]

(* Seeds, as the components of a binary image: they need not be at minima. *)
Seeds == {{Zone(Z) : Z \in zones} :
             zones \in {{{<<0, 0>>}, {<<2, 2>>}}, {{<<1, 1>>}}, {{<<0, 0>>, <<1, 0>>}, {<<2, 1>>}}}}

(* Images whose first corner is a lowest one and whose centre has level 1, *)
(* and slopes that are flooded from seeds.                                 *)
Corners == {<<2, 0>>, <<0, 2>>, <<2, 2>>}

Sampled == {im \in [Domain -> 0 .. MaxLevel] : /\ im[<<1, 1>>] = 1
                                      /\ im[<<0, 1>>] = im[<<1, 2>>]
                                      /\ \A c \in Corners : im[<<0, 0>>] <= im[c]}

Slope == [q \in Domain |-> IF q[1] + q[2] > MaxLevel THEN MaxLevel ELSE q[1] + q[2]]

SampledImages == Sampled \cup {Slope}

AllImages == SampledImages

MarkersOf(im, w) ==
    {Label(zones) : zones \in {Minima(im)}
                                 \cup IF w /\ im = Slope THEN Seeds ELSE {}}

=============================================================================
