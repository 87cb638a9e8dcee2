-------------------------------- MODULE Grid --------------------------------
(***************************************************************************)
(* The domain of a 2D image and the neighbourhoods the library predefines. *)
(* A point is a pair <<x, y>>; a neighbour that lies outside the domain is *)
(* a pair that is not in Domain, i.e. a pixel of the image's extension.    *)
(***************************************************************************)
EXTENDS Integers, Sequences

CONSTANTS Width, Height

ASSUME GridAssumption == Width \in Nat \ {0} /\ Height \in Nat \ {0}

Domain == {<<x, y>> : x \in 0 .. Width - 1, y \in 0 .. Height - 1}

(* The pixels at distance one around the domain. *)
Border1 == ((-1 .. Width) \X (-1 .. Height)) \ Domain

TL == <<0, 0>>

(* The order of a scan of the domain (mln_foreach). *)
RasterScan == [r \in 1 .. Width * Height |-> <<(r - 1) % Width, (r - 1) \div Width>>]

(* operator< of the points: the last coordinate decides first. *)
PointLess(a, b) == a[2] < b[2] \/ (a[2] = b[2] /\ a[1] < b[1])

(* The offsets, in the order in which nbh(p) enumerates the neighbours. *)
C4Offsets == <<<<0, -1>>, <<-1, 0>>, <<1, 0>>, <<0, 1>>>>

C8Offsets == <<<<-1, -1>>, <<0, -1>>, <<1, -1>>, <<-1, 0>>, <<1, 0>>,
               <<-1, 1>>, <<0, 1>>, <<1, 1>>>>

Translate(q, d) == <<q[1] + d[1], q[2] + d[2]>>

NbhOf(offsets) ==
    [q \in Domain |-> [r \in 1 .. Len(offsets) |-> Translate(q, offsets[r])]]

C4 == NbhOf(C4Offsets)
C8 == NbhOf(C8Offsets)

(* nbh.before(p): the first half of the offsets. *)
C4Before == NbhOf(SubSeq(C4Offsets, 1, 2))
C8Before == NbhOf(SubSeq(C8Offsets, 1, 4))

(* nbh.after(p): the second half. *)
C4After == NbhOf(SubSeq(C4Offsets, 3, 4))
=============================================================================
