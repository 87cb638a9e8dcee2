------------------------------ MODULE MCMaxTree ------------------------------
EXTENDS Grid, MaxTree

(* The values of the constants.  TLC evaluates C4 and Domain once because  *)
(* it substitutes these names, and not them, for the constants.            *)
Pixels == Domain
Extension == Border1
Four == C4

Eight == C8

(* All the images of the domain over the levels. *)
AllImages == [Domain -> 0 .. MaxLevel]

(* A 5 x 5 image where two ascending paths from the top left corner pass   *)
(* along the inner ring before the flooding reaches the centre <<2, 2>>:   *)
(* seven of its neighbours are known by then, and the last one is higher.  *)
Rows == << <<5, 6, 6, 6, 0>>,
           <<6, 1, 0, 0, 6>>,
           <<6, 0, 2, 0, 0>>,
           <<6, 0, 0, 3, 0>>,
           <<0, 6, 0, 0, 0>> >>

RingImage == {[q \in Domain |-> Rows[q[2] + 1][q[1] + 1]]}
=============================================================================
