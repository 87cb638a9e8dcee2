---------------------------- MODULE MCAlphaTree ----------------------------
EXTENDS Grid, AlphaTree

(* The values of the constants.  TLC evaluates these once because it       *)
(* substitutes these names, and not the ones they stand for.               *)
Pixels == Domain
FourAfter == C4After
Scan == RasterScan
AbsoluteDifference(a, b) == IF a < b THEN b - a ELSE a - b

(* The images of three values at different distances, where two opposite   *)
(* corners have the value in the middle.                                   *)
ThreeValues == {g \in [Domain -> {0, 1, 3}] : g[TL] = 1 /\ g[<<Width - 1, Height - 1>>] = 1}
=============================================================================
