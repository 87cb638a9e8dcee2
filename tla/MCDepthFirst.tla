---------------------------- MODULE MCDepthFirst ----------------------------
EXTENDS Grid, DepthFirst

(* The values of the constants.  TLC evaluates C4 and Domain once because  *)
(* it substitutes these names, and not them, for the constants.            *)
Pixels == Domain
Extension == Border1
Four == C4

(* All the images of the domain over the levels. *)
AllImages == [Domain -> 0 .. MaxLevel]
=============================================================================
