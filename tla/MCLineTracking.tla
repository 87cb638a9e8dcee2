---------------------------- MODULE MCLineTracking ----------------------------
EXTENDS LineTracking

RunOf(first, last) == [pos |-> first + last, thick |-> last - first + 1]

(* Two lines that are close to each other; others, farther; a thick line;   *)
(* a thick object over them all.                                            *)
MCColumns ==
    {<<RunOf(2, 2), RunOf(4, 4)>>,
     <<RunOf(3, 4), RunOf(7, 7)>>,
     <<RunOf(2, 6)>>,
     <<RunOf(1, 6)>>}

(* A Kalman filter, whose gains change with the covariance, and a predictor *)
(* that starts again from its last integration, over the values of a        *)
(* gradient: the parts of a difference are halves.                          *)
MCDescriptors ==
    {[tracking_type |-> "KALMAN", extraction_type |-> "BINARY",
      gains |-> {[pos |-> 2, slope |-> 2], [pos |-> 1, slope |-> 1]}],
     [tracking_type |-> "LAST_INTEGRATION", extraction_type |-> "GRADIENT",
      gains |-> {[pos |-> 2, slope |-> 0]}]}
=============================================================================
