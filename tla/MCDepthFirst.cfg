CONSTANTS
    Width = 3
    Height = 2
    MaxLevel = 2
    Point <- Pixels
    Border <- Extension
    Nbh <- Four
    Start <- TL
    Images <- AllImages

SPECIFICATION Spec

INVARIANTS
    CurrentIsTop
    BucketsNeverOverflow
    DoneOnce

PROPERTIES
    ImplementsPeakFlood
    Termination

CHECK_DEADLOCK FALSE
