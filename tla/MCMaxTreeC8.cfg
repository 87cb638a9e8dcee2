CONSTANTS
    Width = 5
    Height = 5
    MaxLevel = 6
    Point <- Pixels
    Border <- Extension
    Nbh <- Eight
    Start <- TL
    Images <- RingImage

SPECIFICATION MTSpec

INVARIANT DoneOnce

CHECK_DEADLOCK FALSE
