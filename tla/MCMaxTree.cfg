CONSTANTS
    Width = 3
    Height = 2
    MaxLevel = 2
    Point <- Pixels
    Border <- Extension
    Nbh <- Four
    Start <- TL
    Images <- AllImages

SPECIFICATION MTSpec

INVARIANTS
    RootsMirrorRecursion
    IsMaxTree
    ParentsFirst

PROPERTIES
    TreeReturned

CHECK_DEADLOCK FALSE
