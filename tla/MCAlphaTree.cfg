CONSTANTS
    Width = 3
    Height = 3
    NDir = 2
    NLevels = 4
    Point <- Pixels
    After <- FourAfter
    Raster <- Scan
    distance <- AbsoluteDifference
    Images <- ThreeValues
    Tasks <- AllTasks

SPECIFICATION Spec

INVARIANTS
    LightestEdgeFirst
    NodesMirrorSets
    IsAlphaTree
    RegionsAreDeep

CHECK_DEADLOCK FALSE
