SPECIFICATION MtosSpec
CONSTANTS
    Width = 3
    Height = 3
    MaxLevel = 4
    Nbh <- FourNeighbours
    Inputs <- MCInputs
CHECK_DEADLOCK FALSE
INVARIANTS
    FrontIsSound
    DepthsAreShapes
    DepthMapIsLongestChain
    TreeIsSaturated
