SPECIFICATION CTSpec
CONSTANTS
    MaxNode = 2
    Modulus <- MCModulus
    Trees <- MCTrees
CHECK_DEADLOCK FALSE
INVARIANTS
    PointsToValidNodes
