SPECIFICATION CTSpec
CONSTANTS
    MaxNode = 4
    Modulus <- MCModulus
    Trees <- MCTrees
CHECK_DEADLOCK FALSE
INVARIANTS
    ParentsAreKept
    ValuesAreKept
    PointsAreKept
