CONSTANTS
    Point = {p1, p2, p3, p4}
    MaxLevel = 2
    Reversed = TRUE
    Garbage = garbage

SPECIFICATION HPSpec

INVARIANTS
    Represents
    TopIsRight

PROPERTY ImplementsFifo

SYMMETRY Symmetry
