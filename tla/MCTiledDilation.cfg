SPECIFICATION TDSpec
CONSTANTS
    Jobs <- MCJobs
CHECK_DEADLOCK FALSE
INVARIANTS
    TilesAreExclusive
    RegionsFit
    DilationIsExact
