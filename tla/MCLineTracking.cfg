CONSTANTS
    TMax = 6
    NMax = 9
    BucketSize = 1
    Sigma = 2
    SigmaThickness = 4
    MaxThickness = 6
    MinNbValuesSigma = 2
    NbValuesToKeep = 5
    DiscontinuityAbsolute = 1
    DiscontinuityRelative = 0
    MinimumForFusion = 1
    MinLengthEmbryo = 1
    SlopeThreshold = 4
    GainUnit = 2
    Columns <- MCColumns
    Descriptors <- MCDescriptors

SPECIFICATION Spec

INVARIANTS
    OnlyStrayedAreMissed
    LostObservationsAreOutbid
    TrackersAreConserved

CHECK_DEADLOCK FALSE
