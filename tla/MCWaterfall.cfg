CONSTANTS
    Width = 5
    Height = 3
    MaxLevel = 2
    MaxLabel = 7
    Point <- Pixels
    Nbh <- Four
    NbhBefore <- FourBefore
    Raster <- Scan
    Precedes <- PointLess
    cmp <- Less
    Images <- Boards
    MarkerPairs <- SlopesAndMarkers
    Nowhere = nowhere
    Ties <- AllTies

SPECIFICATION WaterfallSpec

INVARIANTS
    LabelsAreMinima
    BlobsAreComponents
    GraphKeepsPasses
    TreeIsWaterfall

CHECK_DEADLOCK FALSE
