CONSTANTS
    Width = 3
    Height = 3
    MaxLevel = 2
    Reversed = TRUE
    Point <- Pixels
    Border <- Extension
    Nbh <- Four
    Raster <- Scan
    Images <- AllImages
    Markers <- MarkersOf

SPECIFICATION WSSpec

INVARIANTS
    Separation
    NothingForgotten
    LinesSeparate
    BasinsAreRegions

PROPERTIES
    LabelsAreFinal
    WaterRises
    Termination

CHECK_DEADLOCK FALSE
