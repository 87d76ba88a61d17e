SPECIFICATION ReanalysisSpec
CONSTANTS
    Detectors = {"silence", "hmm"}
    Surest = "hmm"
    Tolerance = 0
    MinSources = 2
    Sides = {"A"}
    Captures = {"c1"}
    NoCapture = "none"
    MaxFrame = 5
    BoundaryIds = {1, 2, 3, 4, 5, 6}
    TrackIds = {1, 2, 3}
    MaxEdits = 2
    MinTrack = 1
    Passes <- WornPressing
    Starts <- Unedited
PROPERTY TwiceChangesNothing
