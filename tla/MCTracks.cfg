SPECIFICATION Spec
CONSTANTS
    Detectors = {"silence", "hmm"}
    Tolerance = 1
    MinSources = 2
    Sides = {"A", "B"}
    Captures = {"c1", "c2"}
    NoCapture = "none"
    MaxFrame = 4
    BoundaryIds = {1, 2, 3, 4, 5, 6}
    TrackIds = {1, 2, 3}
    MaxEdits = 2
    MinTrack = 2
    Passes <- MCPasses
    Starts <- MCStarts
INVARIANTS
    EditKeepsTracks
    AdoptionKeepsOut
PROPERTIES
    LockedStays
