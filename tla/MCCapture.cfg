CONSTANTS
  BlockFrames = 2
  BatchBlocks = 2
  RingFrames = 2
  CallbackFrames = 1
  StartPaused = TRUE
  MaxCallbacks = 4
  MaxFailures = 2
SPECIFICATION FairOwnerSpec
INVARIANTS TimelineInv PauseRisksNothing LossWithinGranularity ClosedHoldsAll
PROPERTIES StopEnds
