CONSTANTS
  BlockFrames = 3
  BatchBlocks = 1
  RingFrames = 2
  CallbackFrames = 2
  StartPaused = TRUE
  MaxCallbacks = 2
  MaxFailures = 2
  Channels = 2
SPECIFICATION FairRecovery
PROPERTIES ImplementsArchive KilledIsSettled
