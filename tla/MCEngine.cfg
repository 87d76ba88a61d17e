SPECIFICATION FairLiveSpec
CONSTANTS
  BlockFrames = 2
  BatchBlocks = 1
  RingFrames = 2
  CallbackFrames = 1
  StartPaused = TRUE
  MaxCallbacks = 2
  MaxFailures = 1
  TapFrames = 2
  MaxDetected = 1
INVARIANTS OnlyAnEmptyRowGoes StoppedAgreesWithRow StreamTellsTheTransport StreamEndsOnce
PROPERTIES ShutdownCloses
CHECK_DEADLOCK FALSE
