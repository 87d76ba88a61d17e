SPECIFICATION LiveSpec
CONSTANTS
  BlockFrames = 1
  BatchBlocks = 1
  RingFrames = 2
  CallbackFrames = 1
  StartPaused = TRUE
  MaxCallbacks = 3
  MaxFailures = 0
  TapFrames = 2
  MaxDetected = 1
INVARIANTS DetectedIsWhereItWas
CHECK_DEADLOCK FALSE
