CONSTANTS
  BlockFrames = 3
  BatchBlocks = 1
  RingFrames = 5
  CallbackFrames = 2
  StartPaused = FALSE
  MaxCallbacks = 4
  MaxFailures = 2
  Openers = {cli, other}
  Older = {other}
  SchemaVersion = 2
  MaxBroken = 1
  Cli = cli
  cli = cli
  other = other
SPECIFICATION Spec
INVARIANTS FramesAccounted RowIsHonest ProjectIsSound
