CONSTANTS
  Channels = 2
  Blocks = 3
  BlockFrames = 2
  Damages = {"lost", "moved", "miscounted"}
  MaxDamage = 2
SPECIFICATION Spec
INVARIANTS WalkMeasures RecoveredValidates
PROPERTIES AgreedAudioKept
