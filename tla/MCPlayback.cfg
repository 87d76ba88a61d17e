CONSTANTS
  Depth = 3
  HeldBack = 1
  ChunkFrames = 2
  BufferFrames = 3
  SpanStart = 0
  SpanEnd = 6
  Holes = {4}
  SkipFrames = 2
  MaxSeeks = 1
SPECIFICATION FairSpec
INVARIANTS PoolConserved HoleIsNeverHeard
PROPERTIES EpochContiguous SeekJoins StopCloses
