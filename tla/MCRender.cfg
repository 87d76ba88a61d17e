SPECIFICATION FairRender
CONSTANTS
  Depth = 3
  HeldBack = 0
  ChunkFrames = 2
  BufferFrames = 2
  SpanStart = 0
  SpanEnd = 7
  Holes = {}
  SkipFrames = 2
  MaxSeeks = 3
INVARIANTS StarvesOncePerSeek
PROPERTIES RenderEnds
