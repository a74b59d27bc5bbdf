CONSTANTS
  p1 = p1
  p2 = p2
  NoPath = NoPath
  Buffers <- MCBuffers
  Paths <- MCOnePath
  MaxClock = 3
  Mixes <- MCLeak
SPECIFICATION FairSpec
PROPERTIES DeadBuffersReleased
