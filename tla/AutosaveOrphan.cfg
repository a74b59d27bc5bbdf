CONSTANTS
  p1 = p1
  p2 = p2
  NoPath = NoPath
  Buffers <- MCBuffers
  Paths <- MCPaths
  MaxClock = 3
  Mixes <- MCOrphan
SPECIFICATION Spec
INVARIANTS AlwaysOwned
