CONSTANTS
  p1 = p1
  p2 = p2
  NoPath = NoPath
  Buffers <- MCBuffers
  Paths <- MCPaths
  MaxClock = 3
  Mixes <- MCSessions
SPECIFICATION Spec
SYMMETRY PathSymmetry
INVARIANTS TypeOK SkipIsSafe SessionCopiesClaimed CrashDataUnaimed WrittenOwnsSlot
PROPERTIES ExitKeepsCopies OnlyRecoverOrDiscard NoStaleLanding
