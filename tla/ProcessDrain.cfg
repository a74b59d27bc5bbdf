CONSTANTS
  p1 = p1
  Ids <- MCIds
  MaxGen = 1
  MaxChunks = 1
  ChanCap = 1
  MaxFaults = 0
  Scenarios = {{"write"}}
SPECIFICATION Spec
INVARIANT NothingLeft
