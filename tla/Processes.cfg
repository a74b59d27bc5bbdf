CONSTANTS
  p1 = p1
  Ids <- MCIds
  MaxGen = 2
  MaxChunks = 1
  ChanCap = 1
  MaxFaults = 1
  Scenarios = {{"write", "take"}, {"write", "fork", "forget", "spawnfail", "escape"}, {"fork", "quit", "killfail"}}
SPECIFICATION FairSpec
INVARIANTS SupervisorInv StoryInOrder
PROPERTIES NoLateStart GroupsEventuallyGone
