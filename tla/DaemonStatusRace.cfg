CONSTANTS
  d1 = d1
  d2 = d2
  d3 = d3
  a1 = a1
  a2 = a2
  c1 = c1
  Nothing = Nothing
  Leftover = Leftover
  Daemons <- MCTwoDaemons
  Attachers <- MCNone
  Controls <- MCControls
  Scenarios = {{"ask"}}
SPECIFICATION Spec
CHECK_DEADLOCK FALSE
INVARIANTS ServingReachable
