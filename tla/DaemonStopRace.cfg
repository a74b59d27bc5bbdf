CONSTANTS
  d1 = d1
  d2 = d2
  d3 = d3
  a1 = a1
  a2 = a2
  c1 = c1
  Nothing = Nothing
  Leftover = Leftover
  Daemons <- MCDaemons
  Attachers <- MCNone
  Controls <- MCControls
  Scenarios = {{"stop"}}
SPECIFICATION Spec
CHECK_DEADLOCK FALSE
INVARIANTS AtMostOneServing
