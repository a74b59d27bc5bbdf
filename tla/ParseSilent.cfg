CONSTANTS
  MaxText = 2
  MaxCrashes = 2
  Serials <- MCSerials
  Scenarios = {{"fail"}}
SPECIFICATION Spec
INVARIANT LossIsTold
CHECK_DEADLOCK FALSE
