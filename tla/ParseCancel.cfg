CONSTANTS
  MaxText = 2
  MaxCrashes = 2
  Serials <- MCSerials
  Scenarios = {{"cancel", "overwrite"}}
SPECIFICATION Spec
INVARIANT TreeOfItsText
CHECK_DEADLOCK FALSE
