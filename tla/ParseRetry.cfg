CONSTANTS
  MaxText = 2
  MaxCrashes = 2
  Serials <- MCSerials
  Scenarios = {{"late"}}
SPECIFICATION FairSpec
PROPERTY EventuallyCurrent
CHECK_DEADLOCK FALSE
