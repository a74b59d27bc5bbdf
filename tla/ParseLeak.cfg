CONSTANTS
  MaxText = 2
  MaxCrashes = 2
  Serials <- MCSerials
  Scenarios = {{"kill"}}
SPECIFICATION Spec
INVARIANT KilledKeepsNoWorker
CHECK_DEADLOCK FALSE
