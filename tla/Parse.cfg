CONSTANTS
  MaxText = 2
  MaxCrashes = 2
  Serials <- MCSerials
  Scenarios = {{"kill", "recycle"}, {"cancel", "kill"}, {"cancel", "recycle"}, {"fail", "nospawn"}, {"slow", "recycle"}, {"overwrite", "fail", "slow"}}
SPECIFICATION FairSpec
INVARIANTS ParseInv
PROPERTIES Highlights EventuallyCurrent
CHECK_DEADLOCK FALSE
