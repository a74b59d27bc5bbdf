CONSTANTS
  f1 = f1
  f2 = f2
  Daemon = Daemon
  Frontends <- MCFrontends
  MaxOps = 2
  MaxKeys = 2
  MaxDown = 2
  Scenarios = {{"edit", "hook"}, {"prefix"}, {"lua"}, {"paste"}, {"switch"}}
SPECIFICATION FairSpec
INVARIANTS ReplicaInv
PROPERTIES OptimismReturns
CHECK_DEADLOCK FALSE
