CONSTANTS
  f1 = f1
  f2 = f2
  Daemon = Daemon
  Frontends <- MCFrontends
  MaxOps = 2
  MaxKeys = 2
  MaxDown = 2
  Scenarios = {{"prefix"}}
SPECIFICATION Spec
INVARIANTS AppliedAsDispatched
CHECK_DEADLOCK FALSE
