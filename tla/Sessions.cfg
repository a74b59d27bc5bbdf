CONSTANTS
  w1 = w1
  Plain = Plain
  Gui <- MCGui
  Mixes <- MCMixes
  MaxConns = 3
  MaxOpen = 2
  MaxQueue = 3
  AttemptCap = 2
  IdleExit = TRUE
SPECIFICATION FairSpec
CHECK_DEADLOCK FALSE
INVARIANTS SessionsInv
PROPERTIES NoViewForTheDeparted SessionsSettle
