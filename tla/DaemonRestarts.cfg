CONSTANTS
  d1 = d1
  d2 = d2
  d3 = d3
  a1 = a1
  a2 = a2
  c1 = c1
  Nothing = Nothing
  Leftover = Leftover
  Daemons <- MCDaemons
  Attachers <- MCAttachers
  Controls <- MCControls
  Scenarios = {{"crash", "timeout"}, {"stop", "crash", "ask"}}
SPECIFICATION FairSpec
CHECK_DEADLOCK FALSE
INVARIANTS DaemonTypeOK StartupSafe
PROPERTIES AutoStartConnects HandoverKept SocketKept
