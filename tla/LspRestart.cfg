CONSTANTS
  uri1 = uri1
  uri2 = uri2
  Sids <- MCSids
  Uris = {uri1, uri2}
  MaxOps = 2
  MaxJobs = 2
  MaxDeaths = 1
  MaxEvents = 1
  Scenarios <- MCRestart
SPECIFICATION Spec
INVARIANTS ReopenedAfterRestart
