CONSTANTS
  k1 = k1
  t1 = t1
  t2 = t2
  NoKey = NoKey
  NoTask = NoTask
  SupKeys <- MCKeys
  Tasks <- MCTasks
  MaxJobs = 2
  Loads <- MCLoads
  MaxItems = 2
  MaxBatch = 1
  PoolSize = 2
  Ops = {"share"}
SPECIFICATION FairSpec
INVARIANTS AsyncTypeOK SupersedeTracks ParseHandoff StreamFaithful OneTaker
PROPERTIES OutcomeStable AwaitResumes StreamCloses
