CONSTANTS
  w1 = w1
  w2 = w2
  NoWorker = NoWorker
  Workers = {w1, w2}
  NumMigrations = 2
  Budgets <- Pairs
SPECIFICATION FairSpec
CHECK_DEADLOCK FALSE
INVARIANT RunsAlone
INVARIANT FinishedMeansRan
INVARIANT ShutdownPassesClose
PROPERTY AllGetDone
PROPERTY LocksAreFreed
