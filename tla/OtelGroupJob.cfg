CONSTANTS
  w1 = w1
  w2 = w2
  r1 = r1
  r2 = r2
  NoWorker = NoWorker
  Workers = {w1, w2}
  Redrivers = {r1, r2}
  MaxAttempts = 1
  MaxStalled = 1
  MaxRedrives = 1
  AgeLimit = 0
  LabelKeep = 0
  Horizon = 1
  MaxFaults <- OneOfEach
  Apart <- Separate
SPECIFICATION FairSpec
CHECK_DEADLOCK FALSE
INVARIANTS LoadedOnce LedgerMeansLoaded ErasedStaysErased NoSilentLoss
PROPERTY Settled
