CONSTANTS
  w1 = w1
  w2 = w2
  a = a
  b = b
  x = x
  NoWorker = NoWorker
  Workers = {w1, w2}
  Entries = {a, x}
  Poison = {x}
  Size <- MCSize
  TargetSize = 2
  MaxFiles = 2
  MaxCuts = 2
  MaxFaults <- LiveFaults
  Apart <- AllTogether
SPECIFICATION FairSpec
PROPERTIES FilesGetPublished PoisonGetsQuarantined StagingDrains
CHECK_DEADLOCK FALSE
