CONSTANTS
  w1 = w1
  w2 = w2
  a = a
  b = b
  x = x
  NoWorker = NoWorker
  Workers = {w1, w2}
  Entries = {a, b, x}
  Poison = {x}
  Size <- MCSize
  TargetSize = 2
  MaxFiles = 2
  MaxCuts = 2
  MaxFaults <- SafetyFaults
  Apart <- NotBoth
SPECIFICATION Spec
SYMMETRY WorkerSymmetry
INVARIANTS NoEntryLost OneGroupPerFile OneLateCutPerLostLease
PROPERTIES RefinesPartition
CHECK_DEADLOCK FALSE
