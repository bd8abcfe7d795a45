SPECIFICATION FairSpec
CONSTANTS
  Rows <- RowsMC
  Tables <- TablesMC
  TableOf <- TableOfMC
  SizeOf <- SizeOfMC
  BatchSize = 2
  MaxBatchBytes = 3
  MaxQueueBytes = 2
  Slots = 2
  MaxAttempts = 2
  MaxPasses = 2
  MaxFailures = 2
INVARIANTS
  HeldExactlyOnce
  BytesAccountedFor
  NoLostWakeup
  DueIsServed
  FlushIsThorough
PROPERTIES
  RowsLeave
  ImplementsBuffer
