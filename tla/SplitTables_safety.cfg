CONSTANTS
  q1 = q1
  q2 = q2
  i1 = i1
  i2 = i2
  short = short
  long = long
  Requests = {q1, q2}
  Refreshes = {i1}
  MaxAttempts = 2
  Retentions = {short, long}
  Creations = {"inline", "legacy"}
  Budgets <- SafetyEvents
SPECIFICATION Spec
CHECK_DEADLOCK FALSE
SYMMETRY Symmetry
INVARIANTS FlipGate ReadyMeansBuilt NoResurrection TtlFollows
