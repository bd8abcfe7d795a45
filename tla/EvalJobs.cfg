CONSTANTS
  c1 = c1
  c2 = c2
  j1 = j1
  j2 = j2
  e1 = e1
  e2 = e2
  Configs = {c1, c2}
  Always = {c1}
  Updates <- UpdatesMC
  Jobs = {j1, j2}
  Executors = {e1, e2}
  MaxRows = 2
  UpsertTries = 2
  BackfillTries = 5
  MaxArrivals = 2
  MaxEvents = 2
SPECIFICATION Spec
CHECK_DEADLOCK FALSE
SYMMETRY Symmetry
INVARIANT Evaluated
INVARIANT ScoredOnce
PROPERTY CompletedStays
