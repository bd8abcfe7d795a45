CONSTANTS
  latest = latest
  production = production
  r1 = r1
  d1 = d1
  r2 = r2
  Requests = {r1, r2}
  Readers = {d1}
  Labels = {latest, production}
  Latest = latest
  Number <- NumberNone
  MaxRows = 2
  MaxOps = 2
  MaxFails = 1
  Asked <- AskedMC
SPECIFICATION Spec
CHECK_DEADLOCK FALSE
SYMMETRY Symmetry
INVARIANT LabelsAreUnique
INVARIANT DependenciesResolve
INVARIANT CacheIsFresh
