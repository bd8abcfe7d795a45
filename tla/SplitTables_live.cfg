CONSTANTS
  q1 = q1
  q2 = q2
  i1 = i1
  i2 = i2
  short = short
  long = long
  Requests = {q1}
  Refreshes = {i1, i2}
  MaxAttempts = 3
  Retentions = {short}
  Creations = {"inline", "legacy"}
  Budgets <- LiveEvents
SPECIFICATION FairSpec
CHECK_DEADLOCK FALSE
PROPERTIES GoesLive LaneGetsReady CacheConverges
