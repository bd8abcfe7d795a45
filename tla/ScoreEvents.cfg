CONSTANTS
  w1 = w1
  w2 = w2
  Workers = {w1, w2}
  Settings <- SettingsMC
  NumFiles = 2
  MaxTries = 2
SPECIFICATION Spec
CHECK_DEADLOCK FALSE
SYMMETRY Symmetry
INVARIANT Reflected
INVARIANT StaysErased
PROPERTY NeverGoesBack
