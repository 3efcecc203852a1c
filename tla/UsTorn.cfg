\* One ticker; a statement of a write may fail after the one before it.
SPECIFICATION Spec
CONSTANTS
  Ticker = {a}
  LastDay = 4
  BatchSize = 2
  Lookback = 1
  RebaseDays = 2
  Regular = TRUE
  Daily = TRUE
  Torn = TRUE
INVARIANT NoHoles
CHECK_DEADLOCK FALSE
