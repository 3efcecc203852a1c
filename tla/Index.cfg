\* Two commands at a time, both kinds of index, three days.
SPECIFICATION Spec
CONSTANTS
  r1 = r1
  r2 = r2
  sp500 = sp500
  russell = russell
  a = a
  b = b
  Run <- TwoRuns
  Index <- BothKinds
  OneTx <- JustRussell
  Purged <- SeparateTx
  Ticker <- TwoTickers
  Listed <- AnyOrAll
  MaxOverlaps = 1
  LastDay = 3
SYMMETRY Symmetry
INVARIANT ChangesSound
INVARIANT UniverseWhole
INVARIANT OkMeansWritten
INVARIANT OneTxRegistered
CHECK_DEADLOCK FALSE
