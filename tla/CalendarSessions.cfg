\* The first unfinished session of New York that is stored as a daily bar.
SPECIFICATION Spec
CONSTANTS
  LastHour = 376
  Hours <- TurningHours
  Commands <- SomeCommands
  Lookback = 7
  Longest = 16
  Failures = 1
INVARIANT SessionsFinal
CHECK_DEADLOCK FALSE
