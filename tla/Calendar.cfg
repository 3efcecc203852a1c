\* A week and two days, after a week that is past.
SPECIFICATION FairSpec
CONSTANTS
  LastHour = 376
  Hours <- TurningHours
  Commands <- SomeCommands
  Lookback = 7
  Longest = 16
  Failures = 1
INVARIANT TypeOK
INVARIANT CnTargetClosed
INVARIANT CaughtUp
PROPERTY UnfinishedOnlyAtNight
PROPERTY EventuallyStored
CHECK_DEADLOCK FALSE
