\* Three days of cron for four phases, with a batch stream that may raise; runs
\* of two scopes, one forced, that are killed or missed, flushes that fail.
SPECIFICATION Spec
CONSTANTS
  a = a
  all = all
  fin = fin
  earn = earn
  shares = shares
  analyst = analyst
  flow = flow
  Ticker <- OneTicker
  Stream <- AllStreams
  BatchStream <- Batches
  Financial = fin
  Earnings = earn
  Phases <- InOrder
  Runs <- SyncOrFull
  Tickers <- PerStream
  Refresh <- EveryOther
  Results <- EachResult
  Failures = 1
  Day = 2
  LastDay = 3
INVARIANT TypeOK
INVARIANT AttemptedInTime
INVARIANT MarkedHasRows
INVARIANT DatesFilled
PROPERTY FailedIsRetried
CHECK_DEADLOCK FALSE
