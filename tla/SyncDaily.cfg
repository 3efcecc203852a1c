\* Two days of cron in which every call returns rows and nothing fails.
SPECIFICATION Spec
CONSTANTS
  a = a
  all = all
  fin = fin
  earn = earn
  shares = shares
  analyst = analyst
  flow = flow
  Ticker <- OneTicker
  Stream <- AllStreams
  BatchStream <- Batches
  Financial = fin
  Earnings = earn
  Phases <- InOrder
  Runs <- SyncOnly
  Tickers <- PerStream
  Refresh <- EveryDay
  Results <- OnlyRows
  Failures = 0
  Day = 2
  LastDay = 2
INVARIANT DailyCollected
CHECK_DEADLOCK FALSE
