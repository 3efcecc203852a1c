\* Two tickers, of which one pays a dividend, on three sessions; batches and
\* commits of two, a floor and an overlap of one day; fair runs.
SPECIFICATION FairSpec
CONSTANTS
  a = a
  b = b
  Ticker <- TwoTickers
  Dividends <- APays
  LastDay = 3
  BatchSize = 2
  CommitSize = 2
  Lookback = 1
  Window = 2
  RebaseDays = 1
  Regular = TRUE
  Torn = FALSE
INVARIANT TypeOK
INVARIANT OkMeansStored
INVARIANT NoHoles
INVARIANT ReportedIsSaved
INVARIANT RebaseFixesDrift
PROPERTY KeepsHistory
PROPERTY EventuallyCurrent
CHECK_DEADLOCK FALSE
