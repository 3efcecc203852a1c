\* Parallel flushes of two workers and sequential ones, fair retries.
SPECIFICATION FairSpec
CONSTANTS
  k1 = k1
  k2 = k2
  p1 = p1
  p2 = p2
  Key <- Keys
  Proc <- OneProc
  MaxWorkers = 2
  Stmts <- AllStmts
  Poison <- RejectedIgnore
  Disciplined = TRUE
  MaxWrites = 3
INVARIANT DrainedIsCurrent
PROPERTY EventuallyDelivered
