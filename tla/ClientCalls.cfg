\* Two threads on one method, one with turns of every kind, the other with
\* single requests; two attempts per call.
SPECIFICATION TurnSpec
CONSTANTS
  t1 = t1
  t2 = t2
  slow = slow
  NoThread = NoThread
  Thread <- TwoThreads
  Method <- OneMethod
  Delay <- Intervals
  RetryCount = 2
  Backoff <- Backoffs
  Jobs <- TurnsOf
  Page = 2
  Recent = 1
  Tables = 2
INVARIANT LimiterInv
INVARIANT OkMeansWhole
INVARIANT AllOrNothing
PROPERTY PermitsSpaced
PROPERTY TurnEnds
