\* One ticker on three sessions, announcements on two of them, windows of two.
SPECIFICATION FairSpec
CONSTANTS
  Ticker = {a}
  LastDay = 3
  Announced = {1, 3}
  WindowDays = 2
  Mixes = {{"lists", "prices", "derive"}, {"prices", "valuation"}, {"returns"}}
  Starts = {2}
  Faults = 1
INVARIANT TypeOK
INVARIANT OkMeansStored
INVARIANT HolesAreFailures
INVARIANT DatesFollowStocks
PROPERTY DerivedGrows
PROPERTY EventuallyDerived
CHECK_DEADLOCK FALSE
