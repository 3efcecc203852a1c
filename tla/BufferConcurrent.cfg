CONSTANTS
  k1 = k1
  k2 = k2
  p1 = p1
  p2 = p2
  Key <- Keys
  Proc <- TwoProcs
  MaxWorkers = 2
  Stmts <- Upserts
  Poison <- None
  Disciplined = FALSE
  MaxWrites = 3
SPECIFICATION Spec
SYMMETRY ProcSymmetry
INVARIANTS NoLostWrite OkMeansDelivered
