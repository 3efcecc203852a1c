CONSTANTS
  k1 = k1
  k2 = k2
  p1 = p1
  p2 = p2
  Key <- Keys
  Proc <- OneProc
  MaxWorkers = 1
  Stmts <- AllStmts
  Poison <- RejectedIgnore
  Disciplined = TRUE
  MaxWrites = 4
SPECIFICATION Spec
INVARIANTS TypeOK PrefixConsistent PoisonNotSkipped
PROPERTIES ImplementsQueue
