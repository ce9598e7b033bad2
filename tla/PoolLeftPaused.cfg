\* The NodeMaintenance informer lags between the clean-up of two maintenances.
CONSTANTS
  p1 = p1
  NM = {n1, n2}
  Node = {n1, n2}
  Pool = {p1}
  NodeName <- MCNodeName
  PoolOf <- MCPoolOf
  Nil = Nil
  Environments <- LaggingEnvironment
  MaxFaults = 0
  MaxChanges = 0
SPECIFICATION Spec
INVARIANT NeverLeftPaused
CHECK_DEADLOCK FALSE
