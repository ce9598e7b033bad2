\* Two maintenances of one pool in several environments.
CONSTANTS
  p1 = p1
  NM = {n1, n2}
  Node = {n1, n2}
  Pool = {p1}
  NodeName <- MCNodeName
  PoolOf <- MCPoolOf
  Nil = Nil
  Environments <- MCEnvironments
  MaxFaults = 1
  MaxChanges = 1
SPECIFICATION FairSpec
INVARIANTS TypeOK PausedDuringMaintenance NoRolloutDuringMaintenance  AdminPauseRespected
PROPERTIES PauseProgresses UnpauseCompletes
CHECK_DEADLOCK FALSE
