\* Liveness of one maintenance with an edit or the loss of its node, a fault and
\* lagging informers.  The drain finds no pods: how many it evicts does not matter
\* to its end.
CONSTANTS
  n1 = n1
  d1 = d1
  d2 = d2
  Nil = Nil
  NM = {x1}
  Node = {n1}
  Pod = {}
  DrainSpec = {d1, d2}
  NodeName <- MCNodeName
  Specs <- FullSpec
  Edits = {"drain", "failed", "requestors", "cordon", "node"}
  MaxEdits = 1
  MaxFaults = 1
  Lagging = {"nm", "node"}
SPECIFICATION FairSpec
INVARIANTS NoLostWork
PROPERTIES DeletionCompletes MaintenanceProgresses ReadyTimeRecorded FailureShown
CHECK_DEADLOCK FALSE
