\* The node informer lags.
CONSTANTS
  n1 = n1
  d1 = d1
  d2 = d2
  Nil = Nil
  NM = {x1}
  Node = {n1}
  Pod = {}
  DrainSpec = {d1, d2}
  NodeName <- MCNodeName
  Specs <- CordonSpec
  Edits = {}
  MaxEdits = 0
  MaxFaults = 0
  Lagging = {"node"}
SPECIFICATION Spec
INVARIANT NodeRestored
CHECK_DEADLOCK FALSE
