\* One maintenance with every optional step, edits of its spec, annotations and
\* conditions, a fault or a restart, and a lagging NodeMaintenance informer.
CONSTANTS
  n1 = n1
  d1 = d1
  d2 = d2
  Nil = Nil
  NM = {x1}
  Node = {n1}
  Pod = {p1}
  DrainSpec = {d1, d2}
  NodeName <- MCNodeName
  Specs <- FullSpec
  Edits = {"drain", "failed", "requestors", "waitStart"}
  MaxEdits = 2
  MaxFaults = 1
  Lagging = {"nm"}
SPECIFICATION Spec
INVARIANTS TypeOK FinalizerHeld NoStrayDrain DrainOnCordonedNode CordonedWhileMaintained NodeRestored
PROPERTIES DrainedWhenReady 
CHECK_DEADLOCK FALSE
