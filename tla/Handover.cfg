\* Two maintenances of one node, one after the other, with a fault or a restart
\* and an administrator who cordons or uncordons it.
CONSTANTS
  n1 = n1
  d1 = d1
  d2 = d2
  Nil = Nil
  NM = {x1, x2}
  Node = {n1}
  Pod = {p1}
  DrainSpec = {d1, d2}
  NodeName <- MCNodeName
  Specs <- PlainSpecs
  Edits = {"admin"}
  MaxEdits = 1
  MaxFaults = 1
  Lagging = {"nm"}
SYMMETRY Interchangeable
SPECIFICATION Spec
INVARIANTS CordonedWhileMaintained NodeRestored
CHECK_DEADLOCK FALSE
