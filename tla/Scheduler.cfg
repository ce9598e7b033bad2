\* Three maintenances of two nodes; one fault, restart or change of nodes, waiting
\* maintenances or limits.
CONSTANTS
  NM = {1, 2, 3}
  Node = {1, 2}
  NodeName <- MCNodeName
  Requestor <- MCRequestor
  Created <- MCCreated
  Configs <- SomeLimits
  Absent = Absent
  Unready = {{}, {1}}
  MaxChanges = 1
SPECIFICATION Spec
INVARIANTS TypeOK OnePerNode
PROPERTIES ParallelLimit UnavailableLimit
