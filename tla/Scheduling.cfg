\* Four maintenances of three nodes.
CONSTANTS
  NM = {1, 2, 3, 4}
  Node = {1, 2, 3}
  NodeName <- MCNodeName
  Requestor <- MCRequestor
  Created <- MCCreated
  Listings <- MCListings
SPECIFICATION CallSpec
INVARIANTS ScheduleSelects SelectionWithinLimits
CHECK_DEADLOCK FALSE
