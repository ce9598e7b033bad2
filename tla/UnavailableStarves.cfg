\* No node may become unavailable, one is.
CONSTANTS
  NM = {2, 3}
  Node = {1, 2}
  NodeName <- MCNodeName
  Requestor <- MCRequestor
  Created <- MCCreated
  Configs <- NoneUnavailable
  Absent = Absent
  Unready = {{}, {1}, {2}, {1, 2}}
  MaxChanges = 0
SPECIFICATION FairSpec
PROPERTY UnavailableServed
