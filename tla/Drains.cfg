\* Two workers, two maintenances and a pod that is bound to the node of one.
CONSTANTS
  UID = {u1, u2}
  Pod = {p1}
  Worker = {w1, w2}
  Req = {r1, r2}
  Nil = Nil
SPECIFICATION FairSpec
INVARIANTS TypeOK OneDrainAtWork CompletedIsReal
PROPERTIES StateNeverRegresses  WorkersReturn
