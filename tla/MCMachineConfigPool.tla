------------------------ MODULE MCMachineConfigPool ------------------------
(* Instances of MachineConfigPool for TLC: the maintenances of one pool, each  *)
(* of a node of its own.                                                       *)
EXTENDS MachineConfigPool

CONSTANT p1

MCNodeName == [x \in NM |-> x]

MCPoolOf == [n \in Node |-> p1]

\* The largest environments in which some property is claimed.
MCEnvironments ==
  {{"nmLag", "faults", "admin", "nodeGone"}, {"nmLag", "poolLag", "nodeGone"},
   {"faults", "admin"}, {"admin"}, {"poolLag"}}

\* Only the NodeMaintenance informer lags.
LaggingEnvironment == {{"nmLag"}}
=============================================================================
