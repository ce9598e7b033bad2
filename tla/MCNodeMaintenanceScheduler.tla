--------------------- MODULE MCNodeMaintenanceScheduler ---------------------
(***************************************************************************)
(* Instances of NodeMaintenanceScheduler for TLC.  Maintenances 1 and 2    *)
(* are of node 1, the others of nodes of their own; 1 and 3 have the same  *)
(* requestor.                                                              *)
(***************************************************************************)
EXTENDS NodeMaintenanceScheduler

MCNodeName == [x \in NM |-> IF x <= 2 THEN 1 ELSE x - 1]
MCRequestor == [x \in NM |-> x % 2]
MCCreated == [x \in NM |-> x \div 2]

Limits(u, p) == [maxUnavailable |-> u, maxParallel |-> p]

SomeLimits == {Limits(Number(1), Number(2)), Limits(Percent(50), Invalid)}
Serial == {Limits(Unset, Number(1))}
NoneUnavailable == {Limits(Number(0), Number(1))}

=============================================================================
