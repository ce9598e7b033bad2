------------------------- MODULE MCNodeMaintenance -------------------------
(***************************************************************************)
(* Instances of NodeMaintenance for TLC: every maintenance is of node n1.  *)
(***************************************************************************)
EXTENDS NodeMaintenance, TLC

CONSTANTS n1, d1, d2

MCNodeName == [x \in NM |-> n1]

\* Maintenances of one node are interchangeable.
Interchangeable == Permutations(NM)

FullSpec == {[cordon |-> TRUE, wait |-> TRUE, drain |-> d1]}
CordonSpec == {[cordon |-> TRUE, wait |-> FALSE, drain |-> Nil]}
PlainSpecs == {[cordon |-> c, wait |-> FALSE, drain |-> d1] : c \in BOOLEAN}

=============================================================================
