------------------------- MODULE MCMaintenanceTimes -------------------------
(* Instances of MaintenanceTimes for TLC. *)
EXTENDS MaintenanceTimes, TLC
=============================================================================
