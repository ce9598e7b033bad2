--------------------------- MODULE MCDrainManager ---------------------------
(* Instances of DrainManager for TLC. *)
EXTENDS DrainManager, TLC
=============================================================================
