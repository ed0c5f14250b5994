------------------------- MODULE MCMaintenanceLease -------------------------
(* Instances of MaintenanceLease for TLC. *)
EXTENDS MaintenanceLease
=============================================================================
