------------------------ MODULE MCPersonaMaintenance ------------------------
(* The instance of PersonaMaintenance for TLC. *)
EXTENDS PersonaMaintenanceProps
=============================================================================
