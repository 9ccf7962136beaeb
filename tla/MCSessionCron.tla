---------------------------- MODULE MCSessionCron ----------------------------
(* The instance of SessionCron for TLC. *)
EXTENDS SessionCronProps
=============================================================================
