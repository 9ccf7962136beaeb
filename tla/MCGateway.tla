------------------------------ MODULE MCGateway ------------------------------
(* The instance of Gateway for TLC: the messages handled at once are alike. *)
EXTENDS GatewayProps, TLC

Alike == Permutations(Handlers)
=============================================================================
