----------------------------- MODULE MCWsGateway -----------------------------
(* The instance of WsGateway that TLC checks; see WsGateway.cfg. *)
EXTENDS WsGateway
=============================================================================
