----------------------------- MODULE MCApiGateway -----------------------------
(* The instance of ApiGateway that TLC checks. *)
EXTENDS ApiGateway
=============================================================================
