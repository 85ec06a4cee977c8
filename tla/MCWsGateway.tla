----------------------------- MODULE MCWsGateway -----------------------------
(* Finite instances of the WebSocket gateway.                                *)
EXTENDS WsGateway
=============================================================================
