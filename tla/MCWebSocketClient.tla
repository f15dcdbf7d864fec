-------------------------- MODULE MCWebSocketClient --------------------------
(* The state space is finite without bounds.                               *)
EXTENDS WebSocketClient
=============================================================================
