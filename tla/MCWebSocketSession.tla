------------------------- MODULE MCWebSocketSession -------------------------
(* Two channels: a request for the first as it is dumped, one for the      *)
(* second in other words, and a text that cannot be read.                  *)
EXTENDS WebSocketSession, TLC

CONSTANTS c1, c2, other, broken

ReadableParse == (c1 :> c1) @@ (other :> c2)

MCParse == ReadableParse @@ (broken :> Unreadable)
=============================================================================
