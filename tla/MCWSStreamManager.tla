-------------------------- MODULE MCWSStreamManager --------------------------
(* Two candle streams and one polling thread. *)
EXTENDS WSStreamManager
=============================================================================
