------------------------- MODULE MCFuturesConnector -------------------------
(* Three instruments for two permits, two workers one after the other.     *)
EXTENDS FuturesConnector
=============================================================================
