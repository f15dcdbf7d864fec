---------------------------- MODULE MCRateLimiter ----------------------------
(* Two threads, two requests in a window of two ticks.                     *)
EXTENDS RateLimiter
=============================================================================
