---------------------------- MODULE SlidingWindow ----------------------------
(***************************************************************************)
(* What a rate limiter promises: in any Window milliseconds at most Limit  *)
(* requests are granted.  A request is granted at a time that has come and *)
(* is not before the last one.                                             *)
(***************************************************************************)
EXTENDS Integers, Sequences

CONSTANTS Limit, Window   \* a positive number of requests, and milliseconds

VARIABLES clock, granted

Init == clock = 0 /\ granted = <<>>

Tick == clock' = clock + 1 /\ UNCHANGED granted

Grant(time) ==
  /\ granted # <<>> => granted[Len(granted)] <= time
  /\ Len(granted) >= Limit => granted[Len(granted) + 1 - Limit] + Window < time
  /\ granted' = Append(granted, time)
  /\ UNCHANGED clock

Next == Tick \/ \E time \in 0..clock : Grant(time)

Spec == Init /\ [][Next]_<<clock, granted>>
=============================================================================
