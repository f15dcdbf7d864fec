---------------------------- MODULE MCRESTClient ----------------------------
(* RESTClient with callers and types that are interchangeable. *)
EXTENDS RESTClient, TLC

\* Nothing tells one caller, or one type, from the other.
Symmetry == Permutations(Callers) \cup Permutations(Types)
=============================================================================
