------------------------------- MODULE MCCalls -------------------------------
(* Instances of Calls for TLC. *)
EXTENDS Calls
=============================================================================
