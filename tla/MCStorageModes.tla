--------------------------- MODULE MCStorageModes ---------------------------
(* An instance of StorageModes for TLC. *)
EXTENDS StorageModes

MCInitialValue == [k \in Keys |-> 0]

\* Restoring the initial value costs nothing, anything else costs its value.
MCWriteCost == [k \in Keys |-> [v \in Values |-> v]]
=============================================================================
