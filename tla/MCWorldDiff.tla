----------------------------- MODULE MCWorldDiff -----------------------------
(* Instances of WorldDiff for TLC. *)
EXTENDS WorldDiffTrace, TLC

MCInitialValue == [k \in Keys |-> 0]

\* Restoring the initial value costs nothing, anything else costs its value.
MCWriteCost == [k \in Keys |-> [v \in Values |-> v]]

\* Nothing but equality is asked of bytecode hashes.
HashesAlike == Permutations(Hashes)

\* All of the state but the kinds of the open calls, which are asked for only
\* where the host may act with a call open (InBootloader).
KindsAside ==
  << rolled_back, charges, trace, decommits, slots, skip_storage_logs,
     [i \in 1..Len(frames) |-> frames[i].world_before_this_frame], snapshot >>
=============================================================================
