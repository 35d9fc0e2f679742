------------------------------ MODULE MCHeapPages ------------------------------
(* Pages with two chunks each. *)
EXTENDS HeapPages

CONSTANTS a, b, h

MCChunks == {a, b}
MCHashes == {h}

Symmetry == Permutations(MCChunks)
================================================================================
