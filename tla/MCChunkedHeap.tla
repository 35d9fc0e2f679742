----------------------------- MODULE MCChunkedHeap -----------------------------
(* Heaps of two chunks, each as long as a word. *)
EXTENDS ChunkedHeap

MCWords == {<< 0, 1 >>, << 1, 1 >>}
MCStrings == {<< >>, << 1, 1, 1 >>}
================================================================================
