----------------------------- MODULE ZeroedMemory -----------------------------
(***************************************************************************)
(* What heap.rs and stack.rs promise of memory: every region reads as zero *)
(* until it is written, a write changes what it names and nothing else,    *)
(* and the host gets the first region back as it was.  Heaps and stacks    *)
(* implement it with memory allocated piece by piece and used again        *)
(* ("identical to a dense zero-initialized heap", heap.rs:33).             *)
(***************************************************************************)
EXTENDS Naturals, Sequences

CONSTANTS Addresses, Zero, First

VARIABLES
  memory,  \* the contents of each live region
  saved,   \* << >>, or << the contents the host can have back >>
  request  \* what was asked last

vars == << memory, saved, request >>

Zeros == [a \in Addresses |-> Zero]

Obtain(r) ==
  /\ r \notin DOMAIN memory
  /\ memory' = [q \in DOMAIN memory \cup {r} |->
                  IF q = r THEN Zeros ELSE memory[q]]
  /\ UNCHANGED saved

Release(r) ==
  /\ r \in DOMAIN memory \ {First}
  /\ memory' = [q \in DOMAIN memory \ {r} |-> memory[q]]
  /\ UNCHANGED saved

Write(r, start, bytes) ==
  LET Written(a) == a \in start..(start + Len(bytes) - 1)
  IN /\ memory' = [memory EXCEPT ![r] =
                     [a \in Addresses |->
                        IF Written(a) THEN bytes[a - start + 1] ELSE @[a]]]
     /\ UNCHANGED saved

\* Some of what is outside the window may be lost.
Shrink(r, window) ==
  /\ memory' \in {[memory EXCEPT ![r] =
                     [a \in Addresses |-> IF a \in lost THEN Zero ELSE @[a]]] :
                  lost \in SUBSET (Addresses \ window)}
  /\ UNCHANGED saved

Save == saved' = << memory[First] >> /\ UNCHANGED memory

Restore ==
  /\ memory' = [memory EXCEPT ![First] = saved[1]]
  /\ saved' = << >>

Commit == saved' = << >> /\ UNCHANGED memory

Init ==
  /\ memory = [r \in {First} |-> Zeros]
  /\ saved = << >>
  /\ request = [op |-> "none"]

\* Whatever is asked is done.
Next ==
  LET asked == request'
  IN CASE asked.op = "obtain"  -> Obtain(asked.region)
       [] asked.op = "release" -> Release(asked.region)
       [] asked.op = "write"   -> Write(asked.region, asked.start, asked.bytes)
       [] asked.op = "shrink"  -> Shrink(asked.region, asked.window)
       [] asked.op = "save"    -> Save
       [] asked.op = "restore" -> Restore
       [] asked.op = "commit"  -> Commit

Spec == Init /\ [][Next]_vars
===============================================================================
