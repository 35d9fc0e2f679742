------------------------------ MODULE Rollback ------------------------------
(***************************************************************************)
(* The journaled containers of rollback.rs, as operators over values.      *)
(*                                                                         *)
(* A RollbackableMap is a record [map, old_entries]: `map` is a total      *)
(* function in which None stands for an absent key, and `old_entries` is   *)
(* the undo journal, one entry per mutation holding what was there before. *)
(* A snapshot of such a map is the length of its journal.                  *)
(*                                                                         *)
(* Undoing is stated in closed form - the oldest undone entry of a key     *)
(* decides - rather than as the loop of the code, so that it can be        *)
(* reasoned about without induction.  Module WorldDiffTrace has the loops, *)
(* its runs check that the two agree, and WorldDiffTraceProofs proves it.  *)
(***************************************************************************)
EXTENDS Integers, Sequences

CONSTANT None    \* an absent key

-----------------------------------------------------------------------------
(* RollbackableMap *)

JournaledMap(K, V) ==
  [map         : [K -> V \cup {None}],
   old_entries : Seq([key : K, old : V \cup {None}])]

EmptyMap(K) == [map |-> [k \in K |-> None], old_entries |-> << >>]

MapInsert(m, k, v) ==
  [map         |-> [m.map EXCEPT ![k] = v],
   old_entries |-> Append(m.old_entries, [key |-> k, old |-> m.map[k]])]

\* Flag sets stand for the bits of a u8; an absent entry counts as no flags.
AddsFlags(m, k, flags) == m.map[k] = None \/ ~(flags \subseteq m.map[k])

\* Mutant: the flags replace those already set.
AddFlagsOverwriting(m, k, flags) ==
  IF AddsFlags(m, k, flags) THEN MapInsert(m, k, flags) ELSE m

AddFlags(m, k, flags) ==
  IF AddsFlags(m, k, flags)
  THEN MapInsert(m, k, IF m.map[k] = None THEN flags ELSE m.map[k] \cup flags)
  ELSE m

\* Mutant: the index of the last entry instead of the length.
MapSnapshotLastIndex(m) == Len(m.old_entries) - 1

MapSnapshot(m) == Len(m.old_entries)

\* Journal positions after n that concern key k.
Touched(m, n, k) == {i \in (n + 1)..Len(m.old_entries) : m.old_entries[i].key = k}

\* Mutant: the newest undone entry decides, as if drained front to back.
OldestTakesNewest(S) == CHOOSE i \in S : \A j \in S : j <= i

Oldest(S) == CHOOSE i \in S : \A j \in S : i <= j

\* What the map held when its journal was n entries long.
MapAt(m, n) ==
  [k \in DOMAIN m.map |->
     IF Touched(m, n, k) = {} THEN m.map[k]
     ELSE m.old_entries[Oldest(Touched(m, n, k))].old]

\* Vec::drain(n..) panics when n is past the end of the journal.
CanRollback(m, n) == n <= Len(m.old_entries)

\* Mutant: one entry more than was journaled since is drained.
MapRollbackOneTooMany(m, n) ==
  LET kept == IF n = 0 THEN 0 ELSE n - 1
  IN [map |-> MapAt(m, kept), old_entries |-> SubSeq(m.old_entries, 1, kept)]

MapRollback(m, n) ==
  [map |-> MapAt(m, n), old_entries |-> SubSeq(m.old_entries, 1, n)]

\* Mutant: the first old value met, newest first, is kept (no and_modify).
ChangesAfterLastWrite(m, n) ==
  [k \in {j \in DOMAIN m.map : Touched(m, n, j) # {}} |->
     [before |-> m.old_entries[CHOOSE i \in Touched(m, n, k) :
                                 \A j \in Touched(m, n, k) : j <= i].old,
      after  |-> m.map[k]]]

\* For every key journaled after n: the value at n and the value now.
ChangesAfter(m, n) ==
  [k \in {j \in DOMAIN m.map : Touched(m, n, j) # {}} |->
     [before |-> MapAt(m, n)[k], after |-> m.map[k]]]

MapDeleteHistory(m) == [map |-> m.map, old_entries |-> << >>]

-----------------------------------------------------------------------------
(* RollbackableSet: the journal lists the keys that were really added *)

JournaledSet(K) == [map : SUBSET K, old_entries : Seq(K)]

EmptySet == [map |-> {}, old_entries |-> << >>]

\* Mutant: a key that is already present is journaled again.
SetAddAlwaysJournals(s, k) ==
  [map |-> s.map \cup {k}, old_entries |-> Append(s.old_entries, k)]

SetAdd(s, k) ==
  IF k \in s.map THEN s
  ELSE [map |-> s.map \cup {k}, old_entries |-> Append(s.old_entries, k)]

SetAt(s, n) == s.map \ {s.old_entries[i] : i \in (n + 1)..Len(s.old_entries)}

SetRollback(s, n) ==
  [map |-> SetAt(s, n), old_entries |-> SubSeq(s.old_entries, 1, n)]

SetDeleteHistory(s) == [map |-> s.map, old_entries |-> << >>]

-----------------------------------------------------------------------------
(* RollbackableLog: Vec::truncate keeps a log that is already shorter *)

\* Mutant: the last entry that was there before is cut off, too.
LogRollbackOneTooMany(log, n) ==
  IF n < Len(log) THEN SubSeq(log, 1, IF n = 0 THEN 0 ELSE n - 1) ELSE log

LogRollback(log, n) == IF n < Len(log) THEN SubSeq(log, 1, n) ELSE log
=============================================================================
