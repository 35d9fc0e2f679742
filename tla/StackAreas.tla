------------------------------ MODULE StackAreas ------------------------------
(***************************************************************************)
(* The slots of stacks (stack.rs, bitset.rs): each frame of a far call has *)
(* a stack of its own, in sub-chunks that are allocated when they are      *)
(* first written.  Coarser areas are marked dirty, so that a used stack    *)
(* from the pool can be zeroed, and the bootloader's be given back to the  *)
(* host, without touching all of it.                                       *)
(***************************************************************************)
EXTENDS Integers, SequencesExt

CONSTANTS
  NUMBER_OF_DIRTY_AREAS,
  SUBCHUNKS_PER_AREA,
  SUBCHUNK_SLOTS,
  Used,      \* the slots programs write to
  Words,     \* what they write: << value, is it a pointer >>
  MaxDepth   \* bound on the number of live frames

NUM_SUBCHUNKS == NUMBER_OF_DIRTY_AREAS * SUBCHUNKS_PER_AREA
DIRTY_AREA_SIZE == SUBCHUNKS_PER_AREA * SUBCHUNK_SLOTS
Slots == 0..(NUM_SUBCHUNKS * SUBCHUNK_SLOTS - 1)

ASSUME AreaAssumption ==
  /\ {NUMBER_OF_DIRTY_AREAS, SUBCHUNKS_PER_AREA, SUBCHUNK_SLOTS}
       \subseteq Nat \ {0}
  /\ Used \subseteq Slots /\ Words \subseteq Int \X BOOLEAN
  /\ MaxDepth \in Nat \ {0}

VARIABLES
  stacks,   \* those of the live frames, the bootloader's first
  pool,     \* StackPool
  snapshot, \* << >>, or << the StackSnapshot in the VM's snapshot >>
  request   \* history: the last operation, and on what

\* The state of the program
state == << stacks, pool, snapshot >>
vars == << state, request >>

Areas == 0..(NUMBER_OF_DIRTY_AREAS - 1)
Subchunks == 0..(NUM_SUBCHUNKS - 1)
AreaOf(subchunk) == subchunk \div SUBCHUNKS_PER_AREA

Values == {0} \cup {word[1] : word \in Words}

\* A sub-chunk is << >> where it is absent.
Chunk == [0..(SUBCHUNK_SLOTS - 1) -> Values]
ZeroChunk == [i \in 0..(SUBCHUNK_SLOTS - 1) |-> 0]
NewStack ==
  [pointer_flags |-> {}, dirty_areas |-> {},
   slots |-> [sc \in Subchunks |-> << >>]]

SlotValue(stack, slot) ==
  LET chunk == stack.slots[slot \div SUBCHUNK_SLOTS]
  IN IF chunk = << >> THEN 0 ELSE chunk[1][slot % SUBCHUNK_SLOTS]

-----------------------------------------------------------------------------
(* Stack *)

\* Mutant: only a non-zero word makes its area dirty.
DirtiedByValue(stack, slot, value) ==
  IF value = 0 THEN stack.dirty_areas
  ELSE stack.dirty_areas \cup {slot \div DIRTY_AREA_SIZE}

Dirtied(stack, slot, value) ==
  stack.dirty_areas \cup {slot \div DIRTY_AREA_SIZE}

\* set, and set_pointer_flag or clear_pointer_flag after it
Set(stack, slot, value, is_pointer) ==
  LET sc == slot \div SUBCHUNK_SLOTS
      chunk == IF stack.slots[sc] = << >> THEN ZeroChunk ELSE stack.slots[sc][1]
  IN [pointer_flags |-> IF is_pointer THEN stack.pointer_flags \cup {slot}
                        ELSE stack.pointer_flags \ {slot},
      dirty_areas |-> Dirtied(stack, slot, value),
      slots |-> [stack.slots EXCEPT
                   ![sc] = << [chunk EXCEPT ![slot % SUBCHUNK_SLOTS] = value] >>]]

\* Mutant: which slots hold pointers is not forgotten.
ZeroedKeepingFlags(stack) ==
  [NewStack EXCEPT !.pointer_flags = stack.pointer_flags]

\* zero: sub-chunks outside dirty areas are not looked at.
Zeroed(stack) ==
  [NewStack EXCEPT
     !.slots = [sc \in Subchunks |->
                  IF AreaOf(sc) \in stack.dirty_areas THEN << >>
                  ELSE stack.slots[sc]]]

\* Mutant: as many areas are saved as are dirty.
SavedAreasCounted(stack) == Cardinality(stack.dirty_areas)

\* dirty_prefix_end
SavedAreas(stack) == Max({a + 1 : a \in stack.dirty_areas} \cup {0})

\* snapshot: the areas up to the last dirty one, densely
SnapshotOf(stack) ==
  [pointer_flags |-> stack.pointer_flags, dirty_areas |-> stack.dirty_areas,
   slots |-> [i \in 1..(SavedAreas(stack) * DIRTY_AREA_SIZE) |->
                SlotValue(stack, i - 1)]]

\* Mutant: what was dirtied since the snapshot is not zeroed.
RestoreBase(stack) == stack

\* rollback starts from nothing,
Base(stack) == Zeroed(stack)

\* and allocates every sub-chunk of the areas that were dirty.
Restored(stack, saved) ==
  LET base == Base(stack)
  IN [pointer_flags |-> saved.pointer_flags, dirty_areas |-> saved.dirty_areas,
      slots |-> [sc \in Subchunks |->
        IF AreaOf(sc) \in saved.dirty_areas
        THEN << [i \in 0..(SUBCHUNK_SLOTS - 1) |->
                   saved.slots[sc * SUBCHUNK_SLOTS + i + 1]] >>
        ELSE base.slots[sc]]]

-----------------------------------------------------------------------------
(* Frames and the host *)

\* AbsoluteStack and the like: set and set_fat_ptr of a destination operand
WriteStack(slot, value, is_pointer) ==
  /\ request' = [op |-> "write", region |-> Len(stacks), start |-> slot,
                 bytes |-> << << value, is_pointer >> >>]
  /\ stacks' = [stacks EXCEPT ![Len(stacks)] =
                  Set(@, slot, value, is_pointer)]
  /\ UNCHANGED << pool, snapshot >>

\* push_frame, with StackPool::get
PushFrame ==
  /\ request' = [op |-> "obtain", region |-> Len(stacks) + 1]
  /\ Len(stacks) < MaxDepth
  /\ IF pool = << >>
     THEN stacks' = Append(stacks, NewStack) /\ UNCHANGED pool
     ELSE stacks' = Append(stacks, Zeroed(Last(pool))) /\ pool' = Front(pool)
  /\ UNCHANGED snapshot

\* pop_frame, with StackPool::recycle: stacks go to the pool as they are.
PopFrame ==
  /\ request' = [op |-> "release", region |-> Len(stacks)]
  /\ Len(stacks) > 1
  /\ pool' = Append(pool, Last(stacks))
  /\ stacks' = Front(stacks)
  /\ UNCHANGED snapshot

MakeSnapshot ==
  /\ request' = [op |-> "save"]
  /\ snapshot = << >> /\ Len(stacks) = 1
  /\ snapshot' = << SnapshotOf(stacks[1]) >>
  /\ UNCHANGED << stacks, pool >>

HostRollback ==
  /\ request' = [op |-> "restore"]
  /\ snapshot # << >> /\ Len(stacks) = 1
  /\ stacks' = << Restored(stacks[1], snapshot[1]) >>
  /\ snapshot' = << >>
  /\ UNCHANGED pool

PopSnapshot ==
  /\ request' = [op |-> "commit"]
  /\ Len(stacks) = 1
  /\ snapshot' = << >>
  /\ UNCHANGED << stacks, pool >>

Init ==
  /\ stacks = << NewStack >>
  /\ pool = << >>
  /\ snapshot = << >>
  /\ request = [op |-> "none"]

Next ==
  \/ \E slot \in Used, word \in Words : WriteStack(slot, word[1], word[2])
  \/ PushFrame \/ PopFrame
  \/ MakeSnapshot \/ HostRollback \/ PopSnapshot

Spec == Init /\ [][Next]_vars

-----------------------------------------------------------------------------
(* Properties *)

\* A sub-chunk is allocated in a dirty area only (stack.rs:103), in stacks of
\* frames and in the pool, and a slot that holds a pointer lies in one too.
OnlyDirtyAreasAreUsed(stack) ==
  /\ \A sc \in Subchunks :
       stack.slots[sc] # << >> => AreaOf(sc) \in stack.dirty_areas
  /\ \A slot \in stack.pointer_flags :
       slot \div DIRTY_AREA_SIZE \in stack.dirty_areas

IsStack(stack) ==
  /\ DOMAIN stack = {"pointer_flags", "dirty_areas", "slots"}
  /\ stack.pointer_flags \subseteq Slots /\ stack.dirty_areas \subseteq Areas
  /\ DOMAIN stack.slots = Subchunks
  /\ \A sc \in Subchunks : stack.slots[sc] = << >> \/ stack.slots[sc][1] \in Chunk
  /\ OnlyDirtyAreasAreUsed(stack)

\* Stacks are stacks, and rollback finds every area it restores in the snapshot
\* (stack.rs:162).
TypeOK ==
  /\ \A d \in DOMAIN stacks : IsStack(stacks[d])
  /\ \A i \in DOMAIN pool : IsStack(pool[i])
  /\ Len(stacks) \in 1..MaxDepth
  /\ snapshot # << >> =>
       \A a \in snapshot[1].dirty_areas :
         (a + 1) * DIRTY_AREA_SIZE <= Len(snapshot[1].slots)

Contents(stack) ==
  [slot \in Slots |->
     << SlotValue(stack, slot), slot \in stack.pointer_flags >>]

SavedContents(saved) ==
  [slot \in Slots |->
     << IF slot < Len(saved.slots) THEN saved.slots[slot + 1] ELSE 0,
        slot \in saved.pointer_flags >>]

Dense == INSTANCE ZeroedMemory WITH
  Addresses <- Slots, Zero <- << 0, FALSE >>, First <- 1,
  memory <- [d \in DOMAIN stacks |-> Contents(stacks[d])],
  saved <- IF snapshot = << >> THEN << >>
           ELSE << SavedContents(snapshot[1]) >>,
  request <- request

\* Sub-chunks, areas and the pool cannot be observed: "this is purely a
\* memory-layout change with no observable difference" (stack.rs:51).  In
\* particular a new frame finds no word and no pointer of an earlier one, and
\* the host gets back what it saved, words and pointer flags.
ImplementsZeroedMemory == Dense!Spec
===============================================================================
