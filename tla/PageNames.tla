------------------------------ MODULE PageNames ------------------------------
(***************************************************************************)
(* Two frames that execute the same instructions on the same inputs, with  *)
(* pages that are numbered differently: which pages a frame got must not   *)
(* show in anything that a user's program computes, sends or pays.  The    *)
(* numbers depend on the calls made before, so a program that saw them     *)
(* could tell apart histories that are to look the same.                   *)
(***************************************************************************)
EXTENDS Instructions

CONSTANTS RightCalldataPage, RightBasePage, RightCalleePage, RightPinnedPage

\* The second numbering is one, too; pages are numbered from 1; and code that is
\* older than the frame in one numbering is so in the other.
ASSUME PageNamesAssumption ==
  /\ RightCalldataPage \in U32s \ {0} /\ RightBasePage \in Nat
  /\ RightCalldataPage < RightBasePage
  /\ RightCalleePage \in U32s /\ RightBasePage + 3 < RightCalleePage
  /\ PinnedPage # 0 /\ RightPinnedPage \in U32s \ {0}
  /\ PinnedPage >= BasePage <=> RightPinnedPage >= RightBasePage

VARIABLES r_registers, r_stack, r_sp, r_flags, r_gas, r_heap_size, r_pc, r_mode,
          r_status, r_seen

rvars == << r_registers, r_stack, r_sp, r_flags, r_gas, r_heap_size, r_pc,
            r_mode, r_status, r_seen >>

Right == INSTANCE Instructions WITH
  CalldataPage <- RightCalldataPage, BasePage <- RightBasePage,
  CalleePage <- RightCalleePage, PinnedPage <- RightPinnedPage,
  registers <- r_registers, stack <- r_stack, sp <- r_sp, flags <- r_flags,
  gas <- r_gas, heap_size <- r_heap_size, pc <- r_pc, mode <- r_mode,
  status <- r_status, seen <- r_seen

\* The kernel sees pages: with it, the second frame stays where it is.
Follows(step) == IF mode.kernel THEN UNCHANGED rvars ELSE step

InitBoth ==
  /\ Init /\ Right!Init
  /\ r_mode = mode /\ r_heap_size = heap_size
  /\ \A r \in Registers : r = 1 \/ r_registers[r] = registers[r]

NextBoth ==
  \/ InvalidInstruction /\ Follows(Right!InvalidInstruction)
  \/ \E i \in Instrs :
       \/ Computes(i) /\ Follows(Right!Computes(i))
       \/ \E w \in Words : Reads(i, w) /\ Follows(Right!Reads(i, w))
       \/ \E w \in Words, refund \in 0..i.cost :
            StorageAccess(i, w, refund) /\ Follows(Right!StorageAccess(i, w, refund))
       \/ PrecompileCall(i) /\ UNCHANGED rvars
       \/ \E valid, fresh, pinned \in BOOLEAN :
            Decommit(i, valid, fresh, pinned) /\ UNCHANGED rvars
       \/ \E c \in Callees :
            FarCall(i, c) /\ Follows(Right!FarCall(i, c))

SpecBoth == InitBoth /\ [][NextBoth]_<< vars, rvars >>

\* The same page, in the numbering of each frame
SamePage(left, right) ==
  << left, right >> \in
    {<< 0, 0 >>, << CalldataPage, RightCalldataPage >>,
     << CalleePage, RightCalleePage >>, << PinnedPage, RightPinnedPage >>}
      \cup {<< HeapPage(h), Right!HeapPage(h) >> : h \in Heaps}

\* Plain words are equal; pointers differ in the numbers of their pages only
Alike(left, right) ==
  /\ left.is_pointer = right.is_pointer
  /\ left.word = [right.word EXCEPT !.page = left.word.page]
  /\ IF left.is_pointer THEN SamePage(left.word.page, right.word.page)
     ELSE left.word = right.word

\* The registers, the stack, the flags, the gas, the memory paid for, the next
\* instruction, the outcome and all words sent out of a user's frame do not
\* depend on how its pages are numbered: erasing takes the numbers out of
\* pointers wherever they are computed with, and the checks on pointers that
\* are not erased come out alike.  (addressing_modes.rs:22-35, pointer.rs:30-40,
\* heap_access.rs:94-98, ret.rs:57-62)
PagesAreInvisible ==
  ~mode.kernel =>
    /\ \A r \in Registers : Alike(registers[r], r_registers[r])
    /\ \A s \in Slots : Alike(stack[s], r_stack[s])
    /\ << sp, flags, gas, heap_size, pc, status >>
         = << r_sp, r_flags, r_gas, r_heap_size, r_pc, r_status >>
    /\ SamePage(seen.page, r_seen.page)
    /\ seen = [r_seen EXCEPT !.page = seen.page]
=============================================================================
