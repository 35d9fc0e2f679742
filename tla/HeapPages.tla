------------------------------- MODULE HeapPages -------------------------------
(***************************************************************************)
(* Who owns a heap page, and until when: far calls allocate pages, returns *)
(* free, keep and shrink them (vm.rs), decommitted code pins them          *)
(* (decommit.rs), and the host's rollback and commit reclaim them          *)
(* (state.rs, vm.rs).  The reference machine never frees a page, so nobody *)
(* may notice that this one does.                                          *)
(*                                                                         *)
(* A page belongs to a group; group 0 is the bootloader's, which is always *)
(* allocated, and a far call takes the next group.  Page numbers grow with *)
(* the group.  Of a page's bytes the model has which chunks still are what *)
(* was last written to them.                                               *)
(***************************************************************************)
EXTENDS Naturals, SequencesExt

CONSTANTS
  Chunks,              \* the chunks of a page
  Hashes,              \* hashes of bytecodes
  OlderPagesReturned,  \* do kernel contracts return pages older than they are?
  MaxDepth,            \* bound on the open far calls
  MaxGroups            \* bound on the page groups

ASSUME PageAssumption ==
  /\ OlderPagesReturned \in BOOLEAN
  /\ MaxDepth \in Nat \ {0} /\ MaxGroups \in Nat

VARIABLES
  frames,       \* the far-call frames, the bootloader's first
  dynamic,      \* Heaps::dynamic: the memory of each allocated group
  next,         \* next_base_page, as a group
  decommitted,  \* per hash, << >> or << the page with its code >>
  snapshot,     \* << >>, or << what the host can go back to >>
  panic         \* "none", or where an assertion aborted the program

vars == << frames, dynamic, next, decommitted, snapshot, panic >>

Kinds == {"code", "heap", "aux"}
Page(group, kind) == [group |-> group, kind |-> kind]
Pages == [group : 0..MaxGroups, kind : Kinds \cup {"calldata", "none"}]
NoPage == Page(0, "none")
Heap(f) == Page(f.group, "heap")
AuxHeap(f) == Page(f.group, "aux")
Owned(f) == {Heap(f), AuxHeap(f)}

\* A fat pointer: the chunks of a page it can read
Pointer(page, window) == [page |-> page, window |-> window]

\* The memory of a page: << >> when it is not allocated
Memory == {<< >>} \cup {<< chunks >> : chunks \in SUBSET Chunks}
EmptyGroup == [kind \in Kinds |-> << >>]

\* held: the fat pointers the frame's registers and stack can have.  The program
\* may narrow or drop them, so they have the widest of all it ever got.
Frame(group, calldata, held) ==
  [group |-> group, calldata |-> calldata, keeping |-> << >>, held |-> held]

IsNarrower(p, q) == p.page = q.page /\ p.window \subseteq q.window
Hold(held, p) ==
  IF \E q \in held : IsNarrower(p, q) THEN held
  ELSE {q \in held : ~IsNarrower(q, p)} \cup {p}

Bootloader ==
  LET calldata == Page(0, "calldata")
  IN Frame(0, calldata, {Pointer(calldata, Chunks)})

\* A panic of the program ends it.
Running == panic = "none"
Current == frames[Len(frames)]
InBootloader == Len(frames) = 1

PagesOf(codes) == {codes[h][1] : h \in {g \in Hashes : codes[g] # << >>}}
Pinned == PagesOf(decommitted)

-----------------------------------------------------------------------------
(* Heaps *)

\* Indexing a page: reading one that is not there reads zeros.
At(dyn, page) ==
  IF page.group \in DOMAIN dyn /\ page.kind \in Kinds
  THEN dyn[page.group][page.kind] ELSE << >>

\* dynamic_slot_mut: the vector grows as far as the page needs.
Put(dyn, page, memory) ==
  LET missing == [i \in 1..(page.group - Len(dyn)) |-> EmptyGroup]
  IN IF page.group = 0 THEN dyn
     ELSE [(IF page.group > Len(dyn) THEN dyn \o missing ELSE dyn)
             EXCEPT ![page.group][page.kind] = memory]

\* write_bytes of a whole page, write_u256 to some page: it is allocated when
\* it has to be.
WriteAll(dyn, page) == Put(dyn, page, << Chunks >>)
Touch(dyn, page) ==
  IF At(dyn, page) = << >> THEN Put(dyn, page, << {} >>) ELSE dyn

\* allocate_at, for the two heaps of a group
CanAllocate(dyn, group) ==
  \A kind \in {"heap", "aux"} : At(dyn, Page(group, kind)) = << >>
Allocate(dyn, group) ==
  WriteAll(WriteAll(dyn, Page(group, "heap")), Page(group, "aux"))

\* deallocate, for each of a sequence of pages that is not spared: it must be
\* there, and not be met twice.
CanDeallocate(dyn, doomed, spared) ==
  \A i \in DOMAIN doomed : doomed[i] \notin spared =>
    /\ At(dyn, doomed[i]) # << >>
    /\ \A j \in DOMAIN doomed : doomed[j] = doomed[i] => j = i
Deallocate(dyn, doomed, spared) ==
  [g \in DOMAIN dyn |->
     [kind \in Kinds |->
        IF Page(g, kind) \in ToSet(doomed) \ spared THEN << >>
        ELSE dyn[g][kind]]]

\* compact_to_window: a page that is not there stays so.
CompactToWindow(dyn, page, window) ==
  IF At(dyn, page) = << >> THEN dyn
  ELSE Put(dyn, page, << At(dyn, page)[1] \cap window >>)

Abort(why) ==
  panic' = why /\ UNCHANGED << frames, dynamic, next, decommitted, snapshot >>

-----------------------------------------------------------------------------
(* Decommitment *)

IsFresh(hash) == decommitted[hash] = << >>

\* materialize_decommit_page into a page of a new group, for frames fs: a page
\* not owned by the current frame is kept alive by the bootloader's.
MaterializeNewPage(hash, page) ==
  /\ decommitted' = [decommitted EXCEPT ![hash] = << page >>]
  /\ dynamic' = WriteAll(dynamic, page)

KeepInBootloader(fs, page) ==
  [fs EXCEPT ![1].keeping = Append(@, page)]

\* VirtualMachine::manually_decommit, which the host calls between runs
ManuallyDecommit ==
  \E hash \in Hashes :
    LET page == Page(next, "code")
    IN /\ Running /\ InBootloader /\ next <= MaxGroups
       /\ IsFresh(hash)
       /\ MaterializeNewPage(hash, page)
       /\ frames' = KeepInBootloader(frames, page)
       /\ next' = next + 1
       /\ UNCHANGED << snapshot, panic >>

\* The decommit instruction: fresh code goes to the frame's own heap.
Decommit ==
  \E hash \in Hashes :
    LET page == IF IsFresh(hash) THEN Heap(Current) ELSE decommitted[hash][1]
    IN /\ Running
       /\ decommitted' = [decommitted EXCEPT ![hash] = << page >>]
       /\ dynamic' = IF IsFresh(hash) THEN Touch(dynamic, page) ELSE dynamic
       /\ frames' = [frames EXCEPT ![Len(frames)].held =
                       Hold(@, Pointer(page, Chunks))]
       /\ UNCHANGED << next, snapshot, panic >>

-----------------------------------------------------------------------------
(* Calls *)

\* Pointers the current frame can make, forward or narrow
Nameable ==
  {Pointer(page, window) : page \in Owned(Current), window \in SUBSET Chunks}
    \cup UNION {{Pointer(p.page, window) : window \in SUBSET p.window} :
                p \in Current.held}

\* push_frame.  dyn and fs are memory and frames after a decommitment.
PushFrame(dyn, fs, calldata, held) ==
  IF CanAllocate(dyn, next)
  THEN /\ dynamic' = Allocate(dyn, next)
       /\ frames' = Append(fs, Frame(next, calldata, held))
       /\ next' = next + 1
       /\ UNCHANGED panic
  ELSE panic' = "push_frame" /\ UNCHANGED << frames, dynamic, next >>

CanCall == Running /\ Len(frames) <= MaxDepth /\ next <= MaxGroups

\* far_call.  Fresh code is copied to the code page of the callee's group.
FarCall ==
  \E calldata \in Nameable, hash \in Hashes :
    LET code == Page(next, "code")
        fresh == IsFresh(hash)
    IN /\ CanCall
       /\ decommitted' =
            IF fresh THEN [decommitted EXCEPT ![hash] = << code >>]
            ELSE decommitted
       /\ PushFrame(IF fresh THEN WriteAll(dynamic, code) ELSE dynamic,
                    IF fresh THEN KeepInBootloader(frames, code) ELSE frames,
                    calldata.page, {calldata})
       /\ UNCHANGED snapshot

\* Something is wrong with the callee, the pointer or the price: the callee is
\* entered with the zero pointer, and panics.
FailedFarCall ==
  /\ CanCall
  /\ PushFrame(dynamic, frames, NoPage, {})
  /\ UNCHANGED << decommitted, snapshot >>

\* Mutant: only the frame's own heaps are freed.
DoomedOwn(f) == << Heap(f), AuxHeap(f) >>

\* What pop_frame frees when frame f dies,
Doomed(f) == << Heap(f), AuxHeap(f) >> \o f.keeping

\* Mutant: the check of pins is forgotten when a frame is popped.
SparedUnpinned(kept) == {kept}

\* except for pinned pages and the page kept, which is returned.
Spared(kept) == Pinned \cup {kept}

\* Mutant: a page with decommitted code is shrunk, too.
ShrinksPinned(f, page) == page \in Owned(f)

\* A returned page is shrunk to the pointer's window if nobody else can name it.
Shrinks(f, page) == page \in Owned(f) /\ page \notin Pinned

\* pop_frame, when the current frame returns pointer p
PopFrameReturning(p) ==
  LET doomed == Doomed(Current)
      freed == Deallocate(dynamic, doomed, Spared(p.page))
      caller == Len(frames) - 1
  IN IF CanDeallocate(dynamic, doomed, Spared(p.page))
     THEN /\ dynamic' = IF Shrinks(Current, p.page)
                        THEN CompactToWindow(freed, p.page, p.window)
                        ELSE freed
          /\ frames' = [Front(frames) EXCEPT
                          ![caller].keeping = Append(@, p.page),
                          ![caller].held = Hold(@, p)]
          /\ UNCHANGED << next, decommitted, snapshot, panic >>
     ELSE Abort("pop_frame")

\* pop_frame, when it returns nothing
PopFrame ==
  LET doomed == Doomed(Current)
  IN IF CanDeallocate(dynamic, doomed, Spared(NoPage))
     THEN /\ dynamic' = Deallocate(dynamic, doomed, Spared(NoPage))
          /\ frames' = Front(frames)
          /\ UNCHANGED << next, decommitted, snapshot, panic >>
     ELSE Abort("pop_frame")

\* Mutant: any page may be returned.
IsAnyPage(f, page) == TRUE

\* What naked_ret asks of a frame that is not in kernel mode
IsUnidirectional(f, page) == page.group >= f.group /\ page # f.calldata

\* Ret and Revert with a pointer.  A frame in kernel mode is not checked, and
\* unless OlderPagesReturned keeps to the rule by itself.  Nothing else depends
\* on the mode, so any frame may be in kernel mode.
ReturnPointer ==
  \E p \in Nameable :
    /\ Running /\ ~InBootloader
    /\ \/ IsUnidirectional(Current, p.page)
       \/ OlderPagesReturned
    /\ PopFrameReturning(p)

\* A panic, a bad pointer among its causes
ReturnNothing == Running /\ ~InBootloader /\ PopFrame

\* A store to one of the frame's heaps
WriteHeap ==
  \E page \in Owned(Current) :
    /\ Running
    /\ dynamic' = Touch(dynamic, page)
    /\ UNCHANGED << frames, next, decommitted, snapshot, panic >>

-----------------------------------------------------------------------------
(* The host.  All assert that only the bootloader's frame is left. *)

\* pages is history.
MakeSnapshot ==
  /\ Running /\ InBootloader /\ snapshot = << >>
  /\ snapshot' = << [keeping     |-> Len(frames[1].keeping),
                     held        |-> frames[1].held,
                     groups      |-> Len(dynamic),
                     next        |-> next,
                     decommitted |-> decommitted,
                     pages       |-> dynamic] >>
  /\ UNCHANGED << frames, dynamic, next, decommitted, panic >>

\* Callframe::rollback: what the bootloader's frame kept alive before, and what
\* it has kept alive since
KeptBefore(back) == SubSeq(frames[1].keeping, 1, back.keeping)
KeptSince(back) ==
  SubSeq(frames[1].keeping, back.keeping + 1, Len(frames[1].keeping))

\* Mutant: later groups are not swept.
TruncateNothing(dyn, len) == dyn

\* truncate_dynamic_to
TruncateDynamicTo(dyn, len) == SubSeq(dyn, 1, len)

\* VirtualMachine::rollback: the pins go back first, then the pages.
HostRollback ==
  LET back == snapshot[1]
      doomed == KeptSince(back)
      pins == PagesOf(back.decommitted)
  IN /\ Running /\ InBootloader /\ snapshot # << >>
     /\ IF CanDeallocate(dynamic, doomed, pins)
        THEN /\ frames' = << [frames[1] EXCEPT !.keeping = KeptBefore(back),
                                               !.held = back.held] >>
             /\ dynamic' = TruncateDynamicTo(Deallocate(dynamic, doomed, pins),
                                             back.groups)
             /\ next' = back.next
             /\ decommitted' = back.decommitted
             /\ snapshot' = << >>
             /\ UNCHANGED panic
        ELSE Abort("rollback")

\* Mutant: pinned pages are reclaimed as well.
RetainedNone == {}

\* reclaim_bootloader_returndata_heaps: what to retain,
Retained == Pinned

\* and a list with only that (Vec::retain)
Retain(keeping, pages) ==
  LET retained[i \in 0..Len(keeping)] ==
        IF i = 0 THEN << >>
        ELSE IF keeping[i] \in pages THEN Append(retained[i - 1], keeping[i])
        ELSE retained[i - 1]
  IN retained[Len(keeping)]

\* pop_snapshot.  That pointers to the reclaimed pages are dead once the
\* bootloader moves on is up to the bootloader.
PopSnapshot ==
  LET keeping == frames[1].keeping
      Survives(page) == page \notin ToSet(keeping) \ Retained
  IN /\ Running /\ InBootloader
     /\ IF CanDeallocate(dynamic, keeping, Retained)
        THEN /\ dynamic' = Deallocate(dynamic, keeping, Retained)
             /\ frames' = << [frames[1] EXCEPT
                                !.keeping = Retain(@, Retained),
                                !.held = {p \in @ : Survives(p.page)}] >>
             /\ snapshot' = << >>
             /\ UNCHANGED << next, decommitted, panic >>
        ELSE Abort("pop_snapshot")

-----------------------------------------------------------------------------
Init ==
  /\ frames = << Bootloader >>
  /\ dynamic = << >>
  /\ next = 1
  /\ decommitted = [h \in Hashes |-> << >>]
  /\ snapshot = << >>
  /\ panic = "none"

Next ==
  \/ ManuallyDecommit \/ Decommit
  \/ FarCall \/ FailedFarCall \/ ReturnPointer \/ ReturnNothing
  \/ WriteHeap
  \/ MakeSnapshot \/ HostRollback \/ PopSnapshot

Spec == Init /\ [][Next]_vars

-----------------------------------------------------------------------------
(* Properties *)

Pointers == [page : Pages, window : SUBSET Chunks]

\* Types, and what vm.rs and heap.rs take for granted: there is always a frame,
\* and no group beyond the counter is in use.
TypeOK ==
  /\ Len(frames) >= 1
  /\ \A i \in DOMAIN frames :
       /\ frames[i].group \in 0..MaxGroups
       /\ frames[i].calldata \in Pages
       /\ frames[i].keeping \in Seq(Pages)
       /\ frames[i].held \subseteq Pointers
  /\ dynamic \in Seq([Kinds -> Memory])
  /\ next \in 1..(MaxGroups + 1) /\ Len(dynamic) < next
  /\ \A h \in Hashes : decommitted[h] \in {<< >>} \cup {<< p >> : p \in Pages}
  /\ panic \in {"none", "push_frame", "pop_frame", "rollback", "pop_snapshot"}

\* Whether the page has everything that was written to these chunks
Holds(page, chunks) ==
  page.group = 0 \/ (At(dynamic, page) # << >>
                     /\ chunks \subseteq At(dynamic, page)[1])

\* No return, commit or rollback takes anything away from the heaps of a frame
\* that is still open (vm.rs:337, 372): heap_read is bounded by no pointer.
LiveHeapsIntact ==
  \A i \in DOMAIN frames : \A page \in Owned(frames[i]) : Holds(page, Chunks)

\* Whatever a frame holds a fat pointer to can be read through it, although the
\* page's owner is long gone (vm.rs:337, 372; callframe.rs:44).
HeldPointersReadable ==
  \A i \in DOMAIN frames : \A p \in frames[i].held : Holds(p.page, p.window)

\* The page recorded for a hash is there, whole, as long as it is recorded
\* (decommit.rs:24 hands it out without a look).
PinnedPagesIntact == \A page \in Pinned : Holds(page, Chunks)

\* Nothing leaks: an allocated page belongs to an open frame, is kept alive by
\* one, or is pinned (vm.rs:234: memory stays at one transaction's worth).
NothingLeaks ==
  \A g \in DOMAIN dynamic, kind \in Kinds :
    dynamic[g][kind] # << >> =>
      \/ Page(g, kind) \in Pinned
      \/ \E i \in DOMAIN frames :
           Page(g, kind) \in Owned(frames[i]) \cup ToSet(frames[i].keeping)

\* The host gets back exactly the pages there were when it took the snapshot,
\* however they were passed on since (state.rs:163, 174).
RollbackRestoresPages ==
  [][ snapshot # << >> /\ next' < next => dynamic' = snapshot[1].pages ]_vars

\* Calls, returns and commits never meet an assertion of heap.rs: no page is
\* freed twice, nor is one allocated that is still there (heap.rs:344, 378).
OnlyRollbackPanics == panic \in {"none", "rollback"}

\* heap.rs:372: the panics of deallocate are "not reachable conditions".
DeallocationNeverPanics ==
  panic \notin {"pop_frame", "rollback", "pop_snapshot"}
================================================================================
