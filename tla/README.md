# A TLA+ verification of vm2

vm2 is the out-of-circuit EraVM: a register machine that runs zkSync bytecode
for a host (the node, or a re-execution verifier).  This directory holds TLA+
modules translated from `src/crates/vm2/src`, TLC configurations that check them
on small instances, and proofs that TLAPS checks for every instance.

## 1. The system

| Component | Source | State | Operations |
|---|---|---|---|
| Rollback journals | `rollback.rs` | a map, set or vector and an undo journal | insert, add_flags, add, push; snapshot, rollback, delete_history, changes_after |
| World diff | `world_diff.rs` | pending storage and transient storage, events, L2-to-L1 logs, pubdata, refunds, costs, storage log trace, decommitted hashes, pinned pages, slot flags, cache of initial values | read/write of slots, record_event, set_decommit_page, snapshot/rollback of frames, external_snapshot/external_rollback of the host, start of a transaction |
| Frames and gas | `callframe.rs`, `near_call.rs`, `far_call.rs`, `ret.rs`, `state.rs` | a stack of far-call frames, each with a stack of near calls; gas per call | near call, far call, return, revert, panic, use_gas, total_unspent_gas |
| Host interface | `vm.rs`, `state.rs` | at most one VM snapshot | run, resume_with_additional_gas_limit, make_snapshot, rollback, pop_snapshot |
| Heap pages | `heap.rs`, `page_ids.rs`, `vm.rs` | allocated pages, keep-alive lists, pinned pages, chunk pool | allocate, deallocate, compact_to_window, truncate_dynamic_to, write with undo |
| Decommitment | `decommit.rs` | (in the world diff) | choice of code hash, payment, materialization of a page |
| Stack | `stack.rs` | 2^16 slots in lazily allocated sub-chunks, dirty areas | get, set, zero, snapshot, rollback, recycle |
| Fat pointers, memory growth | `fat_pointer.rs`, `pointer.rs`, `heap_access.rs`, `far_call.rs` | paid heap sizes | pointer add/sub/pack/shrink, grow_heap, loads and stores, ABI registers |
| Dispatch | `common.rs`, `predication.rs`, `mode_requirements.rs` | flags, program counter | static gas, mode check, predicate, dst1 clearing |
| Arithmetic, addressing | `binop.rs`, `addressing_modes.rs`, `context.rs`, `jump.rs`, `nop.rs` | registers, stack, stack pointer, all with pointer flags | operands and their erasing, arithmetic and logic, context |
| Decoding | `decode.rs`, `program.rs`, `instruction.rs` | none | bit encodings of instructions, choice of a handler |
| Precompiles, tracing, test harnesses | `precompiles/`, `tracing.rs`, `single_instruction_test/` | none of their own | pure or test-only |

The program is single-threaded.  What makes it hard is not concurrency but
*undo*: every near call, far call and the host can each throw back a different
part of the same state.

* A failing frame takes back storage, transient storage, events, logs and
  pubdata, but not refunds, costs, warm slots, decommits or the storage log trace
  (to which it *adds* entries).
* The host takes back all of these, except the cache of initial values, and
  except that transient storage goes back only to the last point it was cleared.
* Snapshots are lengths of journals, so a snapshot is meaningful only while
  nobody has cut or cleared the journal below it.  Nothing in the types says so:
  correctness rests on calls and host operations nesting.

`PROJECT.json` lists the components with what is modelled of each, and under
`hazards` the places where the code could go wrong in ways a test hardly reaches.

### What makes each component correct

* Journals: undoing restores exactly what was there; earlier snapshots survive
  later insertions and later undoing.
* World diff: a failed call leaves no trace except in what deliberately survives
  it; the trace explains every value read; refunds follow the history of a slot;
  the pubdata counter is what the pending writes paid.
* Host interface: the snapshot can be returned to at any time and gives back
  exactly what was snapshotted.
* Frames and gas: gas is moved, never made; heap pages: no live frame can name a
  freed page, no page is freed twice; stack and heap contents: the lazy, pooled,
  undoable structures behave like plain zeroed memory.
* Instructions: no pointer a program can make covers memory it was not handed and
  has not paid for, and the numbers of pages, which depend on unrelated calls, show
  in nothing a user's program computes.

## 2. Modules

| Module | What it is |
|---|---|
| `Rollback` | the journaled containers of `rollback.rs`, as operators over values |
| `AbstractWorld` | what the world diff promises, with copies instead of journals |
| `WorldDiff` | `world_diff.rs`, the frames that undo it, and the host (`vm.rs`) |
| `WorldDiffTrace` | properties of whole histories, and the loops of `rollback.rs` |
| `StorageModes` | the world diff with and without the storage log trace, the same program on both |
| `Calls` | gas and the stack of calls (`callframe.rs`, `near_call.rs`, `far_call.rs`, `ret.rs`), under the run loops of `vm.rs` |
| `HeapPages` | who owns a heap page, and until when (`heap.rs`, `vm.rs`, `state.rs`, `decommit.rs`, `ret.rs`) |
| `ZeroedMemory` | what heaps and stacks promise: plain zeroed memory, the host's part of which can be had back |
| `ChunkedHeap` | the bytes of heaps: chunks, their pool, windows, the undo journal (`heap.rs`) |
| `StackAreas` | the slots of stacks: sub-chunks, dirty areas, their pool, snapshots (`stack.rs`, `bitset.rs`) |
| `Instructions` | one far-call frame that executes instructions (`instruction_handlers/`, `addressing_modes.rs`, `predication.rs`, `mode_requirements.rs`) |
| `PageNames` | two frames of `Instructions` with pages numbered differently |
| `MCWorldDiff`, `MCStorageModes`, `MCCalls`, `MCHeapPages`, `MCChunkedHeap`, `MCStackAreas`, `MCPageNames` | instances for TLC |
| `FoldProofs` | induction over finite sets and what it says of folds: sums and their parts |
| `WorldDiffProofs` | lemmas about the containers; type correctness of `WorldDiff`; the cache of initial values; snapshots nest; open calls and the host can undo; pins follow decommits; `WorldDiff` implements `AbstractWorld` |
| `WorldDiffTraceProofs` | all properties of `WorldDiffTrace` and `StorageModes`: the loops of `rollback.rs`, reported changes, pubdata, the storage log trace, flags and refunds, recording or not |
| `CallsProofs` | type correctness of `Calls`, conservation of gas, the caller's share, memory growth, the additional gas limit |
| `InstructionsProofs` | type correctness of `Instructions`, what pointers cover; that page numbers are invisible (`PageNames`) |
| `ChunkedHeapProofs` | `ChunkedHeap` implements `ZeroedMemory`; equality of heaps |
| `StackAreasProofs` | `StackAreas` implements `ZeroedMemory` |
| `HeapPagesProofs` | all properties of `HeapPages`, for kernels that return no older pages |

### How the model corresponds to the code

A `RollbackableMap` is a record `[map, old_entries]`; `map` is total, `None`
stands for an absent key.  `rollback` is stated in closed form (the *oldest*
undone entry of a key decides, `MapAt`) so that it can be reasoned about without
induction; `WorldDiffTrace` also has the loops of the code (`DrainReverse`,
`ChangesLoop`), the invariants `DrainIsOldestEntry` and `ChangesAreADiff` compare
them with the closed forms in every reachable state, and `WorldDiffTraceProofs`
proves that they agree.

The variables of `WorldDiff` have the names of the fields in `world_diff.rs`.
`frames` is the stack of open calls above the bootloader: a near call's and a far
call's snapshot are treated alike there, as in `naked_ret`.  `snapshot` is
`VirtualMachine::snapshot`, which also copies the bootloader's near calls.
Each action is one instruction as far as it reaches the world diff
(`ReadStorage`, `WriteStorage`, `WriteFreeStorage`, `ReadTransientStorage`,
`WriteTransientStorage`, `RecordEvent`, `RecordL2ToL1Log`, `ChargePubdata`,
`DecommitOpcode`, `NearCall`, `FarCall`, `ReturnOk`, `ReturnFailed`) or one call
of the host (`MakeSnapshot`, `HostRollback`, `PopSnapshot`), or the bootloader's
`IncrementTxNumber` (`StartNewTx`).  A far call reads the callee's code info and
may decommit it *before* its snapshot is taken, as in `far_call`.

What is nondeterministic: which slot, value, message, hash or page is used;
whether a call returns or fails; whether the callee's code can be paid for; what
the host does between instructions of the bootloader; the recording mode, chosen
once (`set_record_storage_logs`).  World (initial values, free slots, costs) is a
constant: `read_storage` has to be a function for the program to make sense.

`HostAnywhere` is FALSE in the passing runs: host operations and
`IncrementTxNumber` happen while no call is open.  The assertions of `vm.rs` admit
near calls of the bootloader as well; run `WorldDiffHostInNearCall` shows what
then happens.

`Calls` is about the same calls, seen from their gas.  It does not extend
`WorldDiff`: a call's success or failure, and the refunds and prices `WorldDiff`
decides on, are nondeterministic choices here, and whether gas suffices is one
there.  `calls` is one flat stack, each entry with the gas its call can use:
the code keeps the gas of the innermost call in `Callframe::gas` and that of the
others in `NearCallFrame::previous_frame_gas`, and `push_near_call` and
`pop_near_call` move it between the two.  `sizes` has, per far-call frame, the heap
sizes that were paid for.  `given`, `charged` and the limit's `started` and
`unspent` are history; no guard reads them.  An action is one handler with the
boilerplate around it and the check of the run loop behind it (`Loop`); an
instruction pays its static cost in `Executes`, or panics for free
(`PanicForFree`), and what goes wrong later is left to the instruction `PANIC` at
the program counter (`SpontaneousPanic`).  A far call that fails still enters its
callee, which starts at `PANIC`.  Host and tracer stops are the `ended` of `Loop`.

`HeapPages` is the third view of the same calls.  Its `dynamic` is
`Heaps::dynamic`; of a page's bytes it has which chunks are still what was last
written to them.  `held` over-approximates the fat pointers a frame's registers
and stack can contain: a program may keep, narrow or drop any it was given.  The
pages of a frame's own code are allocated when its hash is fresh, so code pages,
pins and keep-alive lists arise as in `materialize_decommit_page`.  Three things
are assumed of the environment.  `OlderPagesReturned = FALSE`: kernel frames, which
`naked_ret` does not check, do not return older pages of their own accord
(`vm.rs:362`: "only convention in `era-contracts`"); run `HeapPagesKernel` shows what
happens otherwise.  After `pop_snapshot` the bootloader drops pointers into
returndata of committed transactions (`vm.rs:230`).  And `manually_decommit` is
called between runs only, as its comment asks.

`StorageModes` runs two world diffs in lockstep: the variables of `WorldDiff` record
the trace, an INSTANCE of the same module over the `q_` variables runs with
`set_record_storage_logs(false)`.  Its actions are conjunctions: the same operation,
on the same slot, taken by both.  The deduplication the flags replace happens
outside of this repository; `DidReadAtDepthZero` translates the comment that says
what it computes (`world_diff.rs:30-33`).

`Instructions` is the inside of one far-call frame.  The program is not fixed: at
every program counter any instruction of `Instrs` may stand, so all programs up
to a length are explored (and a jump back makes longer ones).  A word has five
limbs: the four 32-bit fields of a fat pointer and the 128 bits above.  What memory,
the world and a callee answer is arbitrary; a far call is one action with all that
its callee does.  An action is a handler with its boilerplate (`Runs`, `Put`,
`Continues`): predicate, modes, static gas, operands, outputs, the clearing of dst1.
`seen`, the memory accessed and the words sent out last, is history.  A frame that
panics ends.  `InstructionsAssumption` states what decoding guarantees (`Decoded`:
which operands and modifiers an opcode can have, and that `decommit` and `precompile`
are kernel-only) and that pages are numbered in the order of their creation.

`PageNames` runs two such frames on the same instructions, words and callees, whose
pages have different numbers.  The kernel sees the numbers (its operands are not
erased), so in kernel mode only one of the two frames moves.

`ChunkedHeap` and `StackAreas` say what is stored where, under the same operations.
The loops over chunks are stated in closed form: a write takes the next chunks of
the pool for the absent ones it touches, in order; undoing a journal leaves each
byte as the *oldest* entry that covers it has it.  `request`, the last operation
asked for, is history; it makes the abstract specification do the same operation,
and `VIEW state` keeps it out of the fingerprint (no guard reads it).

## 3. What is checked

| Run | Question |
|---|---|
| `WorldDiffStorage` | Two slots (one free), two values, three accesses, far calls nested twice, host snapshots, both recording modes.  Does every failure and rollback restore exactly the right part of the world, and do trace, flags, refunds and pubdata agree? |
| `WorldDiffLedger` | One slot, transient storage, one message, precompile pubdata, two bytecodes and one page, near and far calls nested twice, transactions.  The same for everything that is not storage, and do the snapshots of open calls and of the host nest? |
| `WorldDiffHostInNearCall` | (violation) `world_diff.rs:590` says external snapshots must only be taken in the initial frame; `make_snapshot` only checks `previous_frames`, so one taken in a near call of the bootloader is left ahead of the journals when that call fails. |
| `StorageModes` | Two slots, two values, three accesses, calls and host snapshots, on a world diff with the trace and on one without.  Can anything but a reader of the trace tell them apart, and do the flags give the deduplicated slots? |
| `CallsGas` | Six units of gas, calls three deep, one host snapshot, a gas limit of two.  Is gas conserved, growth paid for, the caller's share kept and the limit enforced, and does every run end? |
| `CallsLimit` | (violation) `vm.rs:126` promises an answer unless the limit was exceeded; a near call that passes on a third of the gas makes the rest look spent (`state.rs:124`), and the answer is "exceeded". |
| `HeapPages` | Three far calls deep, three page groups, two chunks per page, one bytecode.  Does every frame keep what it can name, does nothing leak, is nothing freed twice by a call or a commit, and does the host get back exactly its pages? |
| `HeapPagesPanic` | (violation) `heap.rs:372` says the panics of `deallocate` are not reachable; a contract that decommits its own fresh code and returns it up to the bootloader puts that page into the bootloader's keep-alive list twice, and `rollback` frees it twice. |
| `HeapPagesKernel` | (violation) `callframe.rs:44` says whatever is kept alive may be freed on return; a kernel frame may return its calldata, the heap of a frame that is still open, to a frame that then frees it.  `vm.rs:363` and `divergence_regressions.rs` (`keepalive_deallocation_frees_live_grandparent_heap`) know of it. |
| `ChunkedHeap` | Two chunks of two bytes, stores of words and of three bytes at any offset, every window, two journal entries.  Are heaps plain zeroed memory? |
| `StackAreas` | Two areas of two sub-chunks of two slots, three slots in use, two frames.  Are stacks plain zeroed memory, pointer flags included? |
| `PageNames` | Forty-six instructions, programs of three (more if they jump back), user and kernel mode, seven ways in which a callee ends, two numberings of pages.  Do pointers and accesses stay within what was handed over or paid for, and are numbers of pages invisible to users? |

Properties, from the strongest:

* `ImplementsAbstractWorld`: every step is a step of `AbstractWorld`, under the
  refinement mapping that reads saved copies off the journals (`WorldAt`,
  `LedgerAt`).  It says at once that failures restore, that copies are never
  disturbed, that ledger and trace only grow, and what the host gets back.
* `TraceReplays`, `RollbackTwins`: the storage log trace is a faithful, replayable
  history, reverted writes included.
* `RefundsFollowHistory`, `FlagsMatchTrace`, `PubdataIsPaid`: refunds, warmth and
  pubdata against the trace and the pending writes.
* `OpenCallsCanFail`, `SnapshotStaysAhead`, `SnapshotsNest`: no undo indexes past
  a journal (where `Vec::drain` would abort the program), whatever inner calls did
  and however the host's snapshot, the calls after it and new transactions
  interleave.  The three hold, and are proved, for a host that acts only while no
  call is open (`HostAnywhere = FALSE`).  `delete_history` concedes that it
  "sometimes" runs inside a near call of the bootloader (`vm.rs:254-257`).  With
  `HostAnywhere = TRUE`, TLC breaks `OpenCallsCanFail` in three steps: a write, a near
  call, `pop_snapshot`; the journals are empty now, and the near call's failure would
  drain from behind their end.  It is the same gap between the assertion on
  `previous_frames` and what the journals need that run `WorldDiffHostInNearCall` shows
  for the host's snapshot.
* `WrittenSlotsAreCached`, `ChangesAreADiff`: `get_storage_changes` and
  `get_storage_changes_after` never index or unwrap what is not there and report
  exactly the difference.
* `PinnedPagesAreSucceeded`: the pin set is the set of pages of successful
  decommits, also when two hashes share a page.
* `EveryCallBalances`: what a call has left, what was used up in it and what the
  call it waits for was given add up to what it was given.  A refund, a return, a
  burned remainder, mandated gas and the host's rollback all have to fit.
* `GrowthIsCharged`: the heap sizes of a frame beyond its stipend were paid for by
  its calls, also after a rollback of the host gave gas back.
* `LimitIsEnforced`: with no near call open when it was set, the additional limit
  bounds what is really spent at every step, and what it reports as left.
* `CallerKeepsItsShare`: the 63/64 rule, with the mandated gas on top.
* `RunsEnd`: whatever the program is, the run loop returns.
* `ImplementsZeroedMemory` (of heaps and of stacks): no operation can tell chunks,
  windows, areas or reuse from memory that is plain and zeroed, and the host gets
  back what it saved.
* `LiveHeapsIntact`, `HeldPointersReadable`, `PinnedPagesIntact`: no return, commit or
  rollback takes from a live frame, a pointer or a recorded bytecode what it can
  still name.  `NothingLeaks` is their counterpart.
* `RollbackRestoresPages`: freeing by list, sparing pins and truncating the rest adds
  up to the pages of the snapshot.
* `OnlyRollbackPanics`: calls, returns and commits meet no assertion of `heap.rs`
  (rollback does, see `HeapPagesPanic`).
* `ModesAgree`, `FlagIsDepthZeroRead`, `DedupIsDerivable`: switching the trace off
  changes no refund, cost or pending value, and what remains tells a verifier the
  same slots and values as the trace would.
* `PagesAreInvisible`: a property of two runs, hence of every handler's choice
  between the raw and the erased operand.
* `PointersStayGranted`, `AccessesArePaid`, `OverflowIsCharged`: what pointers cover, what
  accesses touch, and what a range costs whose end overflows.
* `EqualIfReadAlike`: heaps compare equal exactly when they read the same.

Bounds.  Three accesses to a slot are needed for a write, a second write and a
failing frame's write to differ in all of value, cost and flags; two nested calls
(in both `WorldDiff` runs) for an inner failure inside an outer one; one snapshot is all the host can hold.
Journals of length three distinguish oldest, middle and newest entries.  The
ledger run has one storage access, since storage is explored by the other run,
and a second hash so that two bytecodes can share a page.  Its states are told apart
by `KindsAside`, everything but whether an open call is near or far: only
`InBootloader` reads that, and without `HostAnywhere` the host waits until no call is
open.  Its two hashes are a symmetry set: no definition asks more of a hash than
equality, and no property of the run is about liveness (204,931 states).

In `CallsGas` the amounts are small but keep their order: six units allow a far
call inside a near call inside the bootloader, with memory growth and a burn in
between; asking for two of them is less than, equal to and more than what is left
in different calls; `Share = 4` makes the share of four or more units differ from
that of fewer; the mandated gas (2) is more than some callers have.  Every
32-bit bound is above the gas, as in the code.

In `HeapPages` three calls deep is what it takes for a page to be returned past a
frame that did not own it, three groups bound the calls made between a snapshot
and its rollback (and let a group be used again), and two chunks make a window
that loses something.  In `ChunkedHeap` a word is as long as a chunk, so that
unaligned words straddle both words and chunks; a write of three bytes is
journaled as two words; two journal entries overlap in every possible way.  In
`StackAreas` the slots used lie in both sub-chunks of one area and in another
area; one callee is enough for the pool to hand out a used stack.

`StorageModes` has the slots, values and accesses of `WorldDiffStorage`, near and far
calls nested twice and host snapshots (365,532 states).  In `PageNames`
limbs have four bits, so that every sum of an offset and a length that overflows 32
bits does so here; words are two bytes long, so that an access can straddle what is
paid for; instructions cost 4 or 7 of 15 units of gas, so that a program of three
can run to its end, be cut short by its gas, or pay for growth (85,101 states).
Four registers and four stack slots are enough for every pair of addressing modes
to alias and not to alias.

Fairness.  Only `Calls` has any.  In the other modules nothing is promised to
happen, since the program decides which instruction comes next; deadlock checking
is off there because the bounds stop the model (and because a panic ends the program
in `HeapPages`, the frame in `Instructions`).  `Calls` has weak fairness of `Instruction`: the
loops of `run` and `resume_with_additional_gas_limit` execute one handler after
another until one stops them, and nothing else runs meanwhile.  There is no
fairness for the host, nor for the end of a run.  Deadlock is checked.

## 4. What is proved

For every value of the constants that satisfies the named assumptions
(`SlotAssumption`, `CostAssumption`: costs are naturals, warm costs do not exceed
cold ones, initial values are values):

* `TypeInvariant`: `Spec => []TypeOK`.
* `Nesting`: if `~HostAnywhere`, `Spec => []SnapshotsNest`.  This is the inductive
  strengthening of the next two: a failing call cuts the journals to its own
  snapshot, so that an outer call's snapshot stays within them only because outer
  snapshots are no later than inner ones; and a new transaction empties the
  transient journal, which is harmless only because the host's snapshot asks for
  nothing of it.
* `CallsCanAlwaysFail`, `HostCanAlwaysRollBack`: hence, if `~HostAnywhere`,
  `OpenCallsCanFail` and `SnapshotStaysAhead`; with `HostAnywhere` neither holds.
* `InitialValuesAreCached`: `Spec => []WrittenSlotsAreCached`, wherever the host acts.  A
  slot is cached when it is named in the map or its journal for the first time;
  undoing, forgetting history and failing never name another.
* `PinsFollowDecommits`: if `None` is no decommit state, `Spec => []PinnedPagesAreSucceeded`.
  The invariant (`DecommitsPaired`) says that pin set and map agree now *and at the
  lengths which the host's snapshot remembers*: two hashes may share a page, and only
  the one that pinned it journals the pin.
* `Refines`: `Spec => ImplementsAbstractWorld`, if `~HostAnywhere` and `None` is no entry
  (`NoneIsNoRecord`).  The invariant is `TypeOK` and `SnapshotsNest`.  A step that only
  extends journals leaves what they say of every snapshot within them (`CopyKept`,
  `LedgerCopyKept`); a failing call cuts them to its own snapshot, and every earlier one
  is no later than that, so its copy stays too; the host's copies of what no call
  takes back need journals that only grow.  Transient storage, whose history the start
  of a transaction deletes, is why `AbstractWorld` has a floor.

The `WorldDiff` theorems rest on two about the containers: insertions keep every
earlier snapshot's map (`InsertGrows`), and undoing to a snapshot keeps every
snapshot before it (`RollbackKeepsEarlier`).

`WorldDiffTraceProofs` assumes further that there are finitely many slots
(`KeysAssumption`).  Its theorems that depend on the host acting between calls
(`~HostAnywhere`) or on `None` being no entry (`NoneIsNoRecord`) say so.

* `DrainsAgree`, `ChangesAreReported`: the loops of `rollback` and `changes_after`
  compute the closed forms of `Rollback`, for every journal and every snapshot of
  it.  These are inductions over the length of what is undone: a loop over the
  newest *i* entries gives the map at `len - i` (`DrainIsMapAt`), because one more
  entry undone is one entry earlier in the closed form (`MapAtStep`).  That no
  journaled key is without a value (the `unwrap` of `changes_after`) is an invariant,
  `StaysPresent`: once a key is in the journal it is in the map at every later point.
* `PubdataSums`: `pubdata` is `TotalPaid` of the pending writes.  The invariant
  (`AllPaid`) says so not only of the present world but of every copy that a failing
  call or the host can put back, as `Refines` reads them off the journals; a write
  changes one term of the sum by the difference that was charged.
* `TraceExplains`, `TwinsAreExact`, `WarmthIsHistory` and the action property
  `RefundsAreDue` rest on one invariant, `TraceInv`.  That the trace replays to the
  pending state says nothing yet of what happens when a call fails: its writes are
  undone from the *journal*, while the trace gets the *twins* held back since.  So
  the invariant also says that journal and twins run in step: there is a constant
  offset between them (when the host clears the journals the twins stay,
  `Offset`), twin by twin they remember the same slot and values
  (`Mirrors`), and every open call and the host took both lengths of its snapshot
  with the two in step (`SnapshotsInStep`).  Then undoing the journal entry by entry
  and appending twin by twin keeps a good trace at every turn (`UndoRun`), though the
  code does all of one and then all of the other.  The fourth part (`HostKeeps`)
  says that what the host would get back is a good trace as well.  `GoodTrace` is
  the record itself: every rollback entry undoes one write, the twins held back are
  those of all other writes, oldest first, the replay explains every entry, and the
  flags follow the accesses.  TLC checks `TraceInv` on the instance of
  `WorldDiffStorage` (358,859 states).
* `ModesAlwaysAgree`: `SpecModes => []ModesAgree`, wherever the host acts, if `None` is no
  entry.  That the two instances hold the same values now says nothing of what they
  return to, so `ModesInv` says that they keep the same journals, that their
  snapshots are the same but for the lengths of the trace (`Hush`), and that their
  flags differ in protective reads only (`SameFlags`), now *and at the
  lengths of the flags' journals that the host's snapshots remember*: these journals
  differ, because a read that is only protective is journaled in the quiet mode alone.  Refunds
  and costs agree because they look at no other flags.
* `ReadsAreProtected`, `SlotsAreDerived`: under `SpecModes`, the invariants
  `FlagIsDepthZeroRead` and `DedupIsDerivable`, if `~HostAnywhere` and `None` is no
  entry.  The two modes know a pending write in two ways: the quiet one because the
  slot is in `storage_writes`, the trace because a write in it has not been undone.
  `DedupInv` joins them by the twins held back: at every length of the journal a slot
  is in the map exactly when one of the twins held back by then is its own
  (`WrittenIsHeld`).  Hence a read is protected exactly when the trace has it at depth
  zero, now and at the host's snapshot (`ProtectsReads`, `HostProtects`), and every
  slot the deduplication names is cached (`CacheCovers`).  Once in the trace, an
  entry's depth does not change (`ContinuedReads`).  That the depth which the code
  counts is zero only when no write is pending (`DepthCountsPending`) needs the
  writes that rollback entries undo to be all different, which `TwinsAreExact` says:
  as many are undone as there are rollback entries.
* TLC checks `ModesInv` and `DedupInv` on the instance of `StorageModes` (365,532
  states).

Under `GasAssumption` (prices are positive, sizes and the initial gas fit 32 bits,
`Share` is positive), for `Calls`:

* `GasInvariant`: `Spec => []IInv`.  `IInv` says of the stack *and of the one in the
  host's snapshot* that frames are numbered along it, that each call balances,
  that each far call left its caller a share and that each frame's growth was
  charged to its calls.  The numbering is needed to know that a returning far call
  drops the right sizes, the snapshot's half because a rollback makes it the stack.
  Its last part (`WithinLimit`) is about the run loop.
* `CallTypes`, `GasIsMoved`, `SharesAreKept`: hence `TypeOK`, `EveryCallBalances` and
  `CallerKeepsItsShare`.  One relation carries the proof: `Spends(c, d)`, a call
  moved gas from what it has to what it was charged.  Every instruction that
  stays in its call is a composition of such moves; entering splits a call in two
  (`CallEntered`), leaving joins two (`CallLeft`).
* `MemoryIsPaid`: `Spec => []GrowthIsCharged`.  Growth and charge happen in one step
  (`Pays`), and a near call's charges pass to its caller when it ends, so that the
  sum over a frame's calls never loses what paid for its heaps.
* `LimitHolds`: `Spec => []LimitIsEnforced`.  All the calls' gas together
  (`ContainedGas`) never exceeds what there was when the limit was set, and what the
  code looks at (`TotalUnspentGas`, which leaves out what the callers of a near call
  have in its frame) is never more than that; it is at least the minimum after every
  turn of the loop.
* Both are about sums over the stack of calls.  `FoldProofs` has the induction they
  need: a fold over a finite set is a function on its subsets, and a smallest
  counterexample (`SmallestSubset`) refutes any claim that is kept by one element
  more.

`HeapPagesProofs` assumes `~OlderPagesReturned` (kernel frames return no older pages;
run `HeapPagesKernel` shows that the assumption is needed) and proves every
property of `HeapPages` except the panic of `rollback`, for any depth of calls, any
number of pages and chunks: `TypeCorrect`, `OpenHeapsLast`, `PointersLast`, `PinsLast`,
`NoPageLeaks`, `NoOtherPanic` and the action property `HostGetsItsPagesBack`.  The argument: every page
that is not pinned dies with exactly one frame, which lists it once; pointers reach
only calldata, pinned pages and pages of that frame; and everything allocated since
the host's snapshot has a later group, so that truncation by group finds it.

`StackAreasProofs` and `ChunkedHeapProofs` prove `ImplementsZeroedMemory` (theorems
`Refines`), and the type invariants (`TypeCorrect`), for any sizes.

* Stacks: the invariant says, of the stacks in use, in the pool and in the snapshot,
  that what is not dirty is zero.  So clearing the dirty areas (`StackPool`) clears
  everything, and a saved stack, which holds whole areas, restores also the areas
  that it lacks.
* Heaps: every chunk of the pool is zero, so that a chunk taken from it needs no
  clearing; every chunk that a recorded word touches is present, so that undoing
  can write it; bytes beyond the addresses are zero.  Undoing leaves each byte as the
  oldest entry that covers it has it, hence entries appended later never change
  what undoing to an earlier length gives (`UndoAppended`), which is why the saved
  contents stand still while the program writes.  That chunks are whole words
  (`SizeAssumption`) is used once: a recorded word must not straddle chunks.
* `EqualityIsReading`: two heaps are equal if and only if they read the same.

`InstructionsProofs` assumes `InstructionsAssumption` and has one lemma per action.
Its invariant says that every pointer in a register or a stack slot is granted: it lies
within calldata, a callee's returndata, a decommitted page or what this frame has
paid for, and that a kernel's heaps have room for decommitted code.  Paid sizes
only grow, so granted stays granted, and from a pointer only a narrower one can be
made.  The theorems are
`TypeCorrect`, `PointersGranted`, `AccessesPaid` and `OverflowCharged`.

`PagesStayInvisible`, in the same module, is about the two frames of `PageNames`, under
`PageNamesAssumption` too: the second numbering follows the rules of the first, no
page has the number 0 (`HeapId::FIRST_CALLDATA` is the lowest), and decommitted code
that is older than the frame in one numbering is older in the other.  The invariant
`PagesInv` says that outside the kernel the frames are twins: registers and stacks hold
equal words and pointers to the same bytes of the same page (`SamePage`), the stack
pointers, flags, gas, paid sizes, program counters, modes and statuses are equal, and
both saw the same.  Every operand is the twin of the other frame's (`ReadTwins`),
erasing makes it equal (`ErasedTwin`), and where a pointer is used without being
erased, the decision does not depend on the number of its page, or only on which
side of `BasePage` it lies (`MayReturnTwin`).  That every action of one frame then
takes the same branch in the other needs the invariant of the frame itself:
returndata is cut from pointers whose ranges do not overflow.  That no page is
numbered 0 is needed where heap accesses take a pointer that is not erased for a
256-bit address: a pointer to no bytes of page 0 would pass for a small number.

Only model-checked: liveness under fairness (`RunsEnd`), which is out of the prover's
reach.

The library's induction theorems cannot be cited with the provers at hand (they
take an operator as a parameter).  Inductions are made by hand instead: the set of
counterexamples, if it is not empty, has a least one (`LeastNatural`,
`SmallestSubset`), and the one before it is none.

## 5. Plan

Done: the world diff with its journals and both recording modes, gas, ownership of
pages, the contents of heaps and stacks, and the execution of instructions; the
proofs of section 4.

Left: decommitment, that is how a far call chooses the code hash (`decommit.rs`, the
default account and the EVM emulator), of which only the outcome is modelled.

Not modelled:

* the bit encodings of instructions and the choice of a monomorphized handler
  (`decode.rs`): pure, and without state; what decoding guarantees of an
  instruction is an assumption of `Instructions` (`Decoded`);
* how a near call's return puts the stack pointer back, hooks, `context_u128`,
  contract addresses and callers, the registers of a system call: copies of values
  that nothing else here depends on;
* the ABI and the cryptography of precompiles: pure functions of memory.  Their
  gas and pubdata are in `WorldDiff` and `Calls`;
* tracers and the public interface (`tracing.rs`, `vm2-interface`), which observe
  and do not change state by themselves;
* the test harnesses, the tests, the benchmarks and the fuzzer.
