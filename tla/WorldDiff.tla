------------------------------ MODULE WorldDiff ------------------------------
(***************************************************************************)
(* The pending side effects of a VM run (world_diff.rs), the frames that   *)
(* can undo them (the Snapshot each near call and far call carries) and    *)
(* the one external snapshot the host may hold (vm.rs).                    *)
(*                                                                         *)
(* An action is one instruction as far as it reaches WorldDiff, or one     *)
(* call of the host.  Gas, registers and memory pages' contents are left   *)
(* to other modules.                                                       *)
(***************************************************************************)
EXTENDS Rollback

CONSTANTS
  Keys,            \* storage slots, (address, key) pairs
  TransientKeys,   \* slots of transient storage
  Values,          \* words a slot can hold
  FreeSlots,       \* World::is_free_storage_slot
  InitialValue,    \* World::read_storage, for every slot
  WriteCost,       \* World::cost_of_writing_storage, per slot and new value
  Messages,        \* payloads of events and of L2-to-L1 logs
  Hashes,          \* bytecode hashes
  Pages,           \* heap pages a bytecode can be materialized into
  PubdataExtras,   \* extra pubdata a precompile call can charge
  ColdRead, WarmRead, ColdWrite, WarmWrite,   \* access costs in gas
  CallKinds,       \* the kinds of call explored: "near", "far" or both
  HostAnywhere,    \* TRUE: the host and IncrementTxNumber may act while a
                   \* near call (any call, for the latter) is open
  MaxAccesses,     \* bound on the storage accesses of a run
  MaxMessages,     \* bound on the events and on the L2-to-L1 logs
  MaxPubdata,      \* bound up to which precompiles charge pubdata
  MaxDecommits,    \* bound on the journal of decommitted_hashes
  MaxDepth         \* bound on the open calls

ASSUME SlotAssumption ==
  /\ FreeSlots \subseteq Keys
  /\ InitialValue \in [Keys -> Values]
  /\ WriteCost \in [Keys -> [Values -> Nat]]
  /\ None \notin Values

ASSUME CostAssumption ==
  /\ {ColdRead, WarmRead, ColdWrite, WarmWrite} \subseteq Nat
  /\ WarmRead <= ColdRead /\ WarmWrite <= ColdWrite
  /\ PubdataExtras \subseteq Nat
  /\ HostAnywhere \in BOOLEAN

VARIABLES
  storage_writes,             \* RollbackableMap: slot -> [value, paid]
  transient_storage_changes,  \* RollbackableMap: slot -> value
  events,
  l2_to_l1_logs,
  pubdata,
  storage_refunds,
  pubdata_costs,
  storage_logs,
  rollback_storage_logs,
  decommitted_hashes,         \* RollbackableMap: hash -> DecommitState
  decommit_pinned_pages,      \* RollbackableSet of pages
  slot_flags,                 \* RollbackableMap: slot -> set of SLOT_* flags
  storage_initial_values,     \* cache: slot -> value or None
  skip_storage_logs,
  frames,     \* the open calls above the bootloader, outermost first
  snapshot    \* the host's external snapshot: << >>, or << it >>

\* What a failing frame undoes, what only the host undoes, the trace.
rolled_back == << storage_writes, transient_storage_changes, events,
                  l2_to_l1_logs, pubdata >>
charges  == << storage_refunds, pubdata_costs >>
trace    == << storage_logs, rollback_storage_logs >>
decommits == << decommitted_hashes, decommit_pinned_pages >>
slots    == << slot_flags, storage_initial_values, skip_storage_logs >>
control  == << frames, snapshot >>

vars == << rolled_back, charges, trace, decommits, slots, control >>

SLOT_READ == "read"
SLOT_WRITTEN == "written"
SLOT_PROTECTIVE_READ == "protective read"
SlotFlags == {SLOT_READ, SLOT_WRITTEN, SLOT_PROTECTIVE_READ}

WARM_READ_REFUND == ColdRead - WarmRead
WARM_WRITE_REFUND == ColdWrite - WarmWrite
COLD_WRITE_AFTER_WARM_READ_REFUND == ColdRead

Unsuccessful == [state |-> "unsuccessful"]
Succeeded(p) == [state |-> "succeeded", page |-> p]

-----------------------------------------------------------------------------
(* Snapshots *)

\* WorldDiff::snapshot
Snapshot ==
  [storage_writes            |-> MapSnapshot(storage_writes),
   events                    |-> Len(events),
   l2_to_l1_logs             |-> Len(l2_to_l1_logs),
   transient_storage_changes |-> MapSnapshot(transient_storage_changes),
   pubdata                   |-> pubdata,
   storage_logs_len          |-> Len(storage_logs),
   rollback_storage_logs_len |-> Len(rollback_storage_logs)]

\* Mutant: the current journal length instead of zero.
ExternalSnapshotOfTransient ==
  [internal_snapshot     |-> Snapshot,
   decommitted_hashes    |-> MapSnapshot(decommitted_hashes),
   decommit_pinned_pages |-> Len(decommit_pinned_pages.old_entries),
   slot_flags            |-> MapSnapshot(slot_flags),
   storage_refunds       |-> Len(storage_refunds),
   pubdata_costs         |-> Len(pubdata_costs),
   near_calls            |-> frames]

\* WorldDiff::external_snapshot, with the near calls the frame snapshot copies
ExternalSnapshot ==
  [internal_snapshot     |-> [Snapshot EXCEPT !.transient_storage_changes = 0],
   decommitted_hashes    |-> MapSnapshot(decommitted_hashes),
   decommit_pinned_pages |-> Len(decommit_pinned_pages.old_entries),
   slot_flags            |-> MapSnapshot(slot_flags),
   storage_refunds       |-> Len(storage_refunds),
   pubdata_costs         |-> Len(pubdata_costs),
   near_calls            |-> frames]

\* WorldDiff::rollback indexes these two journals
CanRollbackTo(s) ==
  /\ CanRollback(storage_writes, s.storage_writes)
  /\ CanRollback(transient_storage_changes, s.transient_storage_changes)

\* Mutants: one of the five parts is forgotten.
RollbackToKeepingPubdata(s) ==
  /\ storage_writes' = MapRollback(storage_writes, s.storage_writes)
  /\ events' = LogRollback(events, s.events)
  /\ l2_to_l1_logs' = LogRollback(l2_to_l1_logs, s.l2_to_l1_logs)
  /\ transient_storage_changes' =
       MapRollback(transient_storage_changes, s.transient_storage_changes)
  /\ pubdata' = pubdata

RollbackToKeepingTransient(s) ==
  /\ storage_writes' = MapRollback(storage_writes, s.storage_writes)
  /\ events' = LogRollback(events, s.events)
  /\ l2_to_l1_logs' = LogRollback(l2_to_l1_logs, s.l2_to_l1_logs)
  /\ transient_storage_changes' = transient_storage_changes
  /\ pubdata' = s.pubdata

\* WorldDiff::rollback
RollbackTo(s) ==
  /\ storage_writes' = MapRollback(storage_writes, s.storage_writes)
  /\ events' = LogRollback(events, s.events)
  /\ l2_to_l1_logs' = LogRollback(l2_to_l1_logs, s.l2_to_l1_logs)
  /\ transient_storage_changes' =
       MapRollback(transient_storage_changes, s.transient_storage_changes)
  /\ pubdata' = s.pubdata

-----------------------------------------------------------------------------
(* Storage *)

\* just_read_storage
CurrentValue(k) ==
  IF storage_writes.map[k] # None THEN storage_writes.map[k].value
  ELSE InitialValue[k]

Log(k, read_value, written_value, rw_flag) ==
  [key |-> k, read_value |-> read_value, written_value |-> written_value,
   rw_flag |-> rw_flag, rollback |-> FALSE, timestamp |-> Len(storage_logs)]

\* Mutant: the cache is filled only while the trace is recorded.
CacheInitialValueWhenRecording(k) ==
  storage_initial_values' =
    [storage_initial_values EXCEPT ![k] =
       IF @ = None /\ ~skip_storage_logs THEN InitialValue[k] ELSE @]

CacheInitialValue(k) ==
  storage_initial_values' =
    [storage_initial_values EXCEPT ![k] = IF @ = None THEN InitialValue[k] ELSE @]

\* Mutant: with the trace switched off every read counts as protective.
ReadStorageInnerAlwaysProtective(k) ==
  /\ Len(pubdata_costs) < MaxAccesses
  /\ pubdata_costs' = Append(pubdata_costs, 0)
  /\ IF skip_storage_logs
     THEN /\ CacheInitialValue(k)
          /\ slot_flags' = AddFlags(AddFlags(slot_flags, k, {SLOT_READ}),
                                    k, {SLOT_PROTECTIVE_READ})
          /\ UNCHANGED storage_logs
     ELSE /\ slot_flags' = AddFlags(slot_flags, k, {SLOT_READ})
          /\ storage_logs' =
               Append(storage_logs, Log(k, CurrentValue(k), CurrentValue(k), FALSE))
          /\ UNCHANGED storage_initial_values
  /\ UNCHANGED << rollback_storage_logs, skip_storage_logs >>

\* Mutant: a protective read is not counted as a read.
ReadStorageInnerOneFlag(k) ==
  /\ Len(pubdata_costs) < MaxAccesses
  /\ pubdata_costs' = Append(pubdata_costs, 0)
  /\ IF skip_storage_logs
     THEN /\ CacheInitialValue(k)
          /\ slot_flags' = AddFlags(slot_flags, k,
               {IF storage_writes.map[k] = None THEN SLOT_PROTECTIVE_READ ELSE SLOT_READ})
          /\ UNCHANGED storage_logs
     ELSE /\ slot_flags' = AddFlags(slot_flags, k, {SLOT_READ})
          /\ storage_logs' =
               Append(storage_logs, Log(k, CurrentValue(k), CurrentValue(k), FALSE))
          /\ UNCHANGED storage_initial_values
  /\ UNCHANGED << rollback_storage_logs, skip_storage_logs >>

\* read_storage_inner: the trace, or with the trace switched off the inputs a
\* verifier derives the deduplicated slots from
ReadStorageInner(k) ==
  /\ Len(pubdata_costs) < MaxAccesses
  /\ pubdata_costs' = Append(pubdata_costs, 0)
  /\ \/ /\ ~skip_storage_logs
        /\ slot_flags' = AddFlags(slot_flags, k, {SLOT_READ})
        /\ storage_logs' =
             Append(storage_logs, Log(k, CurrentValue(k), CurrentValue(k), FALSE))
        /\ UNCHANGED storage_initial_values
     \/ /\ skip_storage_logs /\ storage_writes.map[k] # None
        /\ slot_flags' = AddFlags(slot_flags, k, {SLOT_READ})
        /\ UNCHANGED << storage_logs, storage_initial_values >>
     \/ /\ skip_storage_logs /\ storage_writes.map[k] = None
        /\ CacheInitialValue(k)
        /\ slot_flags' = AddFlags(AddFlags(slot_flags, k, {SLOT_READ}),
                                  k, {SLOT_PROTECTIVE_READ})
        /\ UNCHANGED storage_logs
  /\ UNCHANGED << rollback_storage_logs, skip_storage_logs >>

ReadRefund(k) ==
  IF ~AddsFlags(slot_flags, k, {SLOT_READ}) \/ k \in FreeSlots
  THEN WARM_READ_REFUND ELSE 0

\* sload: read_storage
ReadStorage(k) ==
  /\ ReadStorageInner(k)
  /\ storage_refunds' = Append(storage_refunds, ReadRefund(k))
  /\ UNCHANGED << rolled_back, decommits, control >>

\* Mutant: what the slot already paid is forgotten.
PaidNothing(e) == 0

Paid(e) == IF e = None THEN 0 ELSE e.paid

\* The write and its rollback twin, recorded before the change lands
RecordWrite(k, v) ==
  LET log == Log(k, CurrentValue(k), v, TRUE) IN
    IF skip_storage_logs THEN UNCHANGED trace
    ELSE /\ storage_logs' = Append(storage_logs, log)
         /\ rollback_storage_logs' =
              Append(rollback_storage_logs, [log EXCEPT !.rollback = TRUE])

\* Mutant: the warm and the read-before-write refund are swapped.
WriteRefundSwapped(k) ==
  IF ~AddsFlags(slot_flags, k, {SLOT_WRITTEN}) THEN COLD_WRITE_AFTER_WARM_READ_REFUND
  ELSE IF AddsFlags(slot_flags, k, {SLOT_READ}) THEN 0
  ELSE WARM_WRITE_REFUND

WriteRefund(k) ==
  IF ~AddsFlags(slot_flags, k, {SLOT_WRITTEN}) THEN WARM_WRITE_REFUND
  ELSE IF AddsFlags(slot_flags, k, {SLOT_READ}) THEN 0
  ELSE COLD_WRITE_AFTER_WARM_READ_REFUND

\* sstore to a slot that costs nothing: the amount paid before is kept
WriteFreeStorage(k, v) ==
  /\ k \in FreeSlots
  /\ Len(pubdata_costs) < MaxAccesses
  /\ RecordWrite(k, v)
  /\ CacheInitialValue(k)
  /\ storage_writes' = MapInsert(storage_writes, k,
                         [value |-> v, paid |-> Paid(storage_writes.map[k])])
  /\ slot_flags' = AddFlags(AddFlags(slot_flags, k, {SLOT_WRITTEN}), k, {SLOT_READ})
  /\ storage_refunds' = Append(storage_refunds, WARM_WRITE_REFUND)
  /\ pubdata_costs' = Append(pubdata_costs, 0)
  /\ UNCHANGED << transient_storage_changes, events, l2_to_l1_logs, pubdata,
                  decommits, skip_storage_logs, control >>

\* sstore: only the difference to what the slot already paid is charged, and a
\* rewritten slot is not marked as read
WriteStorage(k, v) ==
  LET update_cost == WriteCost[k][v]
      pubdata_cost == update_cost - Paid(storage_writes.map[k])
      written == AddFlags(slot_flags, k, {SLOT_WRITTEN})
  IN
  /\ k \notin FreeSlots
  /\ Len(pubdata_costs) < MaxAccesses
  /\ RecordWrite(k, v)
  /\ CacheInitialValue(k)
  /\ storage_writes' =
       MapInsert(storage_writes, k, [value |-> v, paid |-> update_cost])
  /\ slot_flags' = IF AddsFlags(slot_flags, k, {SLOT_WRITTEN})
                   THEN AddFlags(written, k, {SLOT_READ}) ELSE written
  /\ storage_refunds' = Append(storage_refunds, WriteRefund(k))
  /\ pubdata' = pubdata + pubdata_cost
  /\ pubdata_costs' = Append(pubdata_costs, pubdata_cost)
  /\ UNCHANGED << transient_storage_changes, events, l2_to_l1_logs,
                  decommits, skip_storage_logs, control >>

-----------------------------------------------------------------------------
(* Transient storage, events, L2-to-L1 logs, pubdata charged by precompiles *)

\* sload_transient: an absent slot reads as zero, and only a cost is logged
ReadTransientStorage(k) ==
  /\ Len(pubdata_costs) < MaxAccesses
  /\ pubdata_costs' = Append(pubdata_costs, 0)
  /\ UNCHANGED << rolled_back, storage_refunds, trace, decommits, slots, control >>

WriteTransientStorage(k, v) ==
  /\ Len(pubdata_costs) < MaxAccesses
  /\ pubdata_costs' = Append(pubdata_costs, 0)
  /\ transient_storage_changes' = MapInsert(transient_storage_changes, k, v)
  /\ UNCHANGED << storage_writes, events, l2_to_l1_logs, pubdata, storage_refunds,
                  trace, decommits, slots, control >>

RecordEvent(e) ==
  /\ Len(events) < MaxMessages
  /\ events' = Append(events, e)
  /\ UNCHANGED << storage_writes, transient_storage_changes, l2_to_l1_logs,
                  pubdata, charges, trace, decommits, slots, control >>

RecordL2ToL1Log(m) ==
  /\ Len(l2_to_l1_logs) < MaxMessages
  /\ l2_to_l1_logs' = Append(l2_to_l1_logs, m)
  /\ UNCHANGED << storage_writes, transient_storage_changes, events,
                  pubdata, charges, trace, decommits, slots, control >>

\* precompile_call, when the call was paid for
ChargePubdata(d) ==
  /\ pubdata + d <= MaxPubdata
  /\ pubdata' = pubdata + d
  /\ UNCHANGED << storage_writes, transient_storage_changes, events,
                  l2_to_l1_logs, charges, trace, decommits, slots, control >>

-----------------------------------------------------------------------------
(* Decommits *)

IsSucceeded(h) ==
  /\ decommitted_hashes.map[h] # None
  /\ decommitted_hashes.map[h].state = "succeeded"

\* materialize_decommit_page: a hash that has a page keeps it
MaterializeDecommitPage(h, p) ==
  IF IsSucceeded(h) THEN UNCHANGED decommits
  ELSE /\ decommitted_hashes' = MapInsert(decommitted_hashes, h, Succeeded(p))
       /\ decommit_pinned_pages' = SetAdd(decommit_pinned_pages, p)

\* The decommit opcode, when paid for: p is the caller's own heap, which an
\* earlier decommit of the same frame may have pinned already
DecommitOpcode(h, p) ==
  /\ ~IsSucceeded(h) => Len(decommitted_hashes.old_entries) < MaxDecommits
  /\ MaterializeDecommitPage(h, p)
  /\ UNCHANGED << rolled_back, charges, trace, slots, control >>

\* pay_for_decommit without enough gas: only an unseen hash costs anything
FailToPayForDecommit(h) ==
  /\ ~IsSucceeded(h)
  /\ Len(decommitted_hashes.old_entries) < MaxDecommits
  /\ decommitted_hashes' = MapInsert(decommitted_hashes, h, Unsuccessful)
  /\ UNCHANGED decommit_pinned_pages

-----------------------------------------------------------------------------
(* Calls and returns *)

Frame(kind, logs_len) ==
  [kind |-> kind,
   world_before_this_frame |-> [Snapshot EXCEPT !.storage_logs_len = logs_len]]

NearCall ==
  /\ "near" \in CallKinds /\ Len(frames) < MaxDepth
  /\ frames' = Append(frames, Frame("near", Len(storage_logs)))
  /\ UNCHANGED << rolled_back, charges, trace, decommits, slots, snapshot >>

\* far_call: unless the shard check fails first, the callee's code info is read
\* from slot k; then its code may be paid for and materialized into the code
\* page p of the callee's fresh page group.  The frame is pushed in any case, and
\* its snapshot is taken after all of this.
FarCallDecommit(k) ==
  /\ ReadStorageInner(k)
  /\ \/ UNCHANGED decommits
     \/ \E h \in Hashes : FailToPayForDecommit(h)
     \/ \E h \in Hashes, p \in Pages \ decommit_pinned_pages.map :
          /\ Len(decommitted_hashes.old_entries) < MaxDecommits
          /\ MaterializeDecommitPage(h, p)

FarCall ==
  /\ "far" \in CallKinds /\ Len(frames) < MaxDepth
  /\ \/ UNCHANGED << pubdata_costs, trace, decommits, slots >>
     \/ \E k \in Keys : FarCallDecommit(k)
  /\ frames' = Append(frames, Frame("far", Len(storage_logs')))
  /\ UNCHANGED << rolled_back, storage_refunds, snapshot >>

Top == frames[Len(frames)]
Popped == SubSeq(frames, 1, Len(frames) - 1)

ReturnOk ==
  /\ frames # << >>
  /\ frames' = Popped
  /\ UNCHANGED << rolled_back, charges, trace, decommits, slots, snapshot >>

\* Mutant: the order of recording is kept.
ReverseSeqUnreversed(s) == s

ReverseSeq(s) == [i \in 1..Len(s) |-> s[Len(s) + 1 - i]]

\* Mutant: the appended twins are not split off.
AppendRollbackLogsAgain(s) ==
  LET n == s.rollback_storage_logs_len
      undone == SubSeq(rollback_storage_logs, n + 1, Len(rollback_storage_logs))
  IN /\ storage_logs' = storage_logs \o ReverseSeq(undone)
     /\ UNCHANGED rollback_storage_logs

\* append_rollback_logs: the twins of the undone writes, newest first
AppendRollbackLogs(s) ==
  LET n == s.rollback_storage_logs_len
      undone == SubSeq(rollback_storage_logs, n + 1, Len(rollback_storage_logs))
  IN /\ storage_logs' = storage_logs \o ReverseSeq(undone)
     /\ rollback_storage_logs' = LogRollback(rollback_storage_logs, n)

\* Revert or panic; the program dies if the snapshot is past the journals
ReturnFailed ==
  LET s == Top.world_before_this_frame IN
  /\ frames # << >>
  /\ CanRollbackTo(s)
  /\ AppendRollbackLogs(s)
  /\ RollbackTo(s)
  /\ frames' = Popped
  /\ UNCHANGED << charges, decommits, slots, snapshot >>

-----------------------------------------------------------------------------
(* The host, and the start of a transaction *)

\* previous_frames.is_empty(): near calls of the bootloader do not count
InBootloader == \A i \in 1..Len(frames) : frames[i].kind = "near"

\* Mutant: the assertion on previous_frames is missing.
HostMayActInAnyCall == TRUE

HostMayAct == InBootloader /\ (frames = << >> \/ HostAnywhere)

MakeSnapshot ==
  /\ HostMayAct
  /\ snapshot = << >>
  /\ snapshot' = << ExternalSnapshot >>
  /\ UNCHANGED << rolled_back, charges, trace, decommits, slots, frames >>

CanRollbackExternally(s) ==
  /\ CanRollbackTo(s.internal_snapshot)
  /\ CanRollback(decommitted_hashes, s.decommitted_hashes)
  /\ CanRollback(decommit_pinned_pages, s.decommit_pinned_pages)
  /\ CanRollback(slot_flags, s.slot_flags)

\* VirtualMachine::rollback: external_rollback, then delete_history; the program
\* dies if the snapshot is past the journals
HostRollback ==
  LET s == snapshot[1]
      i == s.internal_snapshot
  IN
  /\ HostMayAct
  /\ snapshot # << >>
  /\ CanRollbackExternally(s)
  /\ storage_writes' =
       MapDeleteHistory(MapRollback(storage_writes, i.storage_writes))
  /\ events' = LogRollback(events, i.events)
  /\ l2_to_l1_logs' = LogRollback(l2_to_l1_logs, i.l2_to_l1_logs)
  /\ transient_storage_changes' = MapDeleteHistory(
       MapRollback(transient_storage_changes, i.transient_storage_changes))
  /\ pubdata' = i.pubdata
  /\ storage_refunds' = LogRollback(storage_refunds, s.storage_refunds)
  /\ pubdata_costs' = LogRollback(pubdata_costs, s.pubdata_costs)
  /\ decommitted_hashes' =
       MapDeleteHistory(MapRollback(decommitted_hashes, s.decommitted_hashes))
  /\ decommit_pinned_pages' =
       SetDeleteHistory(SetRollback(decommit_pinned_pages, s.decommit_pinned_pages))
  /\ slot_flags' = MapDeleteHistory(MapRollback(slot_flags, s.slot_flags))
  /\ storage_logs' = LogRollback(storage_logs, i.storage_logs_len)
  /\ rollback_storage_logs' =
       LogRollback(rollback_storage_logs, i.rollback_storage_logs_len)
  /\ frames' = s.near_calls
  /\ snapshot' = << >>
  /\ UNCHANGED << storage_initial_values, skip_storage_logs >>

\* VirtualMachine::pop_snapshot, which does not insist on a snapshot
PopSnapshot ==
  /\ HostMayAct
  /\ snapshot' = << >>
  /\ storage_writes' = MapDeleteHistory(storage_writes)
  /\ transient_storage_changes' = MapDeleteHistory(transient_storage_changes)
  /\ decommitted_hashes' = MapDeleteHistory(decommitted_hashes)
  /\ decommit_pinned_pages' = SetDeleteHistory(decommit_pinned_pages)
  /\ slot_flags' = MapDeleteHistory(slot_flags)
  /\ UNCHANGED << events, l2_to_l1_logs, pubdata, charges, trace,
                  storage_initial_values, skip_storage_logs, frames >>

\* start_new_tx: the map is replaced, its journal included
StartNewTx ==
  /\ frames = << >> \/ HostAnywhere
  /\ transient_storage_changes' = EmptyMap(TransientKeys)
  /\ UNCHANGED << storage_writes, events, l2_to_l1_logs, pubdata,
                  charges, trace, decommits, slots, control >>

-----------------------------------------------------------------------------
Init ==
  /\ storage_writes = EmptyMap(Keys)
  /\ transient_storage_changes = EmptyMap(TransientKeys)
  /\ events = << >> /\ l2_to_l1_logs = << >>
  /\ pubdata = 0
  /\ storage_refunds = << >> /\ pubdata_costs = << >>
  /\ storage_logs = << >> /\ rollback_storage_logs = << >>
  /\ decommitted_hashes = EmptyMap(Hashes)
  /\ decommit_pinned_pages = EmptySet
  /\ slot_flags = EmptyMap(Keys)
  /\ storage_initial_values = [k \in Keys |-> None]
  /\ skip_storage_logs \in BOOLEAN     \* set_record_storage_logs
  /\ frames = << >>
  /\ snapshot = << >>

StorageStep ==
  \E k \in Keys :
    \/ ReadStorage(k)
    \/ \E v \in Values : WriteFreeStorage(k, v) \/ WriteStorage(k, v)

TransientStep ==
  \E k \in TransientKeys :
    \/ ReadTransientStorage(k)
    \/ \E v \in Values : WriteTransientStorage(k, v)

MessageStep ==
  \/ \E m \in Messages : RecordEvent(m) \/ RecordL2ToL1Log(m)
  \/ \E d \in PubdataExtras : ChargePubdata(d)

DecommitStep == \E h \in Hashes, p \in Pages : DecommitOpcode(h, p)

CallStep == NearCall \/ FarCall \/ ReturnOk \/ ReturnFailed

HostStep == MakeSnapshot \/ HostRollback \/ PopSnapshot \/ StartNewTx

Next ==
  \/ StorageStep \/ TransientStep \/ MessageStep
  \/ DecommitStep \/ CallStep \/ HostStep

Spec == Init /\ [][Next]_vars
-----------------------------------------------------------------------------
(* The worlds a journal remembers *)

World == [writes |-> storage_writes.map, transient |-> transient_storage_changes.map,
          events |-> events, l2_to_l1_logs |-> l2_to_l1_logs, pubdata |-> pubdata]

\* The world as it was when snapshot s was taken, read off the journals.
WorldAt(s) ==
  [writes        |-> MapAt(storage_writes, s.storage_writes),
   transient     |-> MapAt(transient_storage_changes, s.transient_storage_changes),
   events        |-> LogRollback(events, s.events),
   l2_to_l1_logs |-> LogRollback(l2_to_l1_logs, s.l2_to_l1_logs),
   pubdata       |-> s.pubdata]

Ledger == [flags |-> slot_flags.map, hashes |-> decommitted_hashes.map,
           pinned |-> decommit_pinned_pages.map,
           refunds |-> storage_refunds, costs |-> pubdata_costs]

LedgerAt(s) ==
  [flags   |-> MapAt(slot_flags, s.slot_flags),
   hashes  |-> MapAt(decommitted_hashes, s.decommitted_hashes),
   pinned  |-> SetAt(decommit_pinned_pages, s.decommit_pinned_pages),
   refunds |-> LogRollback(storage_refunds, s.storage_refunds),
   costs   |-> LogRollback(pubdata_costs, s.pubdata_costs)]

Saved == [i \in 1..Len(frames) |-> WorldAt(frames[i].world_before_this_frame)]

Batch ==
  [i \in 1..Len(snapshot) |->
     [world  |-> WorldAt(snapshot[i].internal_snapshot),
      ledger |-> LedgerAt(snapshot[i]),
      trace  |-> LogRollback(storage_logs, snapshot[i].internal_snapshot.storage_logs_len)]]

Abstract == INSTANCE AbstractWorld WITH
  world <- World, ledger <- Ledger, trace <- storage_logs,
  saved <- Saved, batch <- Batch, floor <- MapAt(transient_storage_changes, 0)

\* Every step of the journaled world is a step of the world that keeps copies:
\* a failed call restores exactly what the call found, at any depth and whatever
\* inner calls did; refunds, warm slots and decommits survive it; the host gets
\* back exactly what it snapshotted (RollbackableMap, WorldDiff::rollback and
\* external_rollback).
ImplementsAbstractWorld == Abstract!Spec
-----------------------------------------------------------------------------
(* Types and invariants *)

WriteEntries == [value : Values, paid : Nat]
DecommitStates == {Unsuccessful} \cup {Succeeded(p) : p \in Pages}
LogQueries == [key : Keys, read_value : Values, written_value : Values,
               rw_flag : BOOLEAN, rollback : BOOLEAN, timestamp : Nat]

Snapshots == [storage_writes : Nat, events : Nat, l2_to_l1_logs : Nat,
              transient_storage_changes : Nat, pubdata : Int,
              storage_logs_len : Nat, rollback_storage_logs_len : Nat]

Frames == [kind : {"near", "far"}, world_before_this_frame : Snapshots]

ExternalSnapshots ==
  [internal_snapshot : Snapshots, decommitted_hashes : Nat,
   decommit_pinned_pages : Nat, slot_flags : Nat, storage_refunds : Nat,
   pubdata_costs : Nat, near_calls : Seq(Frames)]

TypeOK ==
  /\ storage_writes \in JournaledMap(Keys, WriteEntries)
  /\ transient_storage_changes \in JournaledMap(TransientKeys, Values)
  /\ events \in Seq(Messages)
  /\ l2_to_l1_logs \in Seq(Messages)
  /\ pubdata \in Int
  /\ storage_refunds \in Seq(Nat)
  /\ pubdata_costs \in Seq(Int)
  /\ storage_logs \in Seq(LogQueries)
  /\ rollback_storage_logs \in Seq(LogQueries)
  /\ decommitted_hashes \in JournaledMap(Hashes, DecommitStates)
  /\ decommit_pinned_pages \in JournaledSet(Pages)
  /\ slot_flags \in JournaledMap(Keys, SUBSET SlotFlags)
  /\ storage_initial_values \in [Keys -> Values \cup {None}]
  /\ skip_storage_logs \in BOOLEAN
  /\ frames \in Seq(Frames)
  /\ snapshot \in Seq(ExternalSnapshots) /\ Len(snapshot) <= 1

\* Any open call may fail after any number of inner calls that failed or
\* succeeded: what an inner failure drains never reaches below the lengths that
\* an outer call remembers, so that undoing the outer one does not index past the
\* end of a journal (Vec::drain in RollbackableMap::rollback would panic).  It is
\* a promise about calls alone: with HostAnywhere, pop_snapshot and rollback in a
\* near call of the bootloader empty the journals which its snapshot indexes
\* (vm.rs:254-257).
OpenCallsCanFail ==
  \A i \in 1..Len(frames) : CanRollbackTo(frames[i].world_before_this_frame)

\* No frame's failure undoes more than what happened since the host's snapshot:
\* the snapshot's journal lengths stay within the journals (the condition
\* external_snapshot states for itself, world_diff.rs:590).
SnapshotStaysAhead ==
  \A i \in 1..Len(snapshot) : CanRollbackExternally(snapshot[i])

NoLaterThan(s, t) ==
  /\ s.storage_writes <= t.storage_writes
  /\ s.transient_storage_changes <= t.transient_storage_changes
  /\ s.events <= t.events
  /\ s.l2_to_l1_logs <= t.l2_to_l1_logs

\* Snapshots nest like the calls that took them: the host's is the earliest, an
\* outer frame's is no later than an inner frame's, and none is ahead of the
\* journals and logs, which a failing inner call or the start of a transaction
\* cuts back; for the latter the host's asks for nothing of the transient journal
\* (WorldDiff::rollback, external_snapshot, clear_transient_storage).
SnapshotsNest ==
  /\ \A i \in 1..Len(frames) :
       NoLaterThan(frames[i].world_before_this_frame, Snapshot)
  /\ \A i, j \in 1..Len(frames) : i <= j =>
       NoLaterThan(frames[i].world_before_this_frame, frames[j].world_before_this_frame)
  /\ \A b \in 1..Len(snapshot) :
       LET s == snapshot[b] IN
         /\ s.near_calls = << >>
         /\ s.internal_snapshot.transient_storage_changes = 0
         /\ NoLaterThan(s.internal_snapshot, Snapshot)
         /\ \A i \in 1..Len(frames) :
              NoLaterThan(s.internal_snapshot, frames[i].world_before_this_frame)
         /\ s.internal_snapshot.storage_logs_len <= Len(storage_logs)
         /\ s.decommitted_hashes <= MapSnapshot(decommitted_hashes)
         /\ s.decommit_pinned_pages <= Len(decommit_pinned_pages.old_entries)
         /\ s.slot_flags <= MapSnapshot(slot_flags)
         /\ s.storage_refunds <= Len(storage_refunds)
         /\ s.pubdata_costs <= Len(pubdata_costs)

\* Every slot in the map or in its journal has a cached initial value, so that
\* get_storage_changes and get_storage_changes_after can index the cache, and
\* the cached value is the one the world holds, after any rollbacks.
WrittenSlotsAreCached ==
  \A k \in Keys :
    /\ storage_writes.map[k] # None \/ Touched(storage_writes, 0, k) # {}
         => storage_initial_values[k] # None
    /\ storage_initial_values[k] \in {None, InitialValue[k]}

\* The pages protected from deallocation are those of the hashes that succeeded,
\* also when two hashes share a page and the host takes one of them back.
PinnedPagesAreSucceeded ==
  decommit_pinned_pages.map =
    {p \in Pages : \E h \in Hashes : decommitted_hashes.map[h] = Succeeded(p)}
=============================================================================
