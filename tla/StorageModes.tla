---------------------------- MODULE StorageModes ----------------------------
(***************************************************************************)
(* WorldDiff keeps its storage books in one of two ways, chosen before the *)
(* run (set_record_storage_logs): it records the trace of accesses, or it  *)
(* drops the trace and keeps the flags and initial values a verifier       *)
(* derives the deduplicated storage logs from.                             *)
(*                                                                         *)
(* Here the same program runs on two world diffs at once: the variables of *)
(* WorldDiff record, the q_ variables, an instance of the same module, run *)
(* with the trace switched off.  Every step is one operation taken by both.*)
(***************************************************************************)
EXTENDS WorldDiffTrace

VARIABLES
  q_storage_writes, q_transient_storage_changes, q_events, q_l2_to_l1_logs,
  q_pubdata, q_storage_refunds, q_pubdata_costs, q_storage_logs,
  q_rollback_storage_logs, q_decommitted_hashes, q_decommit_pinned_pages,
  q_slot_flags, q_storage_initial_values, q_skip_storage_logs, q_frames, q_snapshot

Quiet == INSTANCE WorldDiff WITH
  storage_writes <- q_storage_writes,
  transient_storage_changes <- q_transient_storage_changes,
  events <- q_events, l2_to_l1_logs <- q_l2_to_l1_logs, pubdata <- q_pubdata,
  storage_refunds <- q_storage_refunds, pubdata_costs <- q_pubdata_costs,
  storage_logs <- q_storage_logs,
  rollback_storage_logs <- q_rollback_storage_logs,
  decommitted_hashes <- q_decommitted_hashes,
  decommit_pinned_pages <- q_decommit_pinned_pages,
  slot_flags <- q_slot_flags,
  storage_initial_values <- q_storage_initial_values,
  skip_storage_logs <- q_skip_storage_logs,
  frames <- q_frames, snapshot <- q_snapshot

\* set_record_storage_logs(true) on one world diff, (false) on the other
InitModes ==
  /\ Init /\ ~skip_storage_logs
  /\ Quiet!Init /\ q_skip_storage_logs

-----------------------------------------------------------------------------
(* The operations, each on both *)

BothRead(k) == ReadStorage(k) /\ Quiet!ReadStorage(k)

BothWrite(k, v) ==
  \/ WriteFreeStorage(k, v) /\ Quiet!WriteFreeStorage(k, v)
  \/ WriteStorage(k, v) /\ Quiet!WriteStorage(k, v)

BothNearCall == NearCall /\ Quiet!NearCall

\* far_call, which reads the callee's code info from the same slot k
BothFarCall(k) ==
  /\ FarCall /\ FarCallDecommit(k)
  /\ Quiet!FarCall /\ Quiet!FarCallDecommit(k)

BothReturn ==
  \/ ReturnOk /\ Quiet!ReturnOk
  \/ ReturnFailed /\ Quiet!ReturnFailed

BothHostSteps ==
  \/ MakeSnapshot /\ Quiet!MakeSnapshot
  \/ HostRollback /\ Quiet!HostRollback
  \/ PopSnapshot /\ Quiet!PopSnapshot

NextModes ==
  \/ \E k \in Keys :
       BothRead(k) \/ BothFarCall(k) \/ \E v \in Values : BothWrite(k, v)
  \/ BothNearCall \/ BothReturn \/ BothHostSteps

SpecModes == InitModes /\ [][NextModes]_<< vars, Quiet!vars >>

-----------------------------------------------------------------------------
(* Properties *)

AccessFlags(flags) == IF flags = None THEN {} ELSE flags \ {SLOT_PROTECTIVE_READ}

\* Switching the trace off changes nothing a program or its host can see: the
\* pending world, the pubdata and every refund and cost charged are the same
\* after the same operations, failures and host rollbacks, although the flags
\* the refunds come from are kept by different code (read_storage_inner).
ModesAgree ==
  /\ Quiet!World = World
  /\ q_storage_writes = storage_writes
  /\ q_storage_refunds = storage_refunds /\ q_pubdata_costs = pubdata_costs
  /\ \A k \in Keys : AccessFlags(q_slot_flags.map[k]) = AccessFlags(slot_flags.map[k])
  /\ q_storage_logs = << >> /\ q_rollback_storage_logs = << >>

\* How many writes to slot k are pending where entry i of the trace stands.
DepthAt(i, k) ==
  LET undone == {j \in Writes(i, k) : storage_logs[j].rollback} IN
    Cardinality(ForwardWrites(i, k)) - Cardinality(undone)

\* did_read_at_depth_zero, as the deduplication computes it from the trace
DidReadAtDepthZero(k) ==
  \E i \in Accesses(Len(storage_logs) + 1, k) :
    ~storage_logs[i].rw_flag /\ DepthAt(i, k) = 0

\* protective_reads_iter
ProtectiveReads ==
  {k \in Keys : q_slot_flags.map[k] # None /\ SLOT_PROTECTIVE_READ \in q_slot_flags.map[k]}

\* The flag set at the moment of a read, from what is pending then, is the answer
\* the deduplication works out afterwards from the whole trace: a read under a
\* write that is later undone stays unprotected, one after the undoing counts,
\* and only the host's rollback takes a protective read back (world_diff.rs:234).
FlagIsDepthZeroRead == ProtectiveReads = {k \in Keys : DidReadAtDepthZero(k)}

\* get_storage_changes
StorageChanges(writes, initial) ==
  [k \in {k \in Keys : writes.map[k] # None /\ writes.map[k].value # initial[k]} |->
     [before |-> initial[k], after |-> writes.map[k].value]]

\* Without the trace a verifier still finds the deduplicated slots, with their
\* first and last values: the protective reads and the pending writes are the
\* slots the trace leaves read at depth zero or written, each of them has its
\* initial value cached, and the changes reported are those the trace replays to
\* (protective_reads_iter, initial_storage_value, get_storage_changes).
DedupIsDerivable ==
  LET end == Len(storage_logs) + 1
      written == {k \in Keys : q_storage_writes.map[k] # None}
      deduplicated == ProtectiveReads \cup written
      initial == q_storage_initial_values
  IN
  /\ deduplicated = {k \in Keys : DidReadAtDepthZero(k) \/ DepthAt(end, k) > 0}
  /\ \A k \in deduplicated : initial[k] = InitialValue[k]
  /\ StorageChanges(q_storage_writes, initial) =
       [k \in {k \in Keys : Replayed(end, k) # InitialValue[k]} |->
          [before |-> InitialValue[k], after |-> Replayed(end, k)]]
=============================================================================
