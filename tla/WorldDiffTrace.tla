--------------------------- MODULE WorldDiffTrace ---------------------------
(***************************************************************************)
(* Properties of WorldDiff that quantify over whole histories: what the    *)
(* storage log trace says, and sums over what was paid.                    *)
(***************************************************************************)
EXTENDS WorldDiff, SequencesExt, FiniteSetsExt

\* A slot is a 160-bit address and a 256-bit key.
ASSUME KeysAssumption == IsFiniteSet(Keys)

\* What the entries of a map of writes paid.
TotalPaid(writes) == SumFunction([k \in Keys |-> Paid(writes[k])])

-----------------------------------------------------------------------------
(* Reading the trace the way its consumers do *)

\* The value a write or rollback entry expects in the slot, and leaves there.
Before(log) == IF log.rollback THEN log.written_value ELSE log.read_value
After(log)  == IF log.rollback THEN log.read_value ELSE log.written_value

\* Positions before i that access slot k, and those that write it.
Accesses(i, k) == {j \in 1..(i - 1) : storage_logs[j].key = k}
Writes(i, k) == {j \in Accesses(i, k) : storage_logs[j].rw_flag}
ForwardWrites(i, k) == {j \in Writes(i, k) : ~storage_logs[j].rollback}

\* The value of slot k according to the entries before position i.
Replayed(i, k) ==
  IF Writes(i, k) = {} THEN InitialValue[k] ELSE After(storage_logs[Max(Writes(i, k))])

\* Replaying the trace, reverted writes and their rollback entries included,
\* explains every value an entry says it read and ends in the pending state
\* (write_storage, read_storage_inner, append_rollback_logs).
TraceReplays ==
  ~skip_storage_logs =>
    /\ \A i \in 1..Len(storage_logs) :
         Before(storage_logs[i]) = Replayed(i, storage_logs[i].key)
    /\ \A k \in Keys : CurrentValue(k) = Replayed(Len(storage_logs) + 1, k)

\* The position of the write that an entry, or a twin held back, undoes.
WriteOf(log) == log.timestamp + 1

\* Each rollback entry undoes the one earlier write whose timestamp it carries,
\* no write is undone twice, and the twins still held back are exactly those of
\* the writes not undone, oldest first (append_rollback_logs splits them off).
RollbackTwins ==
  LET undone == {i \in 1..Len(storage_logs) : storage_logs[i].rollback}
      forward == {i \in 1..Len(storage_logs) :
                    storage_logs[i].rw_flag /\ ~storage_logs[i].rollback}
      held == 1..Len(rollback_storage_logs)
      twin(i) == WriteOf(storage_logs[i])
      pending(i) == WriteOf(rollback_storage_logs[i])
  IN
  /\ \A i \in undone :
       /\ twin(i) < i
       /\ storage_logs[twin(i)] = [storage_logs[i] EXCEPT !.rollback = FALSE]
       /\ \A j \in undone \ {i} : twin(j) # twin(i)
  /\ {pending(i) : i \in held} = forward \ {twin(i) : i \in undone}
  /\ \A i \in held :
       rollback_storage_logs[i] = [storage_logs[pending(i)] EXCEPT !.rollback = TRUE]
  /\ \A i, j \in held : i < j => pending(i) < pending(j)

\* A slot is warm exactly when the trace holds an access to it: warmth survives
\* the frame that caused it, and goes away only when the host takes the access
\* itself back (slot_flags against storage_logs).
FlagsMatchTrace ==
  ~skip_storage_logs =>
    \A k \in Keys :
      LET end == Len(storage_logs) + 1
          flags == slot_flags.map[k]
      IN /\ (flags = None) <=> (Accesses(end, k) = {})
         /\ flags # None =>
              /\ SLOT_READ \in flags
              /\ (SLOT_WRITTEN \in flags) <=> (ForwardWrites(end, k) # {})
              /\ SLOT_PROTECTIVE_READ \notin flags

\* What an access to slot k is refunded, from the accesses the trace holds.
ExpectedRefund(k, is_write) ==
  LET end == Len(storage_logs) + 1 IN
  CASE ~is_write /\ (k \in FreeSlots \/ Accesses(end, k) # {}) -> WARM_READ_REFUND
    [] is_write /\ (k \in FreeSlots \/ ForwardWrites(end, k) # {}) -> WARM_WRITE_REFUND
    [] is_write /\ k \notin FreeSlots /\ ForwardWrites(end, k) = {}
         /\ Accesses(end, k) # {} -> COLD_WRITE_AFTER_WARM_READ_REFUND
    [] OTHER -> 0

\* Every refund given is the one the history of the slot entitles it to, whether
\* or not the frames of that history failed (read_storage, write_storage).
RefundsFollowHistory ==
  [][ (~skip_storage_logs /\ Len(storage_refunds') > Len(storage_refunds)) =>
        LET log == Last(storage_logs') IN
          Last(storage_refunds') = ExpectedRefund(log.key, log.rw_flag) ]_vars

\* The pubdata counter is what the pending writes paid, through nested failures
\* and host rollbacks.  Extra pubdata of precompiles comes on top of it, so this
\* is for instances without any.
PubdataIsPaid == PubdataExtras = {} => pubdata = TotalPaid(storage_writes.map)

-----------------------------------------------------------------------------
(* The loops of rollback.rs *)

Undone(m, n) == Reverse(SubSeq(m.old_entries, n + 1, Len(m.old_entries)))

\* for (k, v) in old_entries.drain(snapshot..).rev() { restore or remove }
DrainReverse(m, n) ==
  FoldLeft(LAMBDA acc, e : [acc EXCEPT ![e.key] = e.old], m.map, Undone(m, n))

\* changes.entry(key).and_modify(overwrite the old value).or_insert((old, now))
ChangesLoop(m, n) ==
  FoldLeft(LAMBDA acc, e :
             [k \in DOMAIN acc \cup {e.key} |->
                IF k # e.key THEN acc[k]
                ELSE [before |-> e.old,
                      after  |-> IF k \in DOMAIN acc THEN acc[k].after
                                 ELSE m.map[k]]],
           << >>, Undone(m, n))

\* Undoing entry by entry, newest first, ends where the closed form says, for
\* every journal and every snapshot of it (RollbackableMap::rollback).
DrainAgrees(m) ==
  \A n \in 0..Len(m.old_entries) : DrainReverse(m, n) = MapAt(m, n)

DrainIsOldestEntry ==
  /\ DrainAgrees(storage_writes) /\ DrainAgrees(transient_storage_changes)
  /\ DrainAgrees(slot_flags) /\ DrainAgrees(decommitted_hashes)

\* changes_after pairs the value a slot had at the snapshot with the one it has
\* now, and never meets a slot that is no longer there (its unwrap).
ChangesAreADiff ==
  \A n \in 0..Len(storage_writes.old_entries) :
    LET changes == ChangesAfter(storage_writes, n) IN
      /\ ChangesLoop(storage_writes, n) = changes
      /\ \A k \in DOMAIN changes : changes[k].after # None
      /\ \A k \in Keys \ DOMAIN changes :
           MapAt(storage_writes, n)[k] = storage_writes.map[k]

=============================================================================
