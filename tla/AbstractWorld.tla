---------------------------- MODULE AbstractWorld ----------------------------
(***************************************************************************)
(* What WorldDiff promises, without journals: a call saves a copy of the   *)
(* world, a failed call puts the copy back, and nothing else ever touches  *)
(* a saved copy.  What is charged and what is remembered about accesses    *)
(* outlives a failed call; only the host's rollback takes it back.         *)
(***************************************************************************)
EXTENDS Integers, Sequences

CONSTANTS Keys, TransientKeys, Hashes, None

VARIABLES
  world,      \* [writes, transient, events, l2_to_l1_logs, pubdata]
  ledger,     \* [flags, hashes, pinned, refunds, costs]
  trace,      \* the storage logs
  saved,      \* copies of world, one per open call, outermost first
  batch,      \* << >>, or << the host's copy of world, ledger and trace >>
  floor       \* transient storage as of the last point it cannot be taken
              \* back beyond: transaction start, commit or rollback of a batch

avars == << world, ledger, trace, saved, batch, floor >>

Absent(K) == [k \in K |-> None]

Init ==
  /\ world = [writes |-> Absent(Keys), transient |-> Absent(TransientKeys),
              events |-> << >>, l2_to_l1_logs |-> << >>, pubdata |-> 0]
  /\ ledger = [flags |-> Absent(Keys), hashes |-> Absent(Hashes), pinned |-> {},
               refunds |-> << >>, costs |-> << >>]
  /\ trace = << >>
  /\ saved = << >>
  /\ batch = << >>
  /\ floor = Absent(TransientKeys)

IsPrefixOf(s, t) == Len(s) <= Len(t) /\ \A i \in 1..Len(s) : t[i] = s[i]

Paid(e) == IF e = None THEN 0 ELSE e.paid

\* A flag once set, a hash or page once recorded and an amount once charged stay.
LedgerGrows ==
  /\ \A k \in Keys : ledger.flags[k] # None =>
       ledger'.flags[k] # None /\ ledger.flags[k] \subseteq ledger'.flags[k]
  /\ \A h \in Hashes : ledger.hashes[h] # None => ledger'.hashes[h] # None
  /\ ledger.pinned \subseteq ledger'.pinned
  /\ IsPrefixOf(ledger.refunds, ledger'.refunds)
  /\ IsPrefixOf(ledger.costs, ledger'.costs)

TraceGrows == IsPrefixOf(trace, trace')

\* One slot gets an entry; pubdata moves by what the slot pays more than before.
Write ==
  /\ \E k \in Keys :
       /\ world'.writes[k] # None
       /\ world' = [world EXCEPT
            !.writes  = [@ EXCEPT ![k] = world'.writes[k]],
            !.pubdata = @ + world'.writes[k].paid - Paid(world.writes[k])]
  /\ LedgerGrows /\ TraceGrows
  /\ UNCHANGED << saved, batch, floor >>

WriteTransient ==
  /\ \E k \in TransientKeys :
       world' = [world EXCEPT !.transient = [@ EXCEPT ![k] = world'.transient[k]]]
  /\ LedgerGrows
  /\ UNCHANGED << trace, saved, batch, floor >>

Emit ==
  /\ IsPrefixOf(world.events, world'.events)
  /\ IsPrefixOf(world.l2_to_l1_logs, world'.l2_to_l1_logs)
  /\ world' = [world EXCEPT !.events = world'.events,
                            !.l2_to_l1_logs = world'.l2_to_l1_logs]
  /\ UNCHANGED << ledger, trace, saved, batch, floor >>

ChargePubdata ==
  /\ world'.pubdata >= world.pubdata
  /\ world' = [world EXCEPT !.pubdata = world'.pubdata]
  /\ UNCHANGED << ledger, trace, saved, batch, floor >>

Observe ==
  /\ LedgerGrows /\ TraceGrows
  /\ UNCHANGED << world, saved, batch, floor >>

\* A call may read and decommit on its way in, but never writes.
Enter ==
  /\ saved' = Append(saved, world)
  /\ LedgerGrows /\ TraceGrows
  /\ UNCHANGED << world, batch, floor >>

Leave ==
  /\ saved # << >>
  /\ saved' = SubSeq(saved, 1, Len(saved) - 1)
  /\ UNCHANGED << world, ledger, trace, batch, floor >>

Fail ==
  /\ saved # << >>
  /\ world' = saved[Len(saved)]
  /\ saved' = SubSeq(saved, 1, Len(saved) - 1)
  /\ TraceGrows
  /\ UNCHANGED << ledger, batch, floor >>

\* Transient storage is the exception: it is taken back to the floor.
HoldBatch ==
  /\ batch = << >> /\ saved = << >>
  /\ batch' = << [world  |-> [world EXCEPT !.transient = floor],
                  ledger |-> ledger, trace |-> trace] >>
  /\ UNCHANGED << world, ledger, trace, saved, floor >>

UndoBatch ==
  /\ batch # << >> /\ saved = << >>
  /\ world' = batch[1].world
  /\ ledger' = batch[1].ledger
  /\ trace' = batch[1].trace
  /\ batch' = << >>
  /\ floor' = world'.transient
  /\ UNCHANGED saved

CommitBatch ==
  /\ saved = << >>
  /\ batch' = << >>
  /\ floor' = world.transient
  /\ UNCHANGED << world, ledger, trace, saved >>

\* Clearing transient storage cannot be undone, by the host either.
StartTx ==
  /\ saved = << >>
  /\ world' = [world EXCEPT !.transient = Absent(TransientKeys)]
  /\ floor' = Absent(TransientKeys)
  /\ batch' = [i \in 1..Len(batch) |->
                 [batch[i] EXCEPT !.world.transient = Absent(TransientKeys)]]
  /\ UNCHANGED << ledger, trace, saved >>

Next ==
  \/ Write \/ WriteTransient \/ Emit \/ ChargePubdata \/ Observe
  \/ Enter \/ Leave \/ Fail
  \/ HoldBatch \/ UndoBatch \/ CommitBatch \/ StartTx

Spec == Init /\ [][Next]_avars
=============================================================================
