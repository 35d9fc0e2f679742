-------------------------------- MODULE Calls --------------------------------
(***************************************************************************)
(* Gas and the stack of calls: how near calls, far calls, returns, panics, *)
(* memory growth and refunds move gas (callframe.rs, near_call.rs,         *)
(* far_call.rs, ret.rs, heap_access.rs), and how the host runs the machine *)
(* with or without an additional gas limit and takes it back (vm.rs).      *)
(*                                                                         *)
(* A far-call frame with its near calls is spread over one stack, calls:   *)
(* an entry per call, each with the gas that call can use.  The code keeps *)
(* the gas of the innermost call in Callframe::gas and that of the others  *)
(* in NearCallFrame::previous_frame_gas.  Of the program counter only what *)
(* stops ordinary execution matters: it can be at code, or at the static   *)
(* PANIC or INVALID instruction.                                           *)
(***************************************************************************)
EXTENDS Integers, Sequences, FiniteSetsExt

CONSTANTS
  InitialGas,        \* gas given to VirtualMachine::new
  StaticCosts,       \* static costs of instructions
  RETURN_COST,       \* what a spontaneous panic costs
  Amounts,           \* gas the program asks to pass, burn or get refunded
  Bounds,            \* heap bounds an instruction or a pointer can need
  U32_MAX,
  Stipends,          \* NEW_*_FRAME_MEMORY_STIPEND
  MandatedGas,       \* MSG_VALUE_SIMULATOR_ADDITIVE_COST
  DecommitCosts,     \* prices of the callee's code
  Share,             \* 64: a caller keeps at least one part in so many
  GasLimits,         \* additional gas limits the host sets
  MaxDepth,          \* bound on the open calls
  MaxSnapshots       \* bound on the snapshots the host takes

\* Every instruction of the instruction set has a price.
ASSUME GasAssumption ==
  /\ InitialGas \in Nat /\ U32_MAX \in Nat /\ InitialGas <= U32_MAX
  /\ StaticCosts \subseteq Nat \ {0} /\ RETURN_COST \in Nat
  /\ Amounts \subseteq Nat /\ Bounds \subseteq 0..U32_MAX
  /\ Stipends \subseteq 0..U32_MAX /\ Stipends # {}
  /\ MandatedGas \in Nat /\ DecommitCosts \subseteq Nat
  /\ Share \in Nat \ {0} /\ GasLimits \subseteq Nat
  /\ MaxSnapshots \in Nat

VARIABLES
  calls,      \* the open calls, the bootloader's first
  sizes,      \* per far-call frame: the heap_size and aux_heap_size paid for
  status,     \* "running" or "stopped", the state of the host's run loop
  limit,      \* the additional gas limit: << >>, or << it >>
  answer,     \* what resume_with_additional_gas_limit last returned
  snapshot,   \* << >>, or << the bootloader frame's snapshot >>
  snapshots   \* how many snapshots were taken

vars == << calls, sizes, status, limit, answer, snapshot, snapshots >>
host == << snapshot, snapshots >>

Heaps == {"heap", "aux_heap"}

\* Where execution can go on: at an instruction of the program or, when the
\* program counter leaves it, at INVALID.
Targets == {"code", "invalid"}
PCs == Targets \cup {"panic"}

\* What resume_with_additional_gas_limit returned, if it has
NoAnswer == [outcome |-> "none"]
Exceeded == [outcome |-> "exceeded"]
Left(gas) == [outcome |-> "left", gas |-> gas]

\* frame is the number of the far-call frame the call belongs to.  given and
\* charged are history: what the call was given when it was entered, and what
\* it, and the calls that returned to it, have used up.
Call(kind, frame, pc, gas) ==
  [kind |-> kind, frame |-> frame, pc |-> pc, gas |-> gas, given |-> gas,
   charged |-> 0]

CallRecord ==
  [kind : {"near", "far"}, frame : Nat \ {0}, pc : PCs,
   gas : Nat, given : Nat, charged : Nat]
Sizes == [Heaps -> 0..U32_MAX]

Top == calls[Len(calls)]
Callers == SubSeq(calls, 1, Len(calls) - 1)

\* What vm.rs asserts: previous_frames is empty
InBootloader == Top.frame = 1

\* What the calls have left together
ContainedGas(cs) == SumFunction([i \in DOMAIN cs |-> cs[i].gas])

\* State::total_unspent_gas: contained_gas of the previous frames, but only
\* the innermost call's gas of the current one
TotalUnspentGas(cs) ==
  LET top == cs[Len(cs)]
  IN top.gas + SumFunction([i \in DOMAIN cs |->
                              IF cs[i].frame < top.frame THEN cs[i].gas ELSE 0])

-----------------------------------------------------------------------------
(* Paying *)

CanPay(c, amount) == c.gas >= amount

Charge(c, amount) ==
  [c EXCEPT !.gas = @ - amount, !.charged = @ + amount]

\* Mutant: the charge is made although there is not enough gas.
UseGasUnchecked(c, amount) == Charge(c, amount)

\* State::use_gas; burns everything when there is not enough
UseGas(c, amount) ==
  IF CanPay(c, amount) THEN Charge(c, amount) ELSE Charge(c, c.gas)

\* grow_heap, for the frame whose paid sizes are s
GrowHeap(c, s, h, bound) ==
  LET to_pay == bound - s[h]
  IN IF to_pay < 0 THEN [call |-> c, sizes |-> s, ok |-> TRUE]
     ELSE [call  |-> UseGas(c, to_pay),
           sizes |-> IF CanPay(c, to_pay) THEN [s EXCEPT ![h] = bound] ELSE s,
           ok    |-> CanPay(c, to_pay)]

\* What an ABI register asks of get_calldata: to forward a pointer, or to
\* make one to a range of a heap whose end may overflow 32 bits.  valid says
\* whether the checks on offset and pointer tag pass.
Overflow == U32_MAX + 1
Pointers ==
  [target : {"forward"}, bound : {0}, valid : BOOLEAN]
    \cup [target : Heaps, bound : Bounds \cup {Overflow}, valid : BOOLEAN]

\* get_calldata of an ABI register that holds zero, when already failed
NoPointer == [target |-> "heap", bound |-> 0, valid |-> FALSE]

\* get_calldata: a range that overflows grows the heap whatever else is wrong
GetCalldata(c, s, p, already_failed) ==
  LET overflows == p.bound = Overflow
      makes == p.target \in Heaps /\ (overflows \/ (p.valid /\ ~already_failed))
      grown == GrowHeap(c, s, p.target, IF overflows THEN U32_MAX ELSE p.bound)
  IN IF makes THEN [grown EXCEPT !.ok = @ /\ ~overflows]
     ELSE [call |-> c, sizes |-> s, ok |-> p.target = "forward" /\ p.valid]

-----------------------------------------------------------------------------
(* The run loop *)

\* Mutant: the limit is looked at when execution ends, and only then.
LoopCheckedAtEnd(ended) ==
  LET left == TotalUnspentGas(calls') - limit[1].minimum_gas
      exceeded == ended /\ limit # << >> /\ left < 0
  IN /\ status' = IF ended THEN "stopped" ELSE "running"
     /\ answer' = IF exceeded THEN Exceeded
                  ELSE IF ended /\ limit # << >> THEN Left(left)
                  ELSE NoAnswer
     /\ UNCHANGED << limit, host >>

\* Mutant: the end of execution is lost.
LoopForgettingEnd(ended) ==
  LET exceeded == limit # << >>
                    /\ TotalUnspentGas(calls') < limit[1].minimum_gas
  IN /\ status' = IF exceeded THEN "stopped" ELSE "running"
     /\ answer' = IF exceeded THEN Exceeded ELSE NoAnswer
     /\ UNCHANGED << limit, host >>

\* After a handler: the loops of run and resume_with_additional_gas_limit.
\* ended says whether the handler, or a tracer, stopped execution.
Loop(ended) ==
  LET left == TotalUnspentGas(calls') - limit[1].minimum_gas
      exceeded == limit # << >> /\ left < 0
  IN /\ status' = IF ended \/ exceeded THEN "stopped" ELSE "running"
     /\ answer' = IF exceeded THEN Exceeded
                  ELSE IF ended /\ limit # << >> THEN Left(left)
                  ELSE NoAnswer
     /\ UNCHANGED << limit, host >>

\* The handler leaves call c on top, at pc; a tracer or hook may stop here.
Continue(c, pc) ==
  /\ calls' = Append(Callers, [c EXCEPT !.pc = pc])
  /\ \E ended \in BOOLEAN : Loop(ended)

EnterCall(caller, callee) ==
  /\ calls' = Callers \o << caller, callee >>
  /\ \E ended \in BOOLEAN : Loop(ended)

\* Mutant: the gas the call was given returns, not what is left of it.
GiveBackWithoutLoss(caller, c, pc) ==
  [caller EXCEPT !.pc = pc, !.gas = @ + c.given, !.charged = @ + c.charged]

\* What call c has left returns to its caller.
GiveBack(caller, c, pc) ==
  [caller EXCEPT !.pc = pc, !.gas = @ + c.gas, !.charged = @ + c.charged]

\* The end of naked_ret: call c closes, and its caller goes on where the
\* program (or the call's exception handler) says.
LeaveCall(c) ==
  /\ \E pc \in Targets :
       calls' = [Callers EXCEPT ![Len(calls) - 1] = GiveBack(@, c, pc)]
  /\ \E ended \in BOOLEAN : Loop(ended)

\* naked_ret, for call c on top after what was paid so far.  panics: the
\* return type is Panic, so that the pointer is only resolved for its price.
NakedRet(c, p, panics) ==
  LET frame == Len(sizes)
      resolved == GetCalldata(c, sizes[frame], p, panics)
  IN \/ c.kind = "near" /\ LeaveCall(c) /\ UNCHANGED sizes
     \/ /\ c.kind = "far" /\ Len(calls) > 1
        /\ LeaveCall(resolved.call)
        /\ sizes' = SubSeq(sizes, 1, frame - 1)
     \/ /\ c.kind = "far" /\ Len(calls) = 1
        /\ calls' = << [resolved.call EXCEPT !.pc = "invalid"] >>
        /\ sizes' = << resolved.sizes >>
        /\ Loop(TRUE)

FreePanic(c) == NakedRet(c, NoPointer, TRUE)

-----------------------------------------------------------------------------
(* Instructions.  Each pays its static cost before anything else. *)

\* The instruction at the program counter is one of the program's, and its
\* static cost can be paid and its mode requirements are met.
Executes(cost) ==
  /\ status = "running" /\ Top.pc = "code"
  /\ cost \in StaticCosts
  /\ CanPay(Top, cost)

\* The static cost cannot be paid, or it is but the mode is not right.
PanicForFree ==
  /\ status = "running" /\ Top.pc = "code"
  /\ \E cost \in StaticCosts : FreePanic(UseGas(Top, cost))

\* PANIC, which an instruction that went wrong has left at the program counter
SpontaneousPanic ==
  /\ status = "running" /\ Top.pc = "panic"
  /\ FreePanic(UseGas(Top, RETURN_COST))

\* INVALID burns what is left.
InvalidInstruction ==
  /\ status = "running" /\ Top.pc = "invalid"
  /\ FreePanic(UseGas(Top, Top.gas))

\* Whatever touches neither gas nor calls, predicated-off instructions
\* included; some of them panic in the next cycle.
Compute ==
  \E cost \in StaticCosts, pc \in PCs :
    /\ Executes(cost)
    /\ Continue(Charge(Top, cost), pc)
    /\ UNCHANGED sizes

\* sload, sstore: part of the price comes back, never all of it.
AccessStorage ==
  \E cost \in StaticCosts, refund \in Amounts, pc \in Targets :
    /\ Executes(cost) /\ refund < cost
    /\ Continue(Charge(Charge(Top, cost), -refund), pc)
    /\ UNCHANGED sizes

\* precompile_call and decommit burn the amount they are told, without a panic
\* when they cannot; decommit gives it back when the code is not fresh.
BurnGas ==
  \E cost \in StaticCosts, amount \in Amounts, pc \in Targets :
    /\ Executes(cost)
    /\ Continue(UseGas(Charge(Top, cost), amount), pc)
    /\ UNCHANGED sizes

RepeatDecommit ==
  \E cost \in StaticCosts, extra_cost \in Amounts, pc \in Targets :
    LET paid == UseGas(Charge(Top, cost), extra_cost)
    IN /\ Executes(cost) /\ CanPay(Charge(Top, cost), extra_cost)
       /\ Continue(Charge(paid, -extra_cost), pc)
       /\ UNCHANGED sizes

\* Loads and stores.  An address out of range burns everything.
AccessHeap ==
  \E cost \in StaticCosts, h \in Heaps, bound \in Bounds, pc \in Targets :
    LET frame == Len(sizes)
        grown == GrowHeap(Charge(Top, cost), sizes[frame], h, bound)
    IN /\ Executes(cost)
       /\ Continue(grown.call, IF grown.ok THEN pc ELSE "panic")
       /\ sizes' = [sizes EXCEPT ![frame] = grown.sizes]

AccessOutOfRange ==
  \E cost \in StaticCosts :
    /\ Executes(cost)
    /\ Continue(UseGas(Charge(Top, cost), U32_MAX), "panic")
    /\ UNCHANGED sizes

\* near_call and push_near_call.  Passing zero means passing everything.
NearCall ==
  \E cost \in StaticCosts, gas_to_pass \in Amounts, pc \in Targets :
    LET c == Charge(Top, cost)
        new_frame_gas == IF gas_to_pass = 0 THEN c.gas
                         ELSE Min({gas_to_pass, c.gas})
    IN /\ Executes(cost) /\ Len(calls) < MaxDepth
       /\ EnterCall([c EXCEPT !.gas = @ - new_frame_gas],
                    Call("near", c.frame, pc, new_frame_gas))
       /\ UNCHANGED sizes

\* Mutant: a far call may pass on everything, like a near call.
MaximumGasAll(gas) == gas

\* What a far call passes on: at most Share-1 parts in Share of what is left
MaximumGas(gas) == (gas \div Share) * (Share - 1)

\* The mandated gas is set aside for the callee; without enough of it the rest
\* is burned.
TakeMandated(c, mandated) ==
  IF CanPay(c, mandated) THEN [c EXCEPT !.gas = @ - mandated]
  ELSE Charge(c, c.gas)

\* far_call.  decommit is the price of the callee's code, or NoCode if there is
\* none to run (WorldDiff::decommit found none, or the shard is not 0).
\* Whatever goes wrong makes the callee panic, not the caller.
NoCode == -1
FarCallWith(cost, p, mandated, decommit, gas_to_pass) ==
  LET frame == Len(sizes)
      resolved == GetCalldata(Charge(Top, cost), sizes[frame], p,
                              decommit = NoCode)
      enough == CanPay(resolved.call, mandated)
      c == TakeMandated(resolved.call, mandated)
      runs == enough /\ resolved.ok /\ decommit # NoCode /\ CanPay(c, decommit)
      caller == IF runs THEN Charge(c, decommit) ELSE c
      passed == Min({gas_to_pass, MaximumGas(caller.gas)})
  IN \E stipend \in Stipends :
       /\ EnterCall([caller EXCEPT !.gas = @ - passed],
                    Call("far", frame + 1, IF runs THEN "code" ELSE "panic",
                         passed + IF enough THEN mandated ELSE 0))
       /\ sizes' = Append([sizes EXCEPT ![frame] = resolved.sizes],
                          [h \in Heaps |-> stipend])

FarCall ==
  \E cost \in StaticCosts, p \in Pointers, mandated \in {0, MandatedGas},
     decommit \in DecommitCosts \cup {NoCode}, gas_to_pass \in Amounts :
    /\ Executes(cost) /\ Len(calls) < MaxDepth
    /\ FarCallWith(cost, p, mandated, decommit, gas_to_pass)

Ret ==
  \E cost \in StaticCosts, p \in Pointers, panics \in BOOLEAN :
    /\ Executes(cost)
    /\ NakedRet(Charge(Top, cost), p, panics)

Instruction ==
  \/ PanicForFree \/ SpontaneousPanic \/ InvalidInstruction
  \/ Compute \/ AccessStorage \/ BurnGas \/ RepeatDecommit
  \/ AccessHeap \/ AccessOutOfRange
  \/ NearCall \/ FarCall \/ Ret

-----------------------------------------------------------------------------
(* The host *)

Run ==
  /\ status = "stopped"
  /\ status' = "running" /\ limit' = << >> /\ answer' = NoAnswer
  /\ UNCHANGED << calls, sizes, host >>

\* resume_with_additional_gas_limit up to its loop.  started is history: all
\* the gas there was.
Resume ==
  \E gas_limit \in GasLimits :
    /\ status = "stopped"
    /\ status' = "running" /\ answer' = NoAnswer
    /\ limit' = << [gas_limit   |-> gas_limit,
                    minimum_gas |-> Max({0, TotalUnspentGas(calls) - gas_limit}),
                    started     |-> ContainedGas(calls),
                    unspent     |-> TotalUnspentGas(calls)] >>
    /\ UNCHANGED << calls, sizes, host >>

\* make_snapshot, as far as the bootloader's frame goes
MakeSnapshot ==
  /\ status = "stopped" /\ InBootloader
  /\ snapshot = << >> /\ snapshots < MaxSnapshots
  /\ snapshot' = << [calls |-> calls, sizes |-> sizes] >>
  /\ snapshots' = snapshots + 1
  /\ UNCHANGED << calls, sizes, status, limit, answer >>

\* A program counter that was at PANIC or INVALID was saved as an arbitrary
\* number, which may or may not be in the program.
Resumed(c, pc) == IF c.pc = "code" THEN c ELSE [c EXCEPT !.pc = pc]

\* Mutant: the paid sizes are not part of the frame's snapshot.
FrameRollbackKeepingSizes(s) ==
  /\ \E pc \in Targets : calls' = [s.calls EXCEPT ![Len(s.calls)] = Resumed(@, pc)]
  /\ sizes' = sizes

\* Callframe::rollback
FrameRollback(s) ==
  /\ \E pc \in Targets : calls' = [s.calls EXCEPT ![Len(s.calls)] = Resumed(@, pc)]
  /\ sizes' = s.sizes

HostRollback ==
  /\ status = "stopped" /\ InBootloader /\ snapshot # << >>
  /\ FrameRollback(snapshot[1])
  /\ snapshot' = << >>
  /\ limit' = << >> /\ answer' = NoAnswer
  /\ UNCHANGED << status, snapshots >>

PopSnapshot ==
  /\ status = "stopped" /\ InBootloader /\ snapshot # << >>
  /\ snapshot' = << >>
  /\ UNCHANGED << calls, sizes, status, limit, answer, snapshots >>

Host == Run \/ Resume \/ MakeSnapshot \/ HostRollback \/ PopSnapshot

Init ==
  /\ calls = << Call("far", 1, "code", InitialGas) >>
  /\ \E stipend \in Stipends : sizes = << [h \in Heaps |-> stipend] >>
  /\ status = "stopped" /\ limit = << >> /\ answer = NoAnswer
  /\ snapshot = << >> /\ snapshots = 0

Next == Instruction \/ Host

\* The run loop executes one instruction after another until it returns.
Spec == Init /\ [][Next]_vars /\ WF_vars(Instruction)

-----------------------------------------------------------------------------
(* Properties *)

TypeOK ==
  /\ calls \in Seq(CallRecord) /\ calls # << >>
  /\ sizes \in Seq(Sizes) /\ sizes # << >>
  /\ status \in {"running", "stopped"}
  /\ Len(limit) <= 1 /\ Len(snapshot) <= 1
  /\ answer.outcome \in {"none", "exceeded", "left"}
  /\ snapshots \in 0..MaxSnapshots

\* Gas is moved, never made: what a call has left, what it used up and what
\* the call it is waiting for was given add up to what it was given itself.
Balances(cs) ==
  \A i \in DOMAIN cs :
    cs[i].gas + cs[i].charged + (IF i < Len(cs) THEN cs[i + 1].given ELSE 0)
      = cs[i].given
EveryCallBalances == Balances(calls)

\* What the calls of far-call frame f have used up
ChargedTo(cs, f) ==
  SumFunction([i \in DOMAIN cs |-> IF cs[i].frame = f THEN cs[i].charged ELSE 0])

\* The heaps of a frame, added up
Memory(s) == s["heap"] + s["aux_heap"]

\* Memory is paid for, also after the host gave gas back: the growth of a
\* frame's heaps beyond its stipend was charged to the frame's calls.
\* (callframe.rs keeps sizes and gas in one snapshot.)
GrowthPaid(cs, ss) ==
  \A f \in DOMAIN ss : Memory(ss[f]) <= 2 * Max(Stipends) + ChargedTo(cs, f)
GrowthIsCharged == GrowthPaid(calls, sizes)

\* A far call leaves its caller one part in Share (far_call.rs: "At most 63/64
\* of the remaining gas is passed"), the mandated gas set aside before.
KeepsShares(cs) ==
  \A i \in 2 .. Len(cs) :
    cs[i].kind = "far" =>
      cs[i].given <= (Share - 1) * cs[i - 1].gas + MandatedGas
CallerKeepsItsShare == KeepsShares(calls)

\* The additional gas limit, set while no near call was open in the current
\* frame, bounds what the program spends, at the end and on the way there.
LimitIsEnforced ==
  limit # << >> /\ limit[1].started = limit[1].unspent =>
    LET spent == limit[1].started - ContainedGas(calls)
    IN /\ answer # Exceeded => spent <= limit[1].gas_limit
       /\ answer.outcome = "left" => answer.gas <= limit[1].gas_limit

\* vm.rs: "Returns how much of the extra gas limit is left and the stop reason,
\* unless the extra gas limit was exceeded."
AnswersAsDocumented ==
  limit # << >> =>
    LET spent == limit[1].started - ContainedGas(calls)
    IN /\ answer = Exceeded => spent > limit[1].gas_limit
       /\ answer.outcome = "left" => answer.gas <= limit[1].gas_limit

\* Every run ends: each instruction costs something, or closes a call.
RunsEnd == status = "running" ~> status = "stopped"

=============================================================================
