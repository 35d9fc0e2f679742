----------------------------- MODULE Instructions -----------------------------
(***************************************************************************)
(* One far-call frame that executes instructions: predicates and prices    *)
(* (common.rs, predication.rs, mode_requirements.rs), the addressing modes *)
(* (addressing_modes.rs) and the handlers under instruction_handlers/,     *)
(* down to what they leave in the registers, on the stack and in flags.    *)
(*                                                                         *)
(* The program is not fixed: at every program counter any instruction of   *)
(* Instrs may stand.  A word keeps the fields of a fat pointer, each of 32 *)
(* bits; the 128 bits above them are one more limb.  What memory, the      *)
(* world and a callee answer is arbitrary.  Near calls and the gas a       *)
(* callee is given are in module Calls.                                    *)
(***************************************************************************)
EXTENDS Integers

CONSTANTS
  Instrs,            \* the instructions a program may contain
  CodeLength,        \* instructions of the program; INVALID stands behind them
  CodePage,          \* function: the first words of the code page
  LastRegister,      \* 15
  U32_MAX,
  LimbBits,          \* bits of a limb, 32
  U16,               \* number of stack slots, 2^16
  WORD,              \* bytes of a word, 32
  CalldataPage, CalldataStart, CalldataLength,   \* calldata of this frame
  BasePage,          \* the first page of this frame's group
  CalleePage,        \* a page that a callee returns a part of
  CalleeSize,        \* how much of it
  PinnedPage,        \* a page that holds decommitted code
  Stipends, KernelStipend,   \* NEW_*_FRAME_MEMORY_STIPEND
  InitialGas,
  Words,             \* words that come from memory, the world or the caller
  Callees,           \* ways in which a callee ends
  Modes              \* records of the modes a frame runs in: kernel, static

U32s == 0..U32_MAX
U32 == U32_MAX + 1
Registers == 0..LastRegister
Slots == 0..(U16 - 1)
Heaps == {"heap", "aux_heap"}
Conditions == {"lt", "eq", "gt"}

Word == [offset : U32s, page : U32s, start : U32s, length : U32s, high : U32s]
Cell == [word : Word, is_pointer : BOOLEAN]

\* U256::from
Small(n) == [offset |-> n, page |-> 0, start |-> 0, length |-> 0, high |-> 0]
Zero == Small(0)
Plain(w) == [word |-> w, is_pointer |-> FALSE]
Tagged(w) == [word |-> w, is_pointer |-> TRUE]
Empty == Plain(Zero)

StackModes == {"absolute", "relative", "advance"}
SourceModes == StackModes \cup {"register", "immediate", "code"}
DestinationModes == StackModes \cup {"register"}

\* predicate holds the flags of which one has to be set, and those that must
\* not be; ALWAYS_BIT is set in any flags.
Predicate == [any : SUBSET (Conditions \cup {"always"}), none : SUBSET Conditions]

\* in2 and dst1 are registers.  imm is the exception handler of a far call.
Instruction ==
  [op : STRING, cost : Nat, kernel_only : BOOLEAN, not_in_static : BOOLEAN,
   predicate : Predicate,
   in1 : [mode : SourceModes, reg : Registers, imm : Slots], in2 : Registers,
   out : [mode : DestinationModes, reg : Registers, imm : Slots],
   dst1 : Registers, swap : BOOLEAN, set_flags : BOOLEAN,
   increment : BOOLEAN, imm : Slots]

BinopOps == {"add", "sub", "and", "or", "xor", "shl", "shr", "rol", "ror",
             "mul", "div"}
PtrOps == {"ptr.add", "ptr.sub", "ptr.pack", "ptr.shrink"}
ContextOps == {"ergs_left", "sp", "meta", "address"}
Writes == {"sstore", "tstore"}
Loads == {"sload", "tload"}
Logs == {"event", "l2_to_l1"}
ContextChanges == {"set_context", "increment_tx", "aux_mutating"}
Frames == {"far_call", "ret", "revert", "panic"}

\* The operands and modifiers an opcode can have
Form(i, ops, sources, destinations, modifiers) ==
  /\ i.op \in ops /\ i.in1.mode \in sources /\ i.out.mode \in destinations
  /\ {m \in {"swap", "set_flags", "increment"} : i[m]} \subseteq modifiers

\* decode
DecodedComputation(i) ==
  \/ Form(i, BinopOps, SourceModes, DestinationModes, {"swap", "set_flags"})
  \/ Form(i, PtrOps, SourceModes, DestinationModes, {"swap"})
  \/ Form(i, {"jump"}, SourceModes, {"register"}, {})
  \/ Form(i, ContextOps \cup ContextChanges, {"register"}, {"register"}, {})

DecodedEffect(i) ==
  Form(i, Frames \cup Loads \cup Writes \cup Logs \cup {"decommit", "precompile"},
       {"register"}, {"register"}, {})

DecodedMemory(i) ==
  \/ Form(i, {"heap.read", "heap.write", "aux.read", "aux.write", "static.read",
              "static.write"}, {"register", "immediate"}, {"register"}, {"increment"})
  \/ Form(i, {"ptr.read"}, {"register"}, {"register"}, {"increment"})
  \/ Form(i, {"nop"}, {"advance"}, {"advance"}, {})

Decoded(i) == DecodedComputation(i) \/ DecodedEffect(i) \/ DecodedMemory(i)

\* How a callee may end.  It returns a part, chosen by cut and length, of a
\* page of its own or, if it may, of its calldata or of code.  failed says that
\* there is nothing to call.  The callee's return instruction may clear r1 as
\* its dst1.
Callee ==
  [ends : {"ok", "revert", "panic"}, from : {"own", "calldata", "code"},
   cut : U32s, length : U32s, failed : BOOLEAN, spent : Nat, clears : BOOLEAN]

Bits == 0..(LimbBits - 1)
BitsOf == [x \in U32s |-> {b \in Bits : (x \div 2^b) % 2 = 1}]

\* Every set of bits is that of a number; pages are numbered in the order in
\* which they are created; the instruction set keeps decommit and precompile
\* calls for the kernel.
ASSUME InstructionsAssumption ==
  /\ LimbBits \in Nat
  /\ U32_MAX \in Nat \ {0}
  /\ \A B \in SUBSET Bits : \E x \in U32s : BitsOf[x] = B
  /\ LastRegister \in Nat \ {0} /\ U16 \in Nat \ {0} /\ U16 <= U32
  /\ CodeLength \in Nat /\ CodeLength < U16
  /\ CodePage \in [DOMAIN CodePage -> Word]
  /\ WORD \in Nat \ {0} /\ WORD <= U32_MAX
  /\ CalldataStart \in U32s /\ CalldataLength \in U32s
  /\ CalldataStart + CalldataLength <= U32_MAX
  /\ CalldataPage \in U32s \ {0} /\ BasePage \in Nat /\ CalldataPage < BasePage
  /\ CalleePage \in U32s /\ BasePage + 3 < CalleePage
  /\ PinnedPage \in U32s
  /\ CalleeSize \in U32s /\ Stipends \subseteq U32s /\ KernelStipend \in U32s
  /\ Instrs \subseteq Instruction /\ \A i \in Instrs : Decoded(i)
  /\ \A i \in Instrs : i.op \in {"decommit", "precompile"} => i.kernel_only
  /\ InitialGas \in U32s /\ Callees \subseteq Callee
  /\ Words \subseteq Word /\ Modes \subseteq [kernel : BOOLEAN, static : BOOLEAN]

VARIABLES
  registers,   \* with their pointer flags
  stack,       \* likewise
  sp,
  flags,
  gas,
  heap_size,   \* per heap of the frame: how much of it is paid for
  pc,
  mode,        \* is_kernel and is_static of the frame
  status,      \* "running", or how the frame ended
  seen         \* history: the memory accessed and words sent out last

vars == << registers, stack, sp, flags, gas, heap_size, pc, mode, status, seen >>
operands == << registers, stack, sp >>

HeapPage(h) == BasePage + (IF h = "heap" THEN 2 ELSE 3)

Seen(kind, page, from, to, sent) ==
  [kind |-> kind, page |-> page, from |-> from, to |-> to, sent |-> sent]
Nothing == Seen("nothing", 0, 0, 0, << >>)
Sent(words) == Seen("sent", 0, 0, 0, words)
Accessed(page, from, to, words) == Seen("memory", page, from, to, words)

-----------------------------------------------------------------------------
(* Operands *)

\* compute_stack_address
Address(o) == (registers[o.reg].word.offset + o.imm) % U16

\* address_for_get; reading a popped operand moves the stack pointer
Slot(o) == IF o.mode = "absolute" THEN Address(o) ELSE (sp - Address(o)) % U16
SpAfterRead(o) == IF o.mode = "advance" THEN Slot(o) ELSE sp

\* get_with_pointer_flag
Read(o) ==
  CASE o.mode = "register"  -> registers[o.reg]
    [] o.mode = "immediate" -> Plain(Small(o.imm))
    [] o.mode = "code"      -> IF Address(o) \in DOMAIN CodePage
                               THEN Plain(CodePage[Address(o)]) ELSE Empty
    [] o.mode \in StackModes -> stack[Slot(o)]

\* Mutant: the pages of pointers stay in the words that are computed with.
ErasedNever(c) == c.word

\* get, get_with_pointer_flag_and_erasing
Erased(c) ==
  IF c.is_pointer /\ ~mode.kernel
  THEN [c.word EXCEPT !.page = 0, !.start = 0] ELSE c.word

Get(o) == Erased(Read(o))
GetRegister(r) == Erased(registers[r])

\* Register::set; writes to r0 are ignored
Written(rs, r, c) == IF r = 0 THEN rs ELSE [rs EXCEPT ![r] = c]

NoOutput == [mode |-> "register", reg |-> 0, imm |-> 0]

\* What an instruction leaves in its outputs: primary in out, then second in
\* dst1, which is cleared by the instructions that have no second output.
Put(i, out, primary, second) ==
  LET after == SpAfterRead(i.in1)
      slot == CASE out.mode = "absolute" -> Address(out)
                [] out.mode = "relative" -> (after - Address(out)) % U16
                [] OTHER                 -> after
  IN /\ registers' = Written(IF out.mode = "register"
                             THEN Written(registers, out.reg, primary)
                             ELSE registers, i.dst1, second)
     /\ stack' = IF out.mode \in StackModes
                 THEN [stack EXCEPT ![slot] = primary] ELSE stack
     /\ sp' = IF out.mode = "advance" THEN (after + Address(out)) % U16 ELSE after

-----------------------------------------------------------------------------
(* full_boilerplate *)

Pays(i) ==
  /\ gas >= i.cost
  /\ i.kernel_only => mode.kernel
  /\ i.not_in_static => ~mode.static

Satisfied(p) ==
  /\ p.any \cap (flags \cup {"always"}) # {}
  /\ p.none \cap flags = {}

AtCode == status = "running" /\ pc < CodeLength

\* An instruction with one of the opcodes ops is executed
Runs(i, ops) == AtCode /\ Pays(i) /\ Satisfied(i.predicate) /\ i.op \in ops

\* The gas that is left when the handler starts
Paid(i) == gas - i.cost

\* State::use_gas: burns everything when there is not enough
Burn(g, amount) == IF g >= amount THEN g - amount ELSE 0

Continues(g) ==
  /\ gas' = g /\ pc' = pc + 1
  /\ UNCHANGED << mode, status >>

\* spontaneous_panic and free_panic; a frame that panics is dropped with its
\* stack, and its registers are cleared.
Panics(g) ==
  /\ gas' = g /\ status' = "panicked" /\ seen' = Nothing
  /\ UNCHANGED << operands, flags, heap_size, pc, mode >>

FreePanic(i) == AtCode /\ ~Pays(i) /\ Panics(Burn(gas, i.cost))

\* The predicate does not hold: a nop takes the instruction's place.
Skip(i) ==
  /\ AtCode /\ Pays(i) /\ ~Satisfied(i.predicate)
  /\ Continues(Paid(i)) /\ seen' = Nothing
  /\ UNCHANGED << operands, flags, heap_size >>

\* INVALID, behind the code, costs more than there can be.
InvalidInstruction == status = "running" /\ pc = CodeLength /\ Panics(0)

\* set_pc_from_u16
Target(n) == IF n < CodeLength THEN n ELSE CodeLength

-----------------------------------------------------------------------------
(* binop.rs *)

Value(w) ==
  w.offset + U32 * (w.page + U32 * (w.start + U32 * (w.length + U32 * w.high)))

\* The low bits of a number
FromNat(n) ==
  [offset |-> n % U32,
   page   |-> (n \div U32) % U32,
   start  |-> (n \div (U32 * U32)) % U32,
   length |-> (n \div (U32 * U32 * U32)) % U32,
   high   |-> (n \div (U32 * U32 * U32 * U32)) % U32]

U256 == U32 * U32 * U32 * U32 * U32
WordBits == 5 * LimbBits

\* Bits of a word, from the lowest; FromBits ignores those that do not exist.
WordBitsOf(w) ==
  BitsOf[w.offset] \cup {LimbBits + b : b \in BitsOf[w.page]}
    \cup {2 * LimbBits + b : b \in BitsOf[w.start]}
    \cup {3 * LimbBits + b : b \in BitsOf[w.length]}
    \cup {4 * LimbBits + b : b \in BitsOf[w.high]}

LimbAt(B, k) == CHOOSE x \in U32s : BitsOf[x] = {b \in Bits : k * LimbBits + b \in B}
FromBits(B) ==
  [offset |-> LimbAt(B, 0), page |-> LimbAt(B, 1), start |-> LimbAt(B, 2),
   length |-> LimbAt(B, 3), high |-> LimbAt(B, 4)]
Shifted(B, s) == {b + s : b \in B}

\* Flags::new
Flags(lt_of, eq, gt) ==
  {c \in Conditions : \/ c = "lt" /\ lt_of
                      \/ c = "eq" /\ eq
                      \/ c = "gt" /\ gt}

Result(w, second, fs) == [word |-> w, second |-> second, flags |-> fs]
Logical(w) == Result(w, Zero, Flags(FALSE, w = Zero, FALSE))
Carrying(w, overflow) ==
  Result(w, Zero, Flags(overflow, w = Zero, ~(overflow \/ w = Zero)))

\* Binop::perform
Perform(op, a, b) ==
  LET x == Value(a)
      y == Value(b)
      A == WordBitsOf(a)
      B == WordBitsOf(b)
      s == b.offset % WordBits
      low == FromNat((x * y) % U256)
      high == FromNat((x * y) \div U256)
  IN CASE op = "add" -> Carrying(FromNat((x + y) % U256), x + y >= U256)
       [] op = "sub" -> Carrying(FromNat((x - y) % U256), x < y)
       [] op = "and" -> Logical(FromBits(A \cap B))
       [] op = "or"  -> Logical(FromBits(A \cup B))
       [] op = "xor" -> Logical(FromBits((A \ B) \cup (B \ A)))
       [] op = "shl" -> Logical(FromBits(Shifted(A, s)))
       [] op = "shr" -> Logical(FromBits(Shifted(A, -s)))
       [] op = "rol" -> Logical(FromBits(Shifted(A, s) \cup Shifted(A, s - WordBits)))
       [] op = "ror" -> Logical(FromBits(Shifted(A, -s) \cup Shifted(A, WordBits - s)))
       [] op = "mul" -> Result(low, high,
                          Flags(high # Zero, low = Zero, high = Zero /\ low # Zero))
       [] op = "div" -> IF y = 0 THEN Result(Zero, Zero, {"lt"})
                        ELSE Result(FromNat(x \div y), FromNat(x % y),
                                    Flags(FALSE, x \div y = 0, x % y = 0))

Binop(i) ==
  LET a == Get(i.in1)
      b == GetRegister(i.in2)
      r == IF i.swap THEN Perform(i.op, b, a) ELSE Perform(i.op, a, b)
  IN /\ Runs(i, BinopOps)
     /\ Put(i, i.out, Plain(r.word), Plain(r.second))
     /\ flags' = IF i.set_flags THEN r.flags ELSE flags
     /\ Continues(Paid(i)) /\ seen' = Nothing /\ UNCHANGED heap_size

-----------------------------------------------------------------------------
(* pointer.rs *)

\* Mutant: the length wraps when more is cut off than there is.
PerformPtrWrapping(op, p, b) ==
  CASE op = "ptr.shrink" -> {[p EXCEPT !.length = (@ - b.offset) % U32]}
    [] op # "ptr.shrink" -> {p}

\* PtrOp::perform: the resulting word, if there is one
PerformPtr(op, p, b) ==
  CASE op = "ptr.add" ->
         {[p EXCEPT !.offset = n] : n \in
           {p.offset + b.offset} \cap (IF b = Small(b.offset) THEN U32s ELSE {})}
    [] op = "ptr.sub" ->
         {[p EXCEPT !.offset = n] : n \in
           {p.offset - b.offset} \cap (IF b = Small(b.offset) THEN U32s ELSE {})}
    [] op = "ptr.pack" ->
         IF b = [Zero EXCEPT !.high = b.high] THEN {[p EXCEPT !.high = b.high]} ELSE {}
    [] op = "ptr.shrink" ->
         {[p EXCEPT !.length = n] : n \in {p.length - b.offset} \cap U32s}

\* The second operand is erased, and must not be a pointer in kernel mode.
PtrOp(i) ==
  LET a == IF i.swap THEN registers[i.in2] ELSE Read(i.in1)
      b == IF i.swap THEN Read(i.in1) ELSE registers[i.in2]
      results == IF a.is_pointer /\ ~(b.is_pointer /\ mode.kernel)
                 THEN PerformPtr(i.op, a.word, Erased(b)) ELSE {}
  IN /\ Runs(i, PtrOps)
     /\ \/ results = {} /\ Panics(Paid(i))
        \/ \E w \in results :
             /\ Put(i, i.out, Tagged(w), Empty)
             /\ Continues(Paid(i)) /\ seen' = Nothing
             /\ UNCHANGED << flags, heap_size >>

-----------------------------------------------------------------------------
(* heap_access.rs *)

\* Mutant: the last address is taken for one to which a word can be added.
LastAddressIsMax == U32_MAX

\* LAST_ADDRESS: the last address to which the size of a word can be added
LastAddress == U32_MAX - WORD

\* bigger_than_last_address
TooBig(w) == w # Small(w.offset) \/ w.offset > LastAddress

\* grow_heap
Grow(h, bound, g) ==
  LET to_pay == bound - heap_size[h]
      ok == g >= to_pay
  IN IF to_pay < 0 THEN [ok |-> TRUE, gas |-> g, sizes |-> heap_size]
     ELSE [ok |-> ok, gas |-> Burn(g, to_pay),
           sizes |-> IF ok THEN [heap_size EXCEPT ![h] = bound] ELSE heap_size]

\* A pointer plus the size of a word, as a sum of 256-bit numbers
Incremented(w) ==
  LET sum == w.offset + WORD
      carry == IF sum > U32_MAX THEN 1 ELSE 0
  IN [w EXCEPT !.offset = sum % U32, !.page = (@ + carry) % U32]

\* set_incremented_read_offset: the pointer, which is not erased, hands its tag on
IncrementedOutput(i, c) ==
  IF i.increment THEN [word |-> Incremented(c.word), is_pointer |-> c.is_pointer]
  ELSE Empty

HeapOf(op) == IF op \in {"heap.read", "heap.write"} THEN "heap" ELSE "aux_heap"

\* load; w is what the memory holds
Load(i, w) ==
  LET c == Read(i.in1)
      from == c.word.offset
      grown == Grow(HeapOf(i.op), (from + WORD) % U32, Paid(i))
  IN /\ Runs(i, {"heap.read", "aux.read"})
     /\ \/ TooBig(c.word) /\ Panics(Burn(Paid(i), U32_MAX))
        \/ ~TooBig(c.word) /\ ~grown.ok /\ Panics(grown.gas)
        \/ /\ ~TooBig(c.word) /\ grown.ok
           /\ Put(i, i.out, Plain(w), IncrementedOutput(i, c))
           /\ Continues(grown.gas) /\ heap_size' = grown.sizes
           /\ seen' = Accessed(HeapPage(HeapOf(i.op)), from, from + WORD, << >>)
           /\ UNCHANGED flags

\* load_static: no growth is paid for, and a bad address burns no gas
LoadStatic(i, w) ==
  LET c == Read(i.in1)
  IN /\ Runs(i, {"static.read"})
     /\ \/ TooBig(c.word) /\ Panics(Paid(i))
        \/ /\ ~TooBig(c.word)
           /\ Put(i, i.out, Plain(w), IncrementedOutput(i, c))
           /\ Continues(Paid(i)) /\ seen' = Nothing
           /\ UNCHANGED << flags, heap_size >>

\* store
Store(i) ==
  LET p == Read(i.in1).word
      from == p.offset
      grown == Grow(HeapOf(i.op), (from + WORD) % U32, Paid(i))
  IN /\ Runs(i, {"heap.write", "aux.write"})
     /\ \/ TooBig(p) /\ Panics(Burn(Paid(i), U32_MAX))
        \/ ~TooBig(p) /\ ~grown.ok /\ Panics(grown.gas)
        \/ /\ ~TooBig(p) /\ grown.ok
           /\ Put(i, IF i.increment THEN i.out ELSE NoOutput,
                  Plain(Incremented(p)), Empty)
           /\ Continues(grown.gas) /\ heap_size' = grown.sizes
           /\ seen' = Accessed(HeapPage(HeapOf(i.op)), from, from + WORD,
                               << GetRegister(i.in2) >>)
           /\ UNCHANGED flags

\* store_static; static memory is shared, so what is written goes out
StoreStatic(i) ==
  LET p == Read(i.in1).word
  IN /\ Runs(i, {"static.write"})
     /\ \/ TooBig(p) /\ Panics(Paid(i))
        \/ /\ ~TooBig(p)
           /\ Put(i, IF i.increment THEN i.out ELSE NoOutput,
                  Plain(Incremented(p)), Empty)
           /\ Continues(Paid(i)) /\ seen' = Sent(<< GetRegister(i.in2) >>)
           /\ UNCHANGED << flags, heap_size >>

Smaller(m, n) == IF m < n THEN m ELSE n

\* load_pointer: bytes outside of the pointer's range are not read
LoadPointer(i, w) ==
  LET c == Read(i.in1)
      p == c.word
      bad == ~c.is_pointer \/ p.offset > LastAddress
      from == p.start + Smaller(p.offset, p.length)
      to == Smaller(Smaller(from + WORD, U32_MAX), p.start + p.length)
  IN /\ Runs(i, {"ptr.read"})
     /\ \/ bad /\ Panics(Paid(i))
        \/ /\ ~bad
           /\ Put(i, i.out, Plain(w),
                  IF i.increment THEN Tagged(Incremented(p)) ELSE Empty)
           /\ Continues(Paid(i)) /\ seen' = Accessed(p.page, from, to, << >>)
           /\ UNCHANGED << flags, heap_size >>

-----------------------------------------------------------------------------
(* jump.rs, nop.rs, context.rs *)

Jump(i) ==
  /\ Runs(i, {"jump"})
  /\ Put(i, i.out, Plain(Small(pc + 1)), Empty)
  /\ gas' = Paid(i) /\ pc' = Target(Get(i.in1).offset % U16) /\ seen' = Nothing
  /\ UNCHANGED << flags, heap_size, mode, status >>

\* A nop pops and pushes, without writing the stack
Nop(i) ==
  /\ Runs(i, {"nop"})
  /\ sp' = (Slot(i.in1) + Address(i.out)) % U16
  /\ registers' = Written(registers, i.dst1, Empty)
  /\ Continues(Paid(i)) /\ seen' = Nothing
  /\ UNCHANGED << stack, flags, heap_size >>

\* Addresses, context_u128 and, for the kernel, the published bytes: w
Context(i, w) ==
  LET meta == [Zero EXCEPT !.offset = IF mode.kernel THEN w.offset ELSE 0,
                           !.start = heap_size["heap"],
                           !.length = heap_size["aux_heap"]]
      result == CASE i.op = "ergs_left" -> Small(Paid(i))
                  [] i.op = "sp"        -> Small(sp)
                  [] i.op = "meta"      -> meta
                  [] i.op = "address"   -> w
  IN /\ Runs(i, ContextOps)
     /\ Put(i, i.out, Plain(result), Empty)
     /\ Continues(Paid(i)) /\ seen' = Nothing /\ UNCHANGED << flags, heap_size >>

\* set_context_u128, increment_tx_number, aux_mutating
ContextChange(i) ==
  /\ Runs(i, ContextChanges)
  /\ Put(i, NoOutput, Empty, Empty)
  /\ Continues(Paid(i))
  /\ seen' = Sent(IF i.op = "set_context" THEN << Get(i.in1) >> ELSE << >>)
  /\ UNCHANGED << flags, heap_size >>

-----------------------------------------------------------------------------
(* storage.rs, event.rs, precompiles.rs, decommit.rs *)

\* sstore, sload and their transient counterparts; w is what a load finds.
\* Part of the price of sload and sstore is given back.
StorageAccess(i, w, refund) ==
  /\ Runs(i, Writes \cup Loads)
  /\ refund <= IF i.op \in {"sload", "sstore"} THEN i.cost ELSE 0
  /\ Put(i, IF i.op \in Loads THEN i.out ELSE NoOutput, Plain(w), Empty)
  /\ Continues(Paid(i) + refund)
  /\ seen' = Sent(IF i.op \in Writes THEN << Get(i.in1), GetRegister(i.in2) >>
                  ELSE << Get(i.in1) >>)
  /\ UNCHANGED << flags, heap_size >>

\* event, l2_to_l1.  Addresses are not modelled: an event counts as sent though
\* only the EventWriter's are recorded.
Log(i) ==
  /\ Runs(i, Logs)
  /\ Put(i, NoOutput, Empty, Empty)
  /\ Continues(Paid(i)) /\ seen' = Sent(<< Get(i.in1), GetRegister(i.in2) >>)
  /\ UNCHANGED << flags, heap_size >>

\* The price of a precompile call is in in2; the frame of a system contract is
\* trusted with the pages that the call reads and writes.
PrecompileCall(i) ==
  LET price == GetRegister(i.in2).offset
  IN /\ Runs(i, {"precompile"})
     /\ Put(i, i.out, Plain(Small(IF Paid(i) >= price THEN 1 ELSE 0)), Empty)
     /\ Continues(Burn(Paid(i), price)) /\ seen' = Nothing
     /\ UNCHANGED << flags, heap_size >>

\* Code goes to the frame's heap unless a page holds it already; it is paid
\* for unless it was decommitted before.
Decommit(i, valid, fresh, pinned) ==
  LET price == GetRegister(i.in2).offset
      code == [Zero EXCEPT !.page = IF pinned THEN PinnedPage ELSE HeapPage("heap"),
                           !.length = KernelStipend]
      found == Paid(i) >= price /\ valid
  IN /\ Runs(i, {"decommit"})
     /\ Put(i, i.out, IF found THEN Tagged(code) ELSE Empty, Empty)
     /\ Continues(IF found /\ ~fresh THEN Paid(i) ELSE Burn(Paid(i), price))
     /\ seen' = Nothing /\ UNCHANGED << flags, heap_size >>

-----------------------------------------------------------------------------
(* far_call.rs, ret.rs *)

Forwards(p) == p.high = 1
TargetHeap(p) == IF p.high = 2 THEN "aux_heap" ELSE "heap"
Overflows(p) == p.start + p.length > U32_MAX

\* FatPointer::narrow
Narrow(p) == [p EXCEPT !.start = @ + p.offset, !.length = @ - p.offset,
                       !.offset = 0, !.high = 0]

NotGrown(g, pointer) == [pointer |-> pointer, gas |-> g, sizes |-> heap_size]

\* Mutant: what has failed already makes no heap grow.
GetCalldataUnlessFailed(c, g, already_failed) ==
  IF already_failed THEN NotGrown(g, {})
  ELSE LET p == c.word
           grown == Grow(TargetHeap(p), Smaller(p.start + p.length, U32_MAX), g)
       IN [pointer |-> {}, gas |-> grown.gas, sizes |-> grown.sizes]

\* Mutant: a range is not paid for before a pointer to it is made.
GetCalldataForFree(c, g, already_failed) ==
  LET p == c.word
      made == [p EXCEPT !.page = HeapPage(TargetHeap(p)), !.high = 0]
  IN NotGrown(g, IF c.is_pointer \/ Overflows(p) \/ already_failed THEN {} ELSE {made})

\* get_calldata: the pointer, if there is one.  A range that overflows makes
\* the heap grow whatever else is wrong.
GetCalldata(c, g, already_failed) ==
  LET p == c.word
      h == TargetHeap(p)
      wrong == c.is_pointer \/ p.offset # 0 \/ already_failed
      grown == Grow(h, IF Overflows(p) THEN U32_MAX ELSE p.start + p.length, g)
      made == [p EXCEPT !.page = HeapPage(h), !.high = 0]
  IN IF Forwards(p)
     THEN NotGrown(g, IF c.is_pointer /\ p.offset <= p.length THEN {Narrow(p)} ELSE {})
     ELSE IF wrong /\ ~Overflows(p) THEN NotGrown(g, {})
     ELSE [pointer |-> IF grown.ok /\ ~Overflows(p) THEN {made} ELSE {},
           gas |-> grown.gas, sizes |-> grown.sizes]

\* The ABI register, whose page either names the pointer forwarded or is
\* replaced
Asked(c) == [c.word EXCEPT !.page = 0]

\* What a callee may take a part of to return it
Lent(c, calldata) ==
  CASE c.from = "own"      -> [Zero EXCEPT !.page = CalleePage, !.length = CalleeSize]
    [] c.from = "code"     -> [Zero EXCEPT !.page = PinnedPage, !.length = KernelStipend]
    [] c.from = "calldata" -> calldata

\* The call with all that the callee does.  Failing calls, too, get a frame
\* that panics at once.  Whatever is returned, r1 is a pointer.
FarCall(i, c) ==
  LET abi == Read(i.in1)
      r == GetCalldata(abi, Paid(i), c.failed)
      ended(w) == [n \in Registers |->
                     IF n = 1 /\ ~c.clears THEN Tagged(w) ELSE Empty]
  IN /\ Runs(i, {"far_call"})
     /\ c.spent <= r.gas
     /\ \/ c.ends = "panic" /\ registers' = ended(Zero)
        \/ \E calldata \in r.pointer :
             /\ c.ends # "panic" /\ ~c.failed
             /\ c.cut + c.length <= Lent(c, calldata).length
             /\ registers' = ended([Lent(c, calldata) EXCEPT !.start = @ + c.cut,
                                                           !.length = c.length])
     /\ flags' = IF c.ends = "panic" THEN {"lt"} ELSE {}
     /\ pc' = IF c.ends = "ok" THEN pc + 1 ELSE Target(i.imm)
     /\ gas' = r.gas - c.spent /\ heap_size' = r.sizes
     /\ seen' = Seen("call", 0, 0, 0, << Asked(abi), GetRegister(i.in2) >>)
     /\ UNCHANGED << stack, sp, mode, status >>

\* Frames of users must not return their calldata or older pages.
MayReturn(p) == mode.kernel \/ (p.page >= BasePage /\ p.page # CalldataPage)

Ends(op) == CASE op = "ret" -> "returned" [] op = "revert" -> "reverted"
              [] op = "panic" -> "panicked"

\* naked_ret of a far-call frame
Ret(i) ==
  LET abi == Read(i.in1)
      r == GetCalldata(abi, Paid(i), i.op = "panic")
      accepted == {p \in r.pointer : MayReturn(p) /\ i.op # "panic"}
  IN /\ Runs(i, {"ret", "revert", "panic"})
     /\ gas' = r.gas /\ heap_size' = r.sizes
     /\ \/ /\ accepted = {} /\ status' = "panicked"
           /\ seen' = Seen("call", 0, 0, 0, << Asked(abi) >>)
        \/ \E p \in accepted :
             /\ status' = Ends(i.op)
             /\ seen' = Seen("call", p.page, p.start, p.start + p.length,
                             << Asked(abi) >>)
     /\ UNCHANGED << operands, flags, pc, mode >>

-----------------------------------------------------------------------------
(* The frame *)

\* A new frame: r1 points to the calldata; a system call leaves arguments.
Init ==
  /\ mode \in Modes
  /\ \E w \in Words :
       registers = [r \in Registers |->
         IF r = 1 THEN Tagged([Zero EXCEPT !.page = CalldataPage,
                                           !.start = CalldataStart,
                                           !.length = CalldataLength])
         ELSE IF r > 2 THEN Plain(w) ELSE Empty]
  /\ stack = [s \in Slots |-> Empty] /\ sp = 0
  /\ flags = {} /\ gas = InitialGas
  /\ \E s \in IF mode.kernel THEN {KernelStipend} ELSE Stipends :
       heap_size = [h \in Heaps |-> s]
  /\ pc = 0 /\ status = "running" /\ seen = Nothing

Computes(i) ==
  \/ FreePanic(i) \/ Skip(i) \/ Binop(i) \/ PtrOp(i) \/ Store(i) \/ StoreStatic(i)
  \/ Jump(i) \/ Nop(i) \/ ContextChange(i) \/ Log(i) \/ Ret(i)

Reads(i, w) ==
  Load(i, w) \/ LoadStatic(i, w) \/ LoadPointer(i, w) \/ Context(i, w)

Next ==
  \/ InvalidInstruction
  \/ \E i \in Instrs :
       \/ Computes(i)
       \/ \E w \in Words : Reads(i, w)
       \/ \E w \in Words, refund \in 0..i.cost : StorageAccess(i, w, refund)
       \/ PrecompileCall(i)
       \/ \E valid, fresh, pinned \in BOOLEAN : Decommit(i, valid, fresh, pinned)
       \/ \E c \in Callees : FarCall(i, c)

Spec == Init /\ [][Next]_vars

-----------------------------------------------------------------------------
(* Properties *)

\* The type invariant.
TypeOK ==
  /\ registers \in [Registers -> Cell] /\ registers[0] = Empty
  /\ stack \in [Slots -> Cell] /\ sp \in Slots
  /\ flags \subseteq Conditions
  /\ gas \in U32s /\ heap_size \in [Heaps -> U32s]
  /\ pc \in 0..CodeLength /\ mode \in Modes
  /\ status \in {"running", "returned", "reverted", "panicked"}

\* Bytes of a page that the frame was given, or has paid for
Granted(page, from, to) ==
  \/ from = to
  \/ page = CalldataPage /\ CalldataStart <= from /\ to <= CalldataStart + CalldataLength
  \/ \E h \in Heaps : page = HeapPage(h) /\ to <= heap_size[h]
  \/ page = CalleePage /\ to <= CalleeSize
  \/ page = PinnedPage /\ to <= KernelStipend

GrantedPointer(p) ==
  /\ p.start + p.length <= U32_MAX
  /\ Granted(p.page, p.start, p.start + p.length)

\* A pointer in a register or on the stack never covers a byte that the frame
\* was not handed and has not paid for, whatever it computes with pointers: no
\* handler changes the page of a tagged word, moves its start down or its end
\* up.  (pointer.rs:74, heap_access.rs:209, far_call.rs:209, binop.rs:42)
PointersStayGranted ==
  /\ \A r \in Registers :
       registers[r].is_pointer => GrantedPointer(registers[r].word)
  /\ \A s \in Slots : stack[s].is_pointer => GrantedPointer(stack[s].word)

\* What an instruction reads or writes in memory, and what it returns, was
\* handed to the frame or paid for: no address wraps around the end of a heap.
\* (heap_access.rs:98-109 and :201, ret.rs:54)
AccessesArePaid == Granted(seen.page, seen.from, seen.to)

\* An ABI register that asks for a new pointer whose end overflows has cost
\* the whole heap, or all gas, though the call or return fails for another
\* reason too.  (far_call.rs:243-253, ret.rs:46-51)
OverflowIsCharged ==
  LET abi == seen.sent[1]
  IN seen.kind = "call" /\ ~Forwards(abi) /\ Overflows(abi) =>
       gas = 0 \/ heap_size[TargetHeap(abi)] = U32_MAX
=============================================================================
