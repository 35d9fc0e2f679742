-------------------------- MODULE InstructionsProofs --------------------------
(***************************************************************************)
(* Pointers stay granted, for every instruction set, program, calldata and *)
(* callee, and every width of the machine; and the numbers of pages show   *)
(* in nothing that a user's frame does.  For the latter, two frames whose  *)
(* pages are numbered differently stay twins: their registers and stacks   *)
(* hold equal words and pointers to the same bytes of the same page, and   *)
(* the rest of their states is equal.                                      *)
(***************************************************************************)
EXTENDS PageNames, TLAPS

\* Granted, and the pointers of a cell, with the paid sizes s in place of
\* heap_size: a step changes both cells and sizes.
GrantedBy(s, page, from, to) ==
  \/ from = to
  \/ page = CalldataPage /\ CalldataStart <= from /\ to <= CalldataStart + CalldataLength
  \/ \E h \in Heaps : page = HeapPage(h) /\ to <= s[h]
  \/ page = CalleePage /\ to <= CalleeSize
  \/ page = PinnedPage /\ to <= KernelStipend

Covered(s, p) ==
  /\ p.start + p.length <= U32_MAX
  /\ GrantedBy(s, p.page, p.start, p.start + p.length)

\* What may stand in a register or a stack slot
Good(s, c) == c \in Cell /\ (c.is_pointer => Covered(s, c.word))

\* The inductive invariant: the kernel's heaps have room for decommitted code.
IInv ==
  /\ TypeOK
  /\ \A r \in Registers : Good(heap_size, registers[r])
  /\ \A n \in Slots : Good(heap_size, stack[n])
  /\ mode.kernel => \A h \in Heaps : KernelStipend <= heap_size[h]

\* What holds of the last step alone
SeenGood == AccessesArePaid /\ OverflowIsCharged

\* Paid sizes only grow.
Grown(s, t) == t \in [Heaps -> U32s] /\ \A h \in Heaps : s[h] <= t[h]

-----------------------------------------------------------------------------
(* Constants and words *)

LEMMA Constants ==
  /\ U32_MAX \in Nat /\ U32_MAX >= 1
  /\ LastRegister \in Nat /\ LastRegister >= 1
  /\ U16 \in Nat /\ U16 >= 1 /\ U16 <= U32_MAX + 1
  /\ CodeLength \in Nat /\ CodeLength < U16
  /\ WORD \in Nat /\ WORD >= 1 /\ WORD <= U32_MAX
  /\ CalldataStart \in U32s /\ CalldataLength \in U32s
  /\ CalldataStart + CalldataLength <= U32_MAX
  /\ CalldataPage \in U32s
  /\ BasePage \in Nat /\ BasePage + 3 <= U32_MAX
  /\ CalleePage \in U32s /\ PinnedPage \in U32s
  /\ CalleeSize \in U32s /\ KernelStipend \in U32s /\ InitialGas \in U32s
  BY InstructionsAssumption DEF InstructionsAssumption, U32s, U32

LEMMA HeapPages == ASSUME NEW h PROVE HeapPage(h) \in U32s
  BY Constants DEF HeapPage, U32s

LEMMA Zeros ==
  /\ Zero \in Word /\ Empty \in Cell
  /\ \A n \in U32s : Small(n) \in Word
  /\ \A w \in Word : Plain(w) \in Cell /\ Tagged(w) \in Cell
  BY Constants DEF Zero, Small, Word, Empty, Plain, Tagged, Cell, U32s

LEMMA Words32 ==
  /\ \A n \in Slots : n \in U32s
  /\ \A x \in Int : x % U16 \in Slots /\ x % U32 \in U32s
  <1>1. \A n \in Slots : n \in U32s
    BY Constants DEF Slots, U32s
  <1>2. ASSUME NEW x \in Int, NEW m \in Nat, m >= 1 PROVE x % m \in 0..(m - 1)
    BY <1>2
  <1>3. ASSUME NEW x \in Int PROVE x % U16 \in Slots /\ x % U32 \in U32s
    <2>1. x % U16 \in Slots
      BY <1>2, Constants DEF Slots
    <2>2. x % U32 \in 0..(U32 - 1)
      BY <1>2, Constants DEF U32
    <2> QED
      BY <2>1, <2>2, Constants DEF U32, U32s
  <1> QED
    BY <1>1, <1>3

\* The fields of an instruction
LEMMA Fields ==
  ASSUME NEW i \in Instrs
  PROVE  /\ i.cost \in Nat /\ i.in2 \in Registers /\ i.dst1 \in Registers
         /\ i.imm \in Slots /\ i.op \in STRING
         /\ i.in1 \in [mode : SourceModes, reg : Registers, imm : Slots]
         /\ i.out \in [mode : DestinationModes, reg : Registers, imm : Slots]
         /\ i.op \in {"decommit", "precompile"} => i.kernel_only
  <1>1. i \in Instruction
    BY InstructionsAssumption DEF InstructionsAssumption
  <1>2. i.op \in {"decommit", "precompile"} => i.kernel_only
    BY InstructionsAssumption DEF InstructionsAssumption
  <1> QED
    BY <1>1, <1>2 DEF Instruction

LEMMA Inputs ==
  /\ Words \subseteq Word /\ Callees \subseteq Callee
  /\ CodePage \in [DOMAIN CodePage -> Word]
  /\ Modes \subseteq [kernel : BOOLEAN, static : BOOLEAN]
  /\ Stipends \subseteq U32s
  BY InstructionsAssumption DEF InstructionsAssumption

-----------------------------------------------------------------------------
(* Operands *)

\* Growing sizes take nothing away.
LEMMA GoodStaysGood ==
  ASSUME NEW s \in [Heaps -> U32s], NEW t, Grown(s, t), NEW c, Good(s, c)
  PROVE  Good(t, c)
  <1>1. c \in Cell
    BY DEF Good
  <1>2. CASE ~c.is_pointer
    BY <1>1, <1>2 DEF Good
  <1>3. CASE c.is_pointer
    <2> DEFINE p == c.word
    <2>1. p.start \in Int /\ p.length \in Int
      BY <1>1 DEF Cell, Word, U32s
    <2>2. p.start + p.length <= U32_MAX
          /\ GrantedBy(s, p.page, p.start, p.start + p.length)
      BY <1>3 DEF Good, Covered
    <2>3. ASSUME NEW h \in Heaps, p.start + p.length <= s[h]
          PROVE  p.start + p.length <= t[h]
      BY <2>1, <2>3 DEF Grown, U32s
    <2>4. GrantedBy(t, p.page, p.start, p.start + p.length)
      BY <2>2, <2>3 DEF GrantedBy
    <2> QED
      BY <1>1, <2>2, <2>4 DEF Good, Covered
  <1> QED
    BY <1>2, <1>3

LEMMA Harmless ==
  ASSUME NEW s
  PROVE  Good(s, Empty) /\ \A w \in Word : Good(s, Plain(w))
  BY Zeros DEF Good, Plain, Empty

LEMMA AddressType ==
  ASSUME TypeOK, NEW o, o.reg \in Registers, o.imm \in Slots
  PROVE  Address(o) \in Slots
  <1> DEFINE c == registers[o.reg]
  <1>1. c \in Cell
    BY DEF TypeOK
  <1>2. c.word.offset \in Int /\ o.imm \in Int
    BY <1>1, Constants DEF Cell, Word, U32s, Slots
  <1> QED
    BY <1>2, Words32 DEF Address

LEMMA SlotType ==
  ASSUME TypeOK, NEW o, o.reg \in Registers, o.imm \in Slots
  PROVE  Slot(o) \in Slots /\ SpAfterRead(o) \in Slots
  <1>1. Address(o) \in Slots /\ sp \in Slots
    BY AddressType DEF TypeOK
  <1>2. Address(o) \in Int /\ sp \in Int
    BY <1>1, Constants DEF Slots
  <1>3. (sp - Address(o)) % U16 \in Slots
    BY <1>2, Words32
  <1> QED
    BY <1>1, <1>3 DEF Slot, SpAfterRead

\* What is read is as good as what was written.
LEMMA ReadGood ==
  ASSUME IInv, NEW o \in [mode : SourceModes, reg : Registers, imm : Slots]
  PROVE  Good(heap_size, Read(o))
  <1>1. Slot(o) \in Slots /\ o.imm \in U32s
    BY SlotType, Words32 DEF IInv
  <1>2. CASE o.mode = "register"
    BY <1>2 DEF Read, IInv, StackModes
  <1>3. CASE o.mode = "immediate"
    BY <1>1, <1>3, Harmless, Zeros DEF Read, StackModes
  <1>4. CASE o.mode = "code"
    <2>1. CASE Address(o) \in DOMAIN CodePage
      BY <1>4, <2>1, Harmless, Inputs DEF Read, StackModes
    <2>2. CASE Address(o) \notin DOMAIN CodePage
      BY <1>4, <2>2, Harmless DEF Read, StackModes
    <2> QED
      BY <2>1, <2>2
  <1>5. CASE o.mode \in StackModes
    <2>1. Read(o) = stack[Slot(o)]
      BY <1>5 DEF Read, StackModes
    <2> QED
      BY <1>1, <2>1 DEF IInv
  <1> QED
    BY <1>2, <1>3, <1>4, <1>5 DEF SourceModes

\* Erasing gives a word.
LEMMA ErasedType ==
  ASSUME NEW c \in Cell
  PROVE  Erased(c) \in Word
  <1> DEFINE w == c.word
  <1>1. w \in Word /\ 0 \in U32s
    BY Constants DEF Cell, U32s
  <1>2. [w EXCEPT !.page = 0, !.start = 0] \in Word
    BY <1>1 DEF Word
  <1> QED
    BY <1>1, <1>2 DEF Erased

LEMMA GetType ==
  ASSUME IInv, NEW i \in Instrs
  PROVE  Get(i.in1) \in Word /\ GetRegister(i.in2) \in Word
  <1>1. Read(i.in1) \in Cell /\ registers[i.in2] \in Cell
    BY ReadGood, Fields DEF Good, IInv
  <1> QED
    BY <1>1, ErasedType DEF Get, GetRegister

\* Writing a good cell to a register keeps the registers good.
LEMMA WrittenGood ==
  ASSUME NEW rs \in [Registers -> Cell], rs[0] = Empty,
         NEW s, \A r \in Registers : Good(s, rs[r]),
         NEW n \in Registers, NEW c, Good(s, c)
  PROVE  /\ Written(rs, n, c) \in [Registers -> Cell]
         /\ Written(rs, n, c)[0] = Empty
         /\ \A r \in Registers : Good(s, Written(rs, n, c)[r])
  <1>1. c \in Cell /\ 0 \in Registers
    BY Constants DEF Good, Registers
  <1>2. CASE n = 0
    BY <1>2 DEF Written
  <1>3. CASE n # 0
    <2>1. Written(rs, n, c) = [rs EXCEPT ![n] = c]
      BY <1>3 DEF Written
    <2> QED
      BY <1>1, <1>3, <2>1
  <1> QED
    BY <1>2, <1>3

\* The outputs of an instruction are good if what it puts into them is.
OperandsGood(s) ==
  /\ registers' \in [Registers -> Cell] /\ registers'[0] = Empty
  /\ stack' \in [Slots -> Cell] /\ sp' \in Slots
  /\ \A r \in Registers : Good(s, registers'[r])
  /\ \A n \in Slots : Good(s, stack'[n])

LEMMA PutGood ==
  ASSUME IInv, NEW i \in Instrs,
         NEW out \in [mode : DestinationModes, reg : Registers, imm : Slots],
         NEW primary, NEW second, Put(i, out, primary, second),
         Good(heap_size, primary), Good(heap_size, second)
  PROVE  OperandsGood(heap_size)
  <1> DEFINE after == SpAfterRead(i.in1)
             slot == CASE out.mode = "absolute" -> Address(out)
                       [] out.mode = "relative" -> (after - Address(out)) % U16
                       [] OTHER                 -> after
             rs == IF out.mode = "register" THEN Written(registers, out.reg, primary)
                   ELSE registers
  <1>1. after \in Slots /\ Address(out) \in Slots
    BY SlotType, AddressType, Fields DEF IInv
  <1>2. after \in Int /\ Address(out) \in Int
    BY <1>1, Constants DEF Slots
  <1>3. (after - Address(out)) % U16 \in Slots /\ (after + Address(out)) % U16 \in Slots
    BY <1>2, Words32
  <1>4. slot \in Slots
    BY <1>1, <1>3
  <1>5. /\ registers' = Written(rs, i.dst1, second)
        /\ stack' = IF out.mode \in StackModes THEN [stack EXCEPT ![slot] = primary]
                    ELSE stack
        /\ sp' = IF out.mode = "advance" THEN (after + Address(out)) % U16 ELSE after
    BY DEF Put
  <1>6. sp' \in Slots
    BY <1>1, <1>3, <1>5
  <1>7. rs \in [Registers -> Cell] /\ rs[0] = Empty
        /\ \A r \in Registers : Good(heap_size, rs[r])
    BY WrittenGood DEF IInv, TypeOK
  <1>8. /\ registers' \in [Registers -> Cell] /\ registers'[0] = Empty
        /\ \A r \in Registers : Good(heap_size, registers'[r])
    <2> HIDE DEF rs
    <2> QED
      BY <1>5, <1>7, WrittenGood, Fields
  <1>9. stack' \in [Slots -> Cell] /\ \A n \in Slots : Good(heap_size, stack'[n])
    <2>1. stack \in [Slots -> Cell] /\ \A n \in Slots : Good(heap_size, stack[n])
      BY DEF IInv, TypeOK
    <2>2. primary \in Cell
      BY DEF Good
    <2> HIDE DEF slot
    <2>3. CASE out.mode \in StackModes
      BY <1>4, <1>5, <2>1, <2>2, <2>3
    <2>4. CASE out.mode \notin StackModes
      BY <1>5, <2>1, <2>4
    <2> QED
      BY <2>3, <2>4
  <1> QED
    BY <1>6, <1>8, <1>9 DEF OperandsGood

\* What is left to show of a step, operands apart
LEMMA StepGood ==
  ASSUME IInv, Grown(heap_size, heap_size'),
         OperandsGood(heap_size) \/ OperandsGood(heap_size'),
         gas' \in U32s, pc' \in 0..CodeLength, flags' \subseteq Conditions,
         mode' = mode, status' \in {"running", "returned", "reverted", "panicked"}
  PROVE  IInv'
  <1>1. heap_size \in [Heaps -> U32s] /\ heap_size' \in [Heaps -> U32s]
    BY DEF IInv, TypeOK, Grown
  <1>2. OperandsGood(heap_size')
    BY <1>1, GoodStaysGood DEF OperandsGood
  <1>3. TypeOK'
    BY <1>1, <1>2 DEF TypeOK, OperandsGood, IInv
  <1>4. ASSUME mode'.kernel, NEW h \in Heaps
        PROVE  KernelStipend <= heap_size'[h]
    <2>1. KernelStipend <= heap_size[h] /\ heap_size[h] <= heap_size'[h]
      BY <1>4 DEF IInv, Grown
    <2> QED
      BY <1>1, <2>1, Constants DEF U32s
  <1> QED
    BY <1>2, <1>3, <1>4 DEF IInv, OperandsGood

LEMMA NotGrowing ==
  ASSUME IInv
  PROVE  Grown(heap_size, heap_size)
  <1>1. heap_size \in [Heaps -> U32s]
    BY DEF IInv, TypeOK
  <1> QED
    BY <1>1, Constants DEF Grown, U32s

LEMMA OperandsKept ==
  ASSUME IInv, UNCHANGED operands
  PROVE  OperandsGood(heap_size)
  BY DEF IInv, TypeOK, OperandsGood, operands

\* The gas and the program counter of a step that executes an instruction
LEMMA Running ==
  ASSUME IInv, NEW i \in Instrs, AtCode, Pays(i)
  PROVE  /\ Paid(i) \in U32s /\ pc \in 0..CodeLength /\ pc + 1 \in 0..CodeLength
         /\ status = "running" /\ gas \in U32s
         /\ \A n \in Nat : Burn(Paid(i), n) \in U32s /\ Burn(gas, n) \in U32s
  BY Fields, Constants DEF IInv, TypeOK, AtCode, Pays, Paid, Burn, U32s

\* Steps that access no memory and make no call
LEMMA NothingSeen ==
  /\ seen' = Nothing => SeenGood'
  /\ \A words : seen' = Sent(words) => SeenGood'
  BY DEF Nothing, Sent, Seen, SeenGood, AccessesArePaid, Granted, OverflowIsCharged

\* An access below the paid size of a heap
LEMMA HeapAccess ==
  ASSUME NEW h \in Heaps, NEW from, NEW to, NEW words,
         seen' = Accessed(HeapPage(h), from, to, words), to <= heap_size'[h]
  PROVE  SeenGood'
  BY DEF Accessed, Seen, SeenGood, AccessesArePaid, Granted, OverflowIsCharged, HeapPage

LEMMA PanicsGood ==
  ASSUME IInv, NEW g \in U32s, Panics(g)
  PROVE  IInv' /\ SeenGood'
  <1>1. OperandsGood(heap_size) /\ Grown(heap_size, heap_size')
    BY OperandsKept, NotGrowing DEF Panics
  <1> QED
    BY <1>1, StepGood, NothingSeen DEF Panics, IInv, TypeOK

\* A step that goes on with the next instruction
LEMMA ContinuesGood ==
  ASSUME IInv, NEW i \in Instrs, AtCode, Pays(i),
         NEW g \in U32s, Continues(g), Grown(heap_size, heap_size'),
         OperandsGood(heap_size), flags' \subseteq Conditions
  PROVE  IInv'
  <1>1. /\ gas' \in U32s /\ pc' \in 0..CodeLength /\ mode' = mode
        /\ status' = "running"
    BY Running DEF Continues
  <1> QED
    BY <1>1, StepGood

-----------------------------------------------------------------------------
(* Arithmetic *)

LEMMA FromNatType ==
  ASSUME NEW n \in Nat
  PROVE  FromNat(n) \in Word
  <1>1. U32 \in Nat /\ U32 >= 1
    BY Constants DEF U32
  <1>2. ASSUME NEW a \in Nat, a >= 1, NEW b \in Nat, b >= 1
        PROVE  a * b \in Nat /\ a * b >= 1
    BY <1>2
  <1>3. ASSUME NEW d \in Nat, d >= 1 PROVE n \div d \in Int
    BY <1>3
  <1>4. /\ U32 * U32 \in Nat /\ U32 * U32 >= 1
        /\ U32 * U32 * U32 \in Nat /\ U32 * U32 * U32 >= 1
        /\ U32 * U32 * U32 * U32 \in Nat /\ U32 * U32 * U32 * U32 >= 1
    <2>1. U32 * U32 \in Nat /\ U32 * U32 >= 1
      BY <1>1, <1>2
    <2>2. U32 * U32 * U32 \in Nat /\ U32 * U32 * U32 >= 1
      BY <1>1, <1>2, <2>1
    <2>3. U32 * U32 * U32 * U32 \in Nat /\ U32 * U32 * U32 * U32 >= 1
      BY <1>1, <1>2, <2>2
    <2> QED
      BY <2>1, <2>2, <2>3
  <1>5. /\ n \in Int /\ n \div U32 \in Int /\ n \div (U32 * U32) \in Int
        /\ n \div (U32 * U32 * U32) \in Int
        /\ n \div (U32 * U32 * U32 * U32) \in Int
    BY <1>1, <1>3, <1>4
  <1>6. /\ n % U32 \in U32s /\ (n \div U32) % U32 \in U32s
        /\ (n \div (U32 * U32)) % U32 \in U32s
        /\ (n \div (U32 * U32 * U32)) % U32 \in U32s
        /\ (n \div (U32 * U32 * U32 * U32)) % U32 \in U32s
    BY <1>5, Words32
  <1> QED
    BY <1>6 DEF FromNat, Word

LEMMA ValueType ==
  ASSUME NEW w \in Word
  PROVE  Value(w) \in Nat
  <1>1. /\ w.offset \in Nat /\ w.page \in Nat /\ w.start \in Nat
        /\ w.length \in Nat /\ w.high \in Nat /\ U32 \in Nat
    BY Constants DEF Word, U32s, U32
  <1>2. ASSUME NEW a \in Nat, NEW b \in Nat PROVE a + U32 * b \in Nat
    BY <1>1, <1>2
  <1>3. w.length + U32 * w.high \in Nat
    BY <1>1, <1>2
  <1>4. w.start + U32 * (w.length + U32 * w.high) \in Nat
    BY <1>1, <1>2, <1>3
  <1>5. w.page + U32 * (w.start + U32 * (w.length + U32 * w.high)) \in Nat
    BY <1>1, <1>2, <1>4
  <1> QED
    BY <1>1, <1>2, <1>5 DEF Value

LEMMA U256Type == U256 \in Nat /\ U256 >= 1
  <1>1. U32 \in Nat /\ U32 >= 1
    BY Constants DEF U32
  <1>2. ASSUME NEW a \in Nat, a >= 1, NEW b \in Nat, b >= 1
        PROVE  a * b \in Nat /\ a * b >= 1
    BY <1>2
  <1>3. U32 * U32 \in Nat /\ U32 * U32 >= 1
    BY <1>1, <1>2
  <1>4. U32 * U32 * U32 \in Nat /\ U32 * U32 * U32 >= 1
    BY <1>1, <1>2, <1>3
  <1>5. U32 * U32 * U32 * U32 \in Nat /\ U32 * U32 * U32 * U32 >= 1
    BY <1>1, <1>2, <1>4
  <1> QED
    BY <1>1, <1>2, <1>5 DEF U256

\* Any set of bits makes a word.
LEMMA FromBitsType ==
  ASSUME NEW B
  PROVE  FromBits(B) \in Word
  <1>1. ASSUME NEW k PROVE LimbAt(B, k) \in U32s
    <2> DEFINE bits == {b \in Bits : k * LimbBits + b \in B}
    <2>1. bits \in SUBSET Bits
      OBVIOUS
    <2>2. \E x \in U32s : BitsOf[x] = bits
      BY <2>1, InstructionsAssumption DEF InstructionsAssumption
    <2> QED
      BY <2>2 DEF LimbAt
  <1> QED
    BY <1>1 DEF FromBits, Word

\* Whatever is computed, the results are words and the flags are flags.
LEMMA PerformType ==
  ASSUME NEW op \in BinopOps, NEW a \in Word, NEW b \in Word
  PROVE  /\ Perform(op, a, b).word \in Word /\ Perform(op, a, b).second \in Word
         /\ Perform(op, a, b).flags \subseteq Conditions
  <1> DEFINE x == Value(a)
             y == Value(b)
             ok(r) == r.word \in Word /\ r.second \in Word /\ r.flags \subseteq Conditions
  <1>1. x \in Nat /\ y \in Nat /\ x * y \in Nat
    BY ValueType
  <1>2. ASSUME NEW w \in Word PROVE ok(Logical(w))
    BY Zeros DEF Logical, Result, Flags
  <1>3. ASSUME NEW w \in Word, NEW overflow PROVE ok(Carrying(w, overflow))
    BY Zeros DEF Carrying, Result, Flags
  <1>4. ASSUME NEW B PROVE ok(Logical(FromBits(B)))
    BY <1>2, FromBitsType
  <1>5. ASSUME NEW n \in Int PROVE n % U256 \in Nat
    BY U256Type
  <1>6. x + y \in Int /\ x - y \in Int
    BY <1>1
  <1>7. FromNat((x + y) % U256) \in Word /\ FromNat((x - y) % U256) \in Word
    <2> HIDE DEF x, y
    <2> QED
      BY <1>5, <1>6, FromNatType
  <1>8. FromNat((x * y) % U256) \in Word /\ FromNat((x * y) \div U256) \in Word
    <2> HIDE DEF x, y
    <2>1. (x * y) \div U256 \in Nat
      BY <1>1, U256Type
    <2> QED
      BY <1>1, <1>5, <2>1, FromNatType
  <1>9. CASE op \in {"add", "sub"}
    BY <1>3, <1>7, <1>9 DEF Perform
  <1>10. CASE op \in {"and", "or", "xor", "shl", "shr", "rol", "ror"}
    BY <1>4, <1>10 DEF Perform
  <1>11. CASE op = "mul"
    BY <1>8, <1>11 DEF Perform, Result, Flags
  <1>12. CASE op = "div"
    <2>1. CASE y = 0
      BY <1>12, <2>1, Zeros DEF Perform, Result, Conditions
    <2>2. CASE y # 0
      <3>1. x \div y \in Nat /\ x % y \in Nat
        <4> HIDE DEF x, y
        <4> QED
          BY <1>1, <2>2
      <3>2. FromNat(x \div y) \in Word /\ FromNat(x % y) \in Word
        BY <3>1, FromNatType
      <3> QED
        BY <1>12, <2>2, <3>2 DEF Perform, Result, Flags
    <2> QED
      BY <2>1, <2>2
  <1> QED
    BY <1>9, <1>10, <1>11, <1>12 DEF BinopOps

LEMMA BinopGood ==
  ASSUME IInv, NEW i \in Instrs, Binop(i)
  PROVE  IInv' /\ SeenGood'
  <1> DEFINE a == Get(i.in1)
             b == GetRegister(i.in2)
             r == IF i.swap THEN Perform(i.op, b, a) ELSE Perform(i.op, a, b)
  <1>1. Runs(i, BinopOps) /\ Put(i, i.out, Plain(r.word), Plain(r.second))
        /\ flags' = (IF i.set_flags THEN r.flags ELSE flags)
        /\ Continues(Paid(i)) /\ seen' = Nothing /\ UNCHANGED heap_size
    BY DEF Binop
  <1>2. r.word \in Word /\ r.second \in Word /\ r.flags \subseteq Conditions
    BY <1>1, GetType, PerformType DEF Runs
  <1>3. AtCode /\ Pays(i)
    BY <1>1 DEF Runs
  <1> HIDE DEF r
  <1>4. OperandsGood(heap_size)
    BY <1>1, <1>2, PutGood, Harmless, Fields
  <1>5. flags' \subseteq Conditions
    BY <1>1, <1>2 DEF IInv, TypeOK
  <1>6. Paid(i) \in U32s /\ Grown(heap_size, heap_size')
    BY <1>1, <1>3, Running, NotGrowing
  <1> QED
    BY <1>1, <1>3, <1>4, <1>5, <1>6, ContinuesGood, NothingSeen

-----------------------------------------------------------------------------
(* Pointers *)

\* A pointer with another offset, or less length, is granted what it was.
LEMMA NarrowerCovered ==
  ASSUME NEW s \in [Heaps -> U32s], NEW p \in Word, Covered(s, p), NEW q \in Word,
         \/ q.page = p.page
         \/ p.length = 0 /\ q.page \in U32s,
         q.start >= p.start, q.start + q.length <= p.start + p.length
  PROVE  Covered(s, q)
  <1>1. /\ p.start \in Nat /\ p.length \in Nat /\ q.start \in Nat /\ q.length \in Nat
        /\ U32_MAX \in Nat
    BY Constants DEF Word, U32s
  <1>2. q.start + q.length <= U32_MAX
    BY <1>1 DEF Covered
  <1>3. CASE q.length = 0
    BY <1>1, <1>2, <1>3 DEF Covered, GrantedBy
  <1>4. CASE q.length # 0
    <2>1. q.page = p.page /\ p.start # p.start + p.length
      BY <1>1, <1>4
    <2>2. \A h \in Heaps : s[h] \in Nat
      BY <1>1 DEF U32s
    <2>3. GrantedBy(s, q.page, q.start, q.start + q.length)
      BY <1>1, <2>1, <2>2, Constants DEF Covered, GrantedBy, U32s
    <2> QED
      BY <1>2, <2>3 DEF Covered
  <1> QED
    BY <1>3, <1>4

\* No pointer instruction takes more than it was given.
LEMMA PerformPtrCovered ==
  ASSUME NEW s \in [Heaps -> U32s], NEW op \in PtrOps,
         NEW p \in Word, Covered(s, p), NEW b \in Word, NEW w \in PerformPtr(op, p, b)
  PROVE  w \in Word /\ Covered(s, w)
  <1> DEFINE within(q) == /\ q \in Word /\ q.page = p.page /\ q.start = p.start
                          /\ q.length <= p.length
  <1>1. within(w)
    <2>1. p.length \in Nat /\ p.offset \in Nat /\ b.offset \in Nat
      BY Constants DEF Word, U32s
    <2>2. ASSUME NEW n \in U32s PROVE within([p EXCEPT !.offset = n])
      BY <2>1 DEF Word
    <2>3. ASSUME NEW n \in U32s PROVE within([p EXCEPT !.high = n])
      BY <2>1 DEF Word
    <2>4. ASSUME NEW n \in U32s, n <= p.length PROVE within([p EXCEPT !.length = n])
      BY <2>4 DEF Word
    <2>5. CASE op \in {"ptr.add", "ptr.sub"}
      <3>1. PICK n \in U32s : w = [p EXCEPT !.offset = n]
        BY <2>5 DEF PerformPtr
      <3> QED
        BY <2>2, <3>1
    <2>6. CASE op = "ptr.pack"
      <3>1. w = [p EXCEPT !.high = b.high] /\ b.high \in U32s
        BY <2>6 DEF PerformPtr, Word
      <3> QED
        BY <2>3, <3>1
    <2>7. CASE op = "ptr.shrink"
      <3>1. PICK n \in {p.length - b.offset} \cap U32s : w = [p EXCEPT !.length = n]
        BY <2>7 DEF PerformPtr
      <3>2. n \in U32s /\ n <= p.length
        BY <2>1
      <3> QED
        BY <2>4, <3>1, <3>2
    <2> QED
      BY <2>5, <2>6, <2>7 DEF PtrOps
  <1>2. /\ w.start \in Nat /\ w.length \in Nat /\ p.start \in Nat /\ p.length \in Nat
        /\ w.start = p.start /\ w.length <= p.length
    BY <1>1, Constants DEF Word, U32s
  <1>3. w.start >= p.start /\ w.start + w.length <= p.start + p.length
    BY <1>2
  <1> QED
    BY <1>1, <1>3, NarrowerCovered

LEMMA PtrOpGood ==
  ASSUME IInv, NEW i \in Instrs, PtrOp(i)
  PROVE  IInv' /\ SeenGood'
  <1> DEFINE a == IF i.swap THEN registers[i.in2] ELSE Read(i.in1)
             b == IF i.swap THEN Read(i.in1) ELSE registers[i.in2]
             results == IF a.is_pointer /\ ~(b.is_pointer /\ mode.kernel)
                        THEN PerformPtr(i.op, a.word, Erased(b)) ELSE {}
  <1>1. Good(heap_size, a) /\ Good(heap_size, b)
    BY ReadGood, Fields DEF IInv
  <1>2. a.word \in Word /\ Erased(b) \in Word
    BY <1>1, ErasedType DEF Good, Cell
  <1>3. AtCode /\ Pays(i) /\ i.op \in PtrOps
    BY DEF PtrOp, Runs
  <1>4. Paid(i) \in U32s
    BY <1>3, Running
  <1>5. ASSUME Panics(Paid(i)) PROVE IInv' /\ SeenGood'
    BY <1>4, <1>5, PanicsGood
  <1>6. ASSUME NEW w \in results,
               Put(i, i.out, Tagged(w), Empty), Continues(Paid(i)),
               seen' = Nothing, UNCHANGED << flags, heap_size >>
        PROVE  IInv' /\ SeenGood'
    <2>1. a.is_pointer /\ w \in PerformPtr(i.op, a.word, Erased(b))
      OBVIOUS
    <2>2. Covered(heap_size, a.word) /\ heap_size \in [Heaps -> U32s]
      BY <1>1, <2>1 DEF Good, IInv, TypeOK
    <2>3. w \in Word /\ Covered(heap_size, w)
      <3> HIDE DEF a, b
      <3> QED
        BY <1>2, <1>3, <2>1, <2>2, PerformPtrCovered
    <2>4. Good(heap_size, Tagged(w))
      BY <2>3, Zeros DEF Good, Tagged
    <2>5. OperandsGood(heap_size)
      BY <1>6, <2>4, PutGood, Harmless, Fields
    <2>6. Grown(heap_size, heap_size') /\ flags' \subseteq Conditions
      BY <1>6, NotGrowing DEF IInv, TypeOK
    <2> QED
      BY <1>3, <1>4, <1>6, <2>5, <2>6, ContinuesGood, NothingSeen
  <1>7. \/ Panics(Paid(i))
        \/ \E w \in results :
             /\ Put(i, i.out, Tagged(w), Empty)
             /\ Continues(Paid(i)) /\ seen' = Nothing
             /\ UNCHANGED << flags, heap_size >>
    BY DEF PtrOp
  <1> HIDE DEF results
  <1> QED
    BY <1>5, <1>6, <1>7

-----------------------------------------------------------------------------
(* Memory *)

\* Paying for memory: the sizes grow, and to the bound if that is paid.
LEMMA GrowGood ==
  ASSUME IInv, NEW h \in Heaps, NEW bound \in U32s, NEW g \in U32s
  PROVE  /\ Grow(h, bound, g).gas \in U32s
         /\ Grown(heap_size, Grow(h, bound, g).sizes)
         /\ Grow(h, bound, g).ok => bound <= Grow(h, bound, g).sizes[h]
         /\ ~Grow(h, bound, g).ok => Grow(h, bound, g).gas = 0
  <1> DEFINE to_pay == bound - heap_size[h]
  <1>1. heap_size \in [Heaps -> U32s] /\ Grown(heap_size, heap_size)
    BY NotGrowing DEF IInv, TypeOK
  <1>2. to_pay \in Int /\ bound \in Nat /\ heap_size[h] \in Nat /\ g \in Nat
    BY <1>1, Constants DEF U32s
  <1>3. CASE to_pay < 0
    BY <1>1, <1>2, <1>3 DEF Grow
  <1>4. CASE ~(to_pay < 0) /\ g >= to_pay
    <2>1. Grow(h, bound, g) = [ok |-> TRUE, gas |-> g - to_pay,
                               sizes |-> [heap_size EXCEPT ![h] = bound]]
      BY <1>4 DEF Grow, Burn
    <2>2. g - to_pay \in U32s /\ heap_size[h] <= bound
      BY <1>2, <1>4, Constants DEF U32s
    <2>3. Grown(heap_size, [heap_size EXCEPT ![h] = bound])
      BY <1>1, <2>2 DEF Grown
    <2> QED
      BY <1>1, <1>2, <2>1, <2>2, <2>3
  <1>5. CASE ~(to_pay < 0) /\ ~(g >= to_pay)
    <2>1. /\ ~Grow(h, bound, g).ok
          /\ Grow(h, bound, g).gas = 0 /\ Grow(h, bound, g).sizes = heap_size
      BY <1>5 DEF Grow, Burn
    <2> QED
      BY <1>1, <2>1, Constants DEF U32s
  <1> QED
    BY <1>3, <1>4, <1>5

\* From an address that is not too large a word can be added to.
LEMMA IncrementedGood ==
  ASSUME NEW s \in [Heaps -> U32s], NEW c, Good(s, c)
  PROVE  /\ Incremented(c.word) \in Word
         /\ c.word.offset <= LastAddress /\ c.is_pointer =>
              Covered(s, Incremented(c.word))
  <1> DEFINE w == c.word
             sum == w.offset + WORD
             carry == IF sum > U32_MAX THEN 1 ELSE 0
  <1>1. w \in Word
    BY DEF Good, Cell
  <1>2. /\ w.offset \in Nat /\ w.page \in Nat /\ w.page <= U32_MAX /\ sum \in Int
        /\ carry \in Int
    BY <1>1, Constants DEF Word, U32s
  <1>3. sum % U32 \in U32s /\ (w.page + carry) % U32 \in U32s
    BY <1>2, Words32
  <1>4. Incremented(w) = [w EXCEPT !.offset = sum % U32, !.page = (w.page + carry) % U32]
    BY <1>1 DEF Incremented, Word
  <1>5. Incremented(w) \in Word
    BY <1>1, <1>3, <1>4 DEF Word
  <1>6. ASSUME w.offset <= LastAddress, c.is_pointer
        PROVE  Covered(s, Incremented(w))
    <2>1. carry = 0
      BY <1>2, <1>6, Constants DEF LastAddress
    <2>2. (w.page + carry) % U32 = w.page
      BY <1>2, <2>1, Constants DEF U32
    <2>3. /\ Incremented(w).page = w.page /\ Incremented(w).start = w.start
          /\ Incremented(w).length = w.length
      BY <1>1, <1>4, <2>2 DEF Word
    <2> QED
      BY <1>6, <2>3 DEF Good, Covered
  <1> QED
    BY <1>5, <1>6

\* A memory instruction that panics, or that leaves good cells and more memory.
LEMMA PaidGood ==
  ASSUME IInv, NEW i \in Instrs, AtCode, Pays(i),
         NEW h \in Heaps, NEW bound \in U32s, Grow(h, bound, Paid(i)).ok,
         NEW out \in [mode : DestinationModes, reg : Registers, imm : Slots],
         NEW primary, NEW second, Put(i, out, primary, second),
         Good(heap_size, primary), Good(heap_size, second),
         Continues(Grow(h, bound, Paid(i)).gas),
         heap_size' = Grow(h, bound, Paid(i)).sizes, UNCHANGED flags
  PROVE  IInv' /\ bound <= heap_size'[h]
  <1>1. Paid(i) \in U32s
    BY Running
  <1>2. /\ Grow(h, bound, Paid(i)).gas \in U32s /\ Grown(heap_size, heap_size')
        /\ bound <= heap_size'[h]
    BY <1>1, GrowGood
  <1>3. OperandsGood(heap_size) /\ flags' \subseteq Conditions
    BY PutGood DEF IInv, TypeOK
  <1> QED
    BY <1>2, <1>3, ContinuesGood

\* An instruction that pays nothing more
LEMMA PlainGood ==
  ASSUME IInv, NEW i \in Instrs, AtCode, Pays(i), NEW g \in U32s,
         NEW out \in [mode : DestinationModes, reg : Registers, imm : Slots],
         NEW primary, NEW second, Put(i, out, primary, second),
         Good(heap_size, primary), Good(heap_size, second),
         Continues(g), UNCHANGED << flags, heap_size >>
  PROVE  IInv'
  <1>1. Grown(heap_size, heap_size') /\ flags' \subseteq Conditions
    BY NotGrowing DEF IInv, TypeOK
  <1> QED
    BY <1>1, PutGood, ContinuesGood

\* The bound of an access is an address.
LEMMA AccessBound ==
  ASSUME NEW w \in Word, ~TooBig(w)
  PROVE  /\ w.offset + WORD \in U32s /\ (w.offset + WORD) % U32 = w.offset + WORD
         /\ w.offset <= LastAddress
  <1>1. w.offset \in Nat /\ w.offset <= U32_MAX - WORD
    BY Constants DEF TooBig, LastAddress, Word, U32s
  <1>2. w.offset + WORD \in Nat /\ w.offset + WORD <= U32_MAX
    BY <1>1, Constants
  <1> QED
    BY <1>1, <1>2, Constants DEF U32s, U32, LastAddress

LEMMA HeapOfType == ASSUME NEW op PROVE HeapOf(op) \in Heaps
  BY DEF HeapOf, Heaps

\* What a load leaves when it increments is a pointer only if it was one.
LEMMA IncrementedOutputGood ==
  ASSUME IInv, NEW i \in Instrs, NEW c, Good(heap_size, c), c.word.offset <= LastAddress
  PROVE  Good(heap_size, IncrementedOutput(i, c))
  <1>1. heap_size \in [Heaps -> U32s] /\ c \in Cell
    BY DEF IInv, TypeOK, Good
  <1>2. Incremented(c.word) \in Word /\ (c.is_pointer => Covered(heap_size, Incremented(c.word)))
    BY <1>1, IncrementedGood
  <1>3. Good(heap_size, [word |-> Incremented(c.word), is_pointer |-> c.is_pointer])
    BY <1>1, <1>2 DEF Good, Cell
  <1> QED
    BY <1>3, Harmless DEF IncrementedOutput

LEMMA LoadGood ==
  ASSUME IInv, NEW i \in Instrs, NEW w \in Words, Load(i, w)
  PROVE  IInv' /\ SeenGood'
  <1> DEFINE c == Read(i.in1)
             from == c.word.offset
             to == (from + WORD) % U32
             h == HeapOf(i.op)
             grown == Grow(h, to, Paid(i))
             next == IncrementedOutput(i, c)
  <1>1. Good(heap_size, c) /\ c.word \in Word /\ w \in Word
    BY ReadGood, Fields, Inputs DEF Good, Cell
  <1>2. AtCode /\ Pays(i) /\ h \in Heaps
    BY HeapOfType DEF Load, Runs
  <1>3. Paid(i) \in U32s /\ Burn(Paid(i), U32_MAX) \in U32s
    BY <1>2, Running, Constants
  <1>4. to \in U32s
    BY <1>1, Words32, Constants DEF Word, U32s
  <1>5. ~TooBig(c.word) => Good(heap_size, next) /\ from + WORD = to
    <2>1. ~TooBig(c.word) => from <= LastAddress /\ from + WORD = to
      BY <1>1, AccessBound
    <2> QED
      BY <1>1, <2>1, IncrementedOutputGood
  <1>6. grown.gas \in U32s
    BY <1>2, <1>3, <1>4, GrowGood
  <1>7. \/ Panics(Burn(Paid(i), U32_MAX))
        \/ Panics(grown.gas)
        \/ /\ ~TooBig(c.word) /\ grown.ok
           /\ Put(i, i.out, Plain(w), next)
           /\ Continues(grown.gas) /\ heap_size' = grown.sizes
           /\ seen' = Accessed(HeapPage(h), from, from + WORD, << >>)
           /\ UNCHANGED flags
    BY DEF Load
  <1>8. Good(heap_size, Plain(w)) /\ i.out \in [mode : DestinationModes, reg : Registers, imm : Slots]
    BY <1>1, Harmless, Fields
  <1>9. CASE Panics(Burn(Paid(i), U32_MAX)) \/ Panics(grown.gas)
    BY <1>3, <1>6, <1>9, PanicsGood
  <1>10. CASE /\ ~TooBig(c.word) /\ grown.ok
              /\ Put(i, i.out, Plain(w), next)
              /\ Continues(grown.gas) /\ heap_size' = grown.sizes
              /\ seen' = Accessed(HeapPage(h), from, from + WORD, << >>)
              /\ UNCHANGED flags
    <2> HIDE DEF c, from, next, h
    <2>1. IInv' /\ to <= heap_size'[h]
      <3> HIDE DEF to
      <3> QED
        BY <1>2, <1>4, <1>5, <1>8, <1>10, PaidGood
    <2>2. SeenGood'
      BY <1>2, <1>5, <1>10, <2>1, HeapAccess
    <2> QED
      BY <2>1, <2>2
  <1> QED
    BY <1>7, <1>9, <1>10

LEMMA LoadStaticGood ==
  ASSUME IInv, NEW i \in Instrs, NEW w \in Words, LoadStatic(i, w)
  PROVE  IInv' /\ SeenGood'
  <1> DEFINE c == Read(i.in1)
             next == IncrementedOutput(i, c)
  <1>1. Good(heap_size, c) /\ c.word \in Word /\ w \in Word
    BY ReadGood, Fields, Inputs DEF Good, Cell
  <1>2. AtCode /\ Pays(i) /\ Paid(i) \in U32s
    BY Running DEF LoadStatic, Runs
  <1>3. CASE Panics(Paid(i))
    BY <1>2, <1>3, PanicsGood
  <1>4. CASE /\ ~TooBig(c.word)
             /\ Put(i, i.out, Plain(w), next)
             /\ Continues(Paid(i)) /\ seen' = Nothing
             /\ UNCHANGED << flags, heap_size >>
    <2>1. Good(heap_size, next)
      BY <1>1, <1>4, AccessBound, IncrementedOutputGood
    <2>2. Good(heap_size, Plain(w)) /\ i.out \in [mode : DestinationModes, reg : Registers, imm : Slots]
      BY <1>1, Harmless, Fields
    <2> HIDE DEF next
    <2>3. IInv'
      BY <1>2, <1>4, <2>1, <2>2, PlainGood
    <2> QED
      BY <1>4, <2>3, NothingSeen
  <1> QED
    BY <1>3, <1>4 DEF LoadStatic

LEMMA StoreGood ==
  ASSUME IInv, NEW i \in Instrs, Store(i)
  PROVE  IInv' /\ SeenGood'
  <1> DEFINE c == Read(i.in1)
             from == c.word.offset
             to == (from + WORD) % U32
             h == HeapOf(i.op)
             grown == Grow(h, to, Paid(i))
             out == IF i.increment THEN i.out ELSE NoOutput
             primary == Plain(Incremented(c.word))
             value == << GetRegister(i.in2) >>
  <1>1. Good(heap_size, c) /\ c.word \in Word /\ heap_size \in [Heaps -> U32s]
    BY ReadGood, Fields DEF Good, Cell, IInv, TypeOK
  <1>2. AtCode /\ Pays(i) /\ h \in Heaps
    BY HeapOfType DEF Store, Runs
  <1>3. Paid(i) \in U32s /\ Burn(Paid(i), U32_MAX) \in U32s
    BY <1>2, Running, Constants
  <1>4. to \in U32s
    BY <1>1, Words32, Constants DEF Word, U32s
  <1>5. ~TooBig(c.word) => from + WORD = to
    BY <1>1, AccessBound
  <1>6. Good(heap_size, primary) /\ Good(heap_size, Empty)
    <2>1. Incremented(c.word) \in Word
      BY <1>1, IncrementedGood
    <2> QED
      BY <2>1, Harmless
  <1>7. out \in [mode : DestinationModes, reg : Registers, imm : Slots]
    BY Fields, Constants DEF NoOutput, DestinationModes, Registers, Slots
  <1>8. grown.gas \in U32s
    BY <1>2, <1>3, <1>4, GrowGood
  <1>9. \/ Panics(Burn(Paid(i), U32_MAX))
        \/ Panics(grown.gas)
        \/ /\ ~TooBig(c.word) /\ grown.ok
           /\ Put(i, out, primary, Empty)
           /\ Continues(grown.gas) /\ heap_size' = grown.sizes
           /\ seen' = Accessed(HeapPage(h), from, from + WORD, value)
           /\ UNCHANGED flags
    BY DEF Store
  <1>10. CASE Panics(Burn(Paid(i), U32_MAX)) \/ Panics(grown.gas)
    BY <1>3, <1>8, <1>10, PanicsGood
  <1> HIDE DEF primary, value, out, h
  <1>11. CASE /\ ~TooBig(c.word) /\ grown.ok
              /\ Put(i, out, primary, Empty)
              /\ Continues(grown.gas) /\ heap_size' = grown.sizes
              /\ seen' = Accessed(HeapPage(h), from, from + WORD, value)
              /\ UNCHANGED flags
    <2> HIDE DEF c, from
    <2>1. IInv' /\ to <= heap_size'[h]
      <3> HIDE DEF to
      <3> QED
        BY <1>2, <1>4, <1>6, <1>7, <1>11, PaidGood
    <2> QED
      BY <1>2, <1>5, <1>11, <2>1, HeapAccess
  <1> QED
    BY <1>9, <1>10, <1>11

LEMMA StoreStaticGood ==
  ASSUME IInv, NEW i \in Instrs, StoreStatic(i)
  PROVE  IInv' /\ SeenGood'
  <1> DEFINE c == Read(i.in1)
             out == IF i.increment THEN i.out ELSE NoOutput
             primary == Plain(Incremented(c.word))
  <1>1. Good(heap_size, c) /\ heap_size \in [Heaps -> U32s]
    BY ReadGood, Fields DEF IInv, TypeOK
  <1>2. AtCode /\ Pays(i) /\ Paid(i) \in U32s
    BY Running DEF StoreStatic, Runs
  <1>3. Good(heap_size, primary) /\ Good(heap_size, Empty)
    <2>1. Incremented(c.word) \in Word
      BY <1>1, IncrementedGood
    <2> QED
      BY <2>1, Harmless
  <1>4. out \in [mode : DestinationModes, reg : Registers, imm : Slots]
    BY Fields, Constants DEF NoOutput, DestinationModes, Registers, Slots
  <1>5. \/ Panics(Paid(i))
        \/ /\ Put(i, out, primary, Empty)
           /\ Continues(Paid(i)) /\ \E words : seen' = Sent(words)
           /\ UNCHANGED << flags, heap_size >>
    BY DEF StoreStatic
  <1> HIDE DEF primary, out
  <1> QED
    BY <1>2, <1>3, <1>4, <1>5, PanicsGood, PlainGood, NothingSeen

\* A part of what a pointer covers is granted.
LEMMA PartGranted ==
  ASSUME IInv, NEW p \in Word, Covered(heap_size, p), NEW from \in Nat, NEW to \in Nat,
         p.start <= from, to <= p.start + p.length,
         p.length = 0 => from = to
  PROVE  Granted(p.page, from, to)
  <1>1. p.start \in Nat /\ p.length \in Nat
    BY Constants DEF Word, U32s
  <1>2. CASE p.length = 0
    BY <1>2 DEF Granted
  <1>3. CASE p.length # 0
    <2>1. p.start # p.start + p.length
      BY <1>1, <1>3
    <2>2. \A h \in Heaps : heap_size[h] \in Nat
      BY Constants DEF IInv, TypeOK, U32s
    <2> QED
      BY <1>1, <2>1, <2>2, Constants DEF Covered, GrantedBy, Granted, U32s
  <1> QED
    BY <1>2, <1>3

LEMMA LoadPointerGood ==
  ASSUME IInv, NEW i \in Instrs, NEW w \in Words, LoadPointer(i, w)
  PROVE  IInv' /\ SeenGood'
  <1> DEFINE c == Read(i.in1)
             p == c.word
             from == p.start + Smaller(p.offset, p.length)
             to == Smaller(Smaller(from + WORD, U32_MAX), p.start + p.length)
             second == IF i.increment THEN Tagged(Incremented(p)) ELSE Empty
  <1>1. Good(heap_size, c) /\ p \in Word /\ w \in Word /\ heap_size \in [Heaps -> U32s]
    BY ReadGood, Fields, Inputs DEF Good, Cell, IInv, TypeOK
  <1>2. AtCode /\ Pays(i)
    BY DEF LoadPointer, Runs
  <1>3. Paid(i) \in U32s
    BY <1>2, Running
  <1>4. \/ Panics(Paid(i))
        \/ /\ c.is_pointer /\ p.offset <= LastAddress
           /\ Put(i, i.out, Plain(w), second)
           /\ Continues(Paid(i)) /\ seen' = Accessed(p.page, from, to, << >>)
           /\ UNCHANGED << flags, heap_size >>
    <2>1. p.offset \in Int /\ LastAddress \in Int
      BY <1>1, Constants DEF Word, U32s, LastAddress
    <2> QED
      BY <2>1 DEF LoadPointer
  <1>5. CASE Panics(Paid(i))
    BY <1>3, <1>5, PanicsGood
  <1>6. CASE /\ c.is_pointer /\ p.offset <= LastAddress
             /\ Put(i, i.out, Plain(w), second)
             /\ Continues(Paid(i)) /\ seen' = Accessed(p.page, from, to, << >>)
             /\ UNCHANGED << flags, heap_size >>
    <2>1. Covered(heap_size, p) /\ Incremented(p) \in Word /\ Covered(heap_size, Incremented(p))
      BY <1>1, <1>6, IncrementedGood DEF Good
    <2>2. Good(heap_size, second) /\ Good(heap_size, Plain(w))
      BY <1>1, <2>1, Harmless, Zeros DEF Good, Tagged
    <2>3. IInv'
      <3> HIDE DEF second, from, to
      <3> QED
        BY <1>2, <1>3, <1>6, <2>2, Fields, PlainGood
    <2>4. /\ p.start \in Nat /\ p.length \in Nat /\ p.offset \in Nat /\ U32_MAX \in Nat
          /\ WORD \in Nat /\ p.start + p.length <= U32_MAX
      BY <1>1, <2>1, Constants DEF Word, U32s, Covered
    <2>5. /\ from \in Nat /\ to \in Nat /\ p.start <= from /\ to <= p.start + p.length
          /\ p.length = 0 => from = to
      <3> HIDE DEF p
      <3> QED
        BY <2>4 DEF Smaller
    <2>6. Granted(p.page, from, to)
      <3> HIDE DEF from, to
      <3> QED
        BY <1>1, <2>1, <2>5, PartGranted
    <2>7. /\ seen'.page = p.page /\ seen'.from = from /\ seen'.to = to
          /\ seen'.kind = "memory" /\ heap_size' = heap_size
      BY <1>6 DEF Accessed, Seen
    <2>8. SeenGood'
      <3> HIDE DEF p, from, to
      <3> QED
        BY <2>6, <2>7 DEF SeenGood, AccessesArePaid, OverflowIsCharged, Granted, HeapPage
    <2> QED
      BY <2>3, <2>8
  <1> QED
    BY <1>4, <1>5, <1>6

-----------------------------------------------------------------------------
(* The rest of the frame's own instructions *)

LEMMA JumpGood ==
  ASSUME IInv, NEW i \in Instrs, Jump(i)
  PROVE  IInv' /\ SeenGood'
  <1>1. /\ AtCode /\ Pays(i) /\ Put(i, i.out, Plain(Small(pc + 1)), Empty)
        /\ gas' = Paid(i) /\ pc' = Target(Get(i.in1).offset % U16) /\ seen' = Nothing
        /\ UNCHANGED << flags, heap_size, mode, status >>
    BY DEF Jump, Runs
  <1>2. Paid(i) \in U32s /\ pc + 1 \in 0..CodeLength /\ status = "running"
    BY <1>1, Running
  <1>3. Small(pc + 1) \in Word
    BY <1>2, Constants, Zeros DEF U32s
  <1>4. OperandsGood(heap_size) /\ Grown(heap_size, heap_size')
    BY <1>1, <1>3, PutGood, Harmless, Fields, NotGrowing
  <1>5. Get(i.in1).offset % U16 \in Slots
    <2>1. Get(i.in1).offset \in Int
      BY GetType, Constants DEF Word, U32s
    <2> QED
      BY <2>1, Words32
  <1>6. pc' \in 0..CodeLength
    BY <1>1, <1>5, Constants DEF Target, Slots
  <1>7. flags' \subseteq Conditions
    BY <1>1 DEF IInv, TypeOK
  <1> QED
    BY <1>1, <1>2, <1>4, <1>6, <1>7, StepGood, NothingSeen

LEMMA NopGood ==
  ASSUME IInv, NEW i \in Instrs, Nop(i)
  PROVE  IInv' /\ SeenGood'
  <1>1. /\ AtCode /\ Pays(i) /\ sp' = (Slot(i.in1) + Address(i.out)) % U16
        /\ registers' = Written(registers, i.dst1, Empty)
        /\ Continues(Paid(i)) /\ seen' = Nothing
        /\ UNCHANGED << stack, flags, heap_size >>
    BY DEF Nop, Runs
  <1>2. Slot(i.in1) \in Slots /\ Address(i.out) \in Slots
    BY SlotType, AddressType, Fields DEF IInv
  <1>3. sp' \in Slots
    <2>1. Slot(i.in1) + Address(i.out) \in Int
      BY <1>2, Constants DEF Slots
    <2> QED
      BY <1>1, <2>1, Words32
  <1>4. /\ registers' \in [Registers -> Cell] /\ registers'[0] = Empty
        /\ \A r \in Registers : Good(heap_size, registers'[r])
    <2>1. /\ registers \in [Registers -> Cell] /\ registers[0] = Empty
          /\ \A r \in Registers : Good(heap_size, registers[r])
      BY DEF IInv, TypeOK
    <2>2. Good(heap_size, Empty) /\ i.dst1 \in Registers
      BY Harmless, Fields
    <2>3. registers' = Written(registers, i.dst1, Empty)
      BY <1>1
    <2> QED
      BY <2>1, <2>2, <2>3, WrittenGood
  <1>5. OperandsGood(heap_size) /\ flags' \subseteq Conditions
    BY <1>1, <1>3, <1>4 DEF IInv, TypeOK, OperandsGood
  <1>6. Paid(i) \in U32s /\ Grown(heap_size, heap_size')
    BY <1>1, Running, NotGrowing
  <1> QED
    BY <1>1, <1>5, <1>6, ContinuesGood, NothingSeen

LEMMA ContextGood ==
  ASSUME IInv, NEW i \in Instrs, NEW w \in Words, Context(i, w)
  PROVE  IInv' /\ SeenGood'
  <1> DEFINE meta == [Zero EXCEPT !.offset = IF mode.kernel THEN w.offset ELSE 0,
                                  !.start = heap_size["heap"],
                                  !.length = heap_size["aux_heap"]]
             result == CASE i.op = "ergs_left" -> Small(Paid(i))
                         [] i.op = "sp"        -> Small(sp)
                         [] i.op = "meta"      -> meta
                         [] i.op = "address"   -> w
  <1>1. /\ AtCode /\ Pays(i) /\ i.op \in {"ergs_left", "sp", "meta", "address"}
        /\ Put(i, i.out, Plain(result), Empty)
        /\ Continues(Paid(i)) /\ seen' = Nothing /\ UNCHANGED << flags, heap_size >>
    BY DEF Context, Runs, ContextOps
  <1>2. Paid(i) \in U32s /\ sp \in U32s /\ w \in Word
    BY <1>1, Running, Words32, Inputs DEF IInv, TypeOK
  <1>3. meta \in Word
    <2>1. heap_size["heap"] \in U32s /\ heap_size["aux_heap"] \in U32s
      BY DEF IInv, TypeOK, Heaps
    <2>2. (IF mode.kernel THEN w.offset ELSE 0) \in U32s
      BY <1>2, Constants DEF Word, U32s
    <2> QED
      BY <2>1, <2>2, Zeros DEF Word
  <1>4. result \in Word
    <2>1. CASE i.op = "ergs_left"
      BY <1>2, <2>1, Zeros
    <2>2. CASE i.op = "sp"
      BY <1>2, <2>2, Zeros
    <2>3. CASE i.op = "meta"
      BY <1>3, <2>3
    <2>4. CASE i.op = "address"
      BY <1>2, <2>4
    <2> QED
      BY <1>1, <2>1, <2>2, <2>3, <2>4
  <1> HIDE DEF result
  <1> QED
    BY <1>1, <1>2, <1>4, PlainGood, Harmless, Fields, NothingSeen

LEMMA StorageAccessGood ==
  ASSUME IInv, NEW i \in Instrs, NEW w \in Words, NEW refund \in 0..i.cost,
         StorageAccess(i, w, refund)
  PROVE  IInv' /\ SeenGood'
  <1> DEFINE out == IF i.op \in Loads THEN i.out ELSE NoOutput
  <1>1. /\ AtCode /\ Pays(i) /\ Put(i, out, Plain(w), Empty)
        /\ Continues(Paid(i) + refund) /\ \E words : seen' = Sent(words)
        /\ UNCHANGED << flags, heap_size >>
    BY DEF StorageAccess, Runs
  <1>2. Paid(i) + refund \in U32s
    BY <1>1, Running, Fields, Constants DEF Paid, U32s
  <1>3. out \in [mode : DestinationModes, reg : Registers, imm : Slots]
    BY Fields, Constants DEF NoOutput, DestinationModes, Registers, Slots
  <1> HIDE DEF out
  <1> QED
    BY <1>1, <1>2, <1>3, PlainGood, Harmless, Inputs, NothingSeen

LEMMA LogGood ==
  ASSUME IInv, NEW i \in Instrs, Log(i) \/ ContextChange(i)
  PROVE  IInv' /\ SeenGood'
  <1>1. /\ AtCode /\ Pays(i) /\ Put(i, NoOutput, Empty, Empty)
        /\ Continues(Paid(i)) /\ \E words : seen' = Sent(words)
        /\ UNCHANGED << flags, heap_size >>
    BY DEF Log, ContextChange, Runs
  <1>2. /\ Paid(i) \in U32s
        /\ NoOutput \in [mode : DestinationModes, reg : Registers, imm : Slots]
    BY <1>1, Running, Constants DEF NoOutput, DestinationModes, Registers, Slots
  <1> QED
    BY <1>1, <1>2, PlainGood, Harmless, NothingSeen

LEMMA PrecompileGood ==
  ASSUME IInv, NEW i \in Instrs, PrecompileCall(i)
  PROVE  IInv' /\ SeenGood'
  <1> DEFINE price == GetRegister(i.in2).offset
             result == Small(IF Paid(i) >= price THEN 1 ELSE 0)
  <1>1. /\ AtCode /\ Pays(i) /\ Put(i, i.out, Plain(result), Empty)
        /\ Continues(Burn(Paid(i), price)) /\ seen' = Nothing
        /\ UNCHANGED << flags, heap_size >>
    BY DEF PrecompileCall, Runs
  <1>2. price \in Nat /\ result \in Word
    <2>1. price \in Nat
      BY GetType, Constants DEF Word, U32s
    <2>2. 0 \in U32s /\ 1 \in U32s
      BY Constants DEF U32s
    <2> QED
      BY <2>1, <2>2, Zeros
  <1>3. Burn(Paid(i), price) \in U32s
    BY <1>1, <1>2, Running
  <1> HIDE DEF price, result
  <1> QED
    BY <1>1, <1>2, <1>3, PlainGood, Harmless, Fields, NothingSeen

\* Only the kernel decommits, and its heaps have room for what it gets.
LEMMA DecommitGood ==
  ASSUME IInv, NEW i \in Instrs,
         NEW valid \in BOOLEAN, NEW fresh \in BOOLEAN, NEW pinned \in BOOLEAN,
         Decommit(i, valid, fresh, pinned)
  PROVE  IInv' /\ SeenGood'
  <1> DEFINE price == GetRegister(i.in2).offset
             code == [Zero EXCEPT !.page = IF pinned THEN PinnedPage
                                           ELSE HeapPage("heap"),
                                  !.length = KernelStipend]
             found == Paid(i) >= price /\ valid
             primary == IF found THEN Tagged(code) ELSE Empty
             left == IF found /\ ~fresh THEN Paid(i) ELSE Burn(Paid(i), price)
  <1>1. /\ AtCode /\ Pays(i) /\ i.op = "decommit" /\ Put(i, i.out, primary, Empty)
        /\ Continues(left) /\ seen' = Nothing /\ UNCHANGED << flags, heap_size >>
    BY DEF Decommit, Runs
  <1>2. price \in Nat
    BY GetType, Constants DEF Word, U32s
  <1>3. left \in U32s
    BY <1>1, <1>2, Running
  <1>4. code \in Word /\ code.start = 0 /\ code.length = KernelStipend
        /\ code.page \in {PinnedPage, HeapPage("heap")}
    BY Zeros, HeapPages, Constants DEF Word, Zero, Small
  <1>5. "heap" \in Heaps /\ KernelStipend <= heap_size["heap"]
    BY <1>1, Fields DEF Pays, IInv, Heaps
  <1>6. Covered(heap_size, code)
    <2> HIDE DEF code
    <2>1. code.start + code.length = KernelStipend /\ KernelStipend <= U32_MAX
      BY <1>4, Constants DEF U32s
    <2>2. KernelStipend <= KernelStipend
      BY Constants DEF U32s
    <2> QED
      BY <1>4, <1>5, <2>1, <2>2 DEF Covered, GrantedBy
  <1>7. Good(heap_size, primary)
    <2> HIDE DEF code
    <2> QED
      BY <1>4, <1>6, Harmless, Zeros DEF Good, Tagged
  <1> HIDE DEF left, primary
  <1> QED
    BY <1>1, <1>3, <1>7, PlainGood, Harmless, Fields, NothingSeen

-----------------------------------------------------------------------------
(* Calls and returns *)

LEMMA ForwardedCovered ==
  ASSUME NEW s \in [Heaps -> U32s], NEW p \in Word, Covered(s, p), p.offset <= p.length
  PROVE  Narrow(p) \in Word /\ Covered(s, Narrow(p))
  <1>1. /\ p.start \in Nat /\ p.length \in Nat /\ p.offset \in Nat
        /\ p.start + p.length <= U32_MAX
    BY Constants DEF Covered, Word, U32s
  <1>2. p.start + p.offset \in U32s /\ p.length - p.offset \in U32s /\ 0 \in U32s
    BY <1>1, Constants DEF U32s
  <1>3. Narrow(p) = [p EXCEPT !.start = p.start + p.offset,
                              !.length = p.length - p.offset, !.offset = 0, !.high = 0]
    BY DEF Narrow, Word
  <1>4. Narrow(p) \in Word
    BY <1>2, <1>3 DEF Word
  <1>5. /\ Narrow(p).page = p.page /\ Narrow(p).start = p.start + p.offset
        /\ Narrow(p).length = p.length - p.offset
    BY <1>3 DEF Word
  <1>6. Narrow(p).start >= p.start
        /\ Narrow(p).start + Narrow(p).length <= p.start + p.length
    BY <1>1, <1>5
  <1> QED
    BY <1>4, <1>5, <1>6, NarrowerCovered

\* The pointer of a call or return is a forwarded one, or has been paid for.
LEMMA GetCalldataGood ==
  ASSUME IInv, NEW c, Good(heap_size, c), NEW g \in U32s, NEW failed
  PROVE  LET r == GetCalldata(c, g, failed)
         IN /\ r.gas \in U32s /\ Grown(heap_size, r.sizes)
            /\ \A p \in r.pointer : p \in Word /\ Covered(r.sizes, p)
            /\ ~Forwards(c.word) /\ Overflows(c.word) =>
                 r.gas = 0 \/ r.sizes[TargetHeap(c.word)] = U32_MAX
  <1> DEFINE p == c.word
             h == TargetHeap(p)
             bound == IF Overflows(p) THEN U32_MAX ELSE p.start + p.length
             grown == Grow(h, bound, g)
             made == [p EXCEPT !.page = HeapPage(h), !.high = 0]
             r == GetCalldata(c, g, failed)
  <1>1. p \in Word /\ heap_size \in [Heaps -> U32s] /\ Grown(heap_size, heap_size)
    BY NotGrowing DEF Good, Cell, IInv, TypeOK
  <1>2. p.start \in Nat /\ p.length \in Nat /\ U32_MAX \in Nat /\ h \in Heaps
    BY <1>1, Constants DEF Word, U32s, TargetHeap, Heaps
  <1>3. bound \in U32s
    BY <1>2 DEF U32s, Overflows
  <1>4. CASE Forwards(p)
    <2>1. /\ r.gas = g /\ r.sizes = heap_size
          /\ r.pointer = IF c.is_pointer /\ p.offset <= p.length
                         THEN {Narrow(p)} ELSE {}
      BY <1>4 DEF GetCalldata, NotGrown
    <2>2. ASSUME NEW q \in r.pointer PROVE q \in Word /\ Covered(r.sizes, q)
      <3>1. c.is_pointer /\ p.offset <= p.length /\ q = Narrow(p)
        BY <2>1
      <3>2. Covered(heap_size, p)
        BY <3>1 DEF Good
      <3> QED
        BY <1>1, <2>1, <3>1, <3>2, ForwardedCovered
    <2> QED
      BY <1>1, <1>4, <2>1, <2>2
  <1>5. CASE ~Forwards(p) /\ ~Overflows(p) /\ (c.is_pointer \/ p.offset # 0 \/ failed)
    <2>1. r.gas = g /\ r.sizes = heap_size /\ r.pointer = {}
      BY <1>5 DEF GetCalldata, NotGrown
    <2> QED
      BY <1>1, <1>5, <2>1
  <1>6. CASE ~Forwards(p) /\ (Overflows(p) \/ ~(c.is_pointer \/ p.offset # 0 \/ failed))
    <2>1. /\ r.gas = grown.gas /\ r.sizes = grown.sizes
          /\ r.pointer = IF grown.ok /\ ~Overflows(p) THEN {made} ELSE {}
      BY <1>6 DEF GetCalldata
    <2>2. /\ grown.gas \in U32s /\ Grown(heap_size, grown.sizes)
          /\ grown.ok => bound <= grown.sizes[h]
          /\ ~grown.ok => grown.gas = 0
      BY <1>2, <1>3, GrowGood
    <2>3. ASSUME NEW q \in r.pointer PROVE q \in Word /\ Covered(r.sizes, q)
      <3>1. grown.ok /\ ~Overflows(p) /\ q = made
        BY <2>1
      <3>2. made \in Word /\ made.page = HeapPage(h) /\ made.start = p.start
            /\ made.length = p.length
        <4>1. HeapPage(h) \in U32s /\ 0 \in U32s
          BY HeapPages, Constants DEF U32s
        <4> HIDE DEF h
        <4> QED
          BY <1>1, <4>1 DEF Word
      <3>3. p.start + p.length <= U32_MAX /\ p.start + p.length <= r.sizes[h]
        BY <1>2, <2>1, <2>2, <3>1 DEF Overflows
      <3> HIDE DEF made, r
      <3> QED
        BY <1>2, <3>1, <3>2, <3>3 DEF Covered, GrantedBy
    <2>4. Overflows(p) => r.gas = 0 \/ r.sizes[h] = U32_MAX
      <3>1. Overflows(p) /\ grown.ok => U32_MAX <= grown.sizes[h]
        BY <2>2
      <3>2. grown.sizes[h] \in U32s
        BY <1>2, <2>2 DEF Grown
      <3> QED
        BY <1>2, <2>1, <2>2, <3>1, <3>2 DEF U32s
    <2>5. r.gas \in U32s /\ Grown(heap_size, r.sizes)
      BY <2>1, <2>2
    <2> HIDE DEF bound, grown, made
    <2> QED
      BY <2>3, <2>4, <2>5
  <1> QED
    BY <1>4, <1>5, <1>6

LEMMA CalleeFields ==
  ASSUME NEW c \in Callees
  PROVE  /\ c.cut \in Nat /\ c.length \in Nat /\ c.length \in U32s /\ c.spent \in Nat
         /\ c.from \in {"own", "calldata", "code"}
  BY Inputs, Constants DEF Callee, U32s

\* What a callee takes a part of is granted to the caller.
LEMMA LentCovered ==
  ASSUME NEW s \in [Heaps -> U32s], NEW c \in Callees,
         NEW q \in Word, Covered(s, q)
  PROVE  Lent(c, q) \in Word /\ Covered(s, Lent(c, q))
  <1>1. CASE c.from = "own"
    <2>1. Lent(c, q) = [Zero EXCEPT !.page = CalleePage, !.length = CalleeSize]
      BY <1>1 DEF Lent
    <2>2. /\ Lent(c, q) \in Word /\ Lent(c, q).page = CalleePage
          /\ Lent(c, q).start = 0 /\ Lent(c, q).length = CalleeSize
      BY <2>1, Zeros, Constants DEF Word, Zero, Small
    <2> QED
      BY <2>2, Constants DEF Covered, GrantedBy, U32s
  <1>2. CASE c.from = "code"
    <2>1. Lent(c, q) = [Zero EXCEPT !.page = PinnedPage, !.length = KernelStipend]
      BY <1>2 DEF Lent
    <2>2. /\ Lent(c, q) \in Word /\ Lent(c, q).page = PinnedPage
          /\ Lent(c, q).start = 0 /\ Lent(c, q).length = KernelStipend
      BY <2>1, Zeros, Constants DEF Word, Zero, Small
    <2> QED
      BY <2>2, Constants DEF Covered, GrantedBy, U32s
  <1>3. CASE c.from = "calldata"
    BY <1>3 DEF Lent
  <1> QED
    BY <1>1, <1>2, <1>3, CalleeFields

\* A part of it is, too.
LEMMA PartCovered ==
  ASSUME NEW s \in [Heaps -> U32s], NEW c \in Callees,
         NEW q \in Word, Covered(s, q), c.cut + c.length <= q.length
  PROVE  LET w == [q EXCEPT !.start = @ + c.cut, !.length = c.length]
         IN w \in Word /\ Covered(s, w)
  <1> DEFINE w == [q EXCEPT !.start = q.start + c.cut, !.length = c.length]
  <1>1. /\ q.start \in Nat /\ q.length \in Nat /\ c.cut \in Nat /\ c.length \in U32s
        /\ c.length \in Nat /\ q.start + q.length <= U32_MAX /\ U32_MAX \in Nat
    BY CalleeFields, Constants DEF Covered, Word, U32s
  <1>2. q.start + c.cut \in U32s
    BY <1>1 DEF U32s
  <1>3. /\ w \in Word /\ w.page = q.page /\ w.start = q.start + c.cut
        /\ w.length = c.length
    BY <1>1, <1>2 DEF Word
  <1>4. w.start >= q.start /\ w.start + w.length <= q.start + q.length
    <2> HIDE DEF w
    <2> QED
      BY <1>1, <1>3
  <1>5. Covered(s, w)
    <2> HIDE DEF w
    <2> QED
      BY <1>3, <1>4, NarrowerCovered
  <1>6. w = [q EXCEPT !.start = @ + c.cut, !.length = c.length]
    OBVIOUS
  <1> QED
    BY <1>3, <1>5, <1>6

\* The caller of what has ended has at most one pointer.
LEMMA EndedGood ==
  ASSUME NEW s, NEW w \in Word, Covered(s, w), NEW clears \in BOOLEAN,
         registers' = [n \in Registers |-> IF n = 1 /\ ~clears THEN Tagged(w) ELSE Empty]
  PROVE  /\ registers' \in [Registers -> Cell] /\ registers'[0] = Empty
         /\ \A r \in Registers : Good(s, registers'[r])
  <1>1. Tagged(w) \in Cell /\ Empty \in Cell /\ 0 \in Registers
    BY Zeros, Constants DEF Registers
  <1>2. Good(s, Tagged(w)) /\ Good(s, Empty)
    BY <1>1, Harmless DEF Good, Tagged
  <1> QED
    BY <1>1, <1>2

LEMMA ZeroCovered == ASSUME NEW s PROVE Covered(s, Zero)
  BY Constants DEF Covered, GrantedBy, Zero, Small

\* Asking for a pointer does not depend on the page that is masked.
LEMMA AskedSame ==
  ASSUME NEW c \in Cell
  PROVE  /\ Forwards(Asked(c)) <=> Forwards(c.word)
         /\ Overflows(Asked(c)) <=> Overflows(c.word)
         /\ TargetHeap(Asked(c)) = TargetHeap(c.word)
  <1>1. /\ Asked(c).high = c.word.high /\ Asked(c).start = c.word.start
        /\ Asked(c).length = c.word.length
    BY DEF Asked, Cell, Word
  <1> QED
    BY <1>1 DEF Forwards, Overflows, TargetHeap

LEMMA FarCallGood ==
  ASSUME IInv, NEW i \in Instrs, NEW c \in Callees, FarCall(i, c)
  PROVE  IInv' /\ SeenGood'
  <1> DEFINE abi == Read(i.in1)
             r == GetCalldata(abi, Paid(i), c.failed)
             part(q) == [Lent(c, q) EXCEPT !.start = @ + c.cut, !.length = c.length]
             ended(w) == [n \in Registers |->
                            IF n = 1 /\ ~c.clears THEN Tagged(w) ELSE Empty]
  <1>1. Good(heap_size, abi) /\ abi \in Cell
    BY ReadGood, Fields DEF Good
  <1>2. AtCode /\ Pays(i)
    BY DEF FarCall, Runs
  <1>3. Paid(i) \in U32s /\ pc + 1 \in 0..CodeLength /\ status = "running"
    BY <1>2, Running
  <1>4. /\ r.gas \in U32s /\ Grown(heap_size, r.sizes)
        /\ \A p \in r.pointer : p \in Word /\ Covered(r.sizes, p)
        /\ ~Forwards(abi.word) /\ Overflows(abi.word) =>
             r.gas = 0 \/ r.sizes[TargetHeap(abi.word)] = U32_MAX
    <2> HIDE DEF abi
    <2> QED
      BY <1>1, <1>3, GetCalldataGood
  <1>5. /\ c.spent <= r.gas
        /\ \/ registers' = ended(Zero)
           \/ \E q \in r.pointer : /\ c.cut + c.length <= Lent(c, q).length
                                   /\ registers' = ended(part(q))
        /\ flags' = (IF c.ends = "panic" THEN {"lt"} ELSE {})
        /\ pc' = (IF c.ends = "ok" THEN pc + 1 ELSE Target(i.imm))
        /\ gas' = r.gas - c.spent /\ heap_size' = r.sizes
        /\ seen' = Seen("call", 0, 0, 0, << Asked(abi), GetRegister(i.in2) >>)
        /\ UNCHANGED << stack, sp, mode, status >>
    BY DEF FarCall
  <1> HIDE DEF abi, r
  <1>6. heap_size' \in [Heaps -> U32s] /\ heap_size \in [Heaps -> U32s]
    BY <1>4, <1>5 DEF Grown, IInv, TypeOK
  <1>7. \E w \in Word : Covered(heap_size', w) /\ registers' = ended(w)
    <2>1. CASE registers' = ended(Zero)
      BY <2>1, ZeroCovered, Zeros
    <2>2. CASE \E q \in r.pointer : /\ c.cut + c.length <= Lent(c, q).length
                                    /\ registers' = ended(part(q))
      <3>1. PICK q \in r.pointer : /\ c.cut + c.length <= Lent(c, q).length
                                   /\ registers' = ended(part(q))
        BY <2>2
      <3>2. q \in Word /\ Covered(heap_size', q)
        BY <1>4, <1>5, <3>1
      <3>3. Lent(c, q) \in Word /\ Covered(heap_size', Lent(c, q))
        BY <1>6, <3>2, LentCovered
      <3>4. part(q) \in Word /\ Covered(heap_size', part(q))
        BY <1>6, <3>1, <3>3, PartCovered
      <3> HIDE DEF part
      <3> QED
        BY <3>1, <3>4
    <2> QED
      BY <1>5, <2>1, <2>2
  <1>8. /\ registers' \in [Registers -> Cell] /\ registers'[0] = Empty
        /\ \A n \in Registers : Good(heap_size', registers'[n])
    <2>1. PICK w \in Word : Covered(heap_size', w) /\ registers' = ended(w)
      BY <1>7
    <2>2. c.clears \in BOOLEAN
      BY Inputs DEF Callee
    <2> QED
      BY <2>1, <2>2, EndedGood
  <1>9. OperandsGood(heap_size')
    <2>1. stack' \in [Slots -> Cell] /\ sp' \in Slots
      BY <1>5 DEF IInv, TypeOK
    <2>2. \A n \in Slots : Good(heap_size', stack'[n])
      BY <1>4, <1>5, <1>6, GoodStaysGood DEF IInv
    <2> QED
      BY <1>8, <2>1, <2>2 DEF OperandsGood
  <1>10. gas' \in U32s /\ (r.gas = 0 => gas' = 0)
    <2>1. gas' = r.gas - c.spent /\ c.spent <= r.gas
      BY <1>5
    <2>2. r.gas \in Nat /\ r.gas <= U32_MAX /\ c.spent \in Nat /\ U32_MAX \in Nat
      BY <1>4, CalleeFields, Constants DEF U32s
    <2> QED
      BY <2>1, <2>2 DEF U32s
  <1>11. pc' \in 0..CodeLength
    <2>1. Target(i.imm) \in 0..CodeLength
      BY Fields, Constants DEF Target, Slots
    <2>2. pc' \in {pc + 1, Target(i.imm)}
      BY <1>5
    <2> QED
      BY <1>3, <2>1, <2>2
  <1>12. flags' \subseteq Conditions
    BY <1>5 DEF Conditions
  <1>13. IInv'
    BY <1>3, <1>4, <1>5, <1>9, <1>10, <1>11, <1>12, StepGood
  <1>14. AccessesArePaid'
    BY <1>5 DEF Seen, AccessesArePaid, Granted
  <1>15. OverflowIsCharged'
    <2>1. seen'.sent[1] = Asked(abi)
      BY <1>5 DEF Seen
    <2> QED
      BY <1>1, <1>4, <1>5, <1>10, <2>1, AskedSame DEF OverflowIsCharged
  <1> QED
    BY <1>13, <1>14, <1>15 DEF SeenGood

LEMMA RetGood ==
  ASSUME IInv, NEW i \in Instrs, Ret(i)
  PROVE  IInv' /\ SeenGood'
  <1> DEFINE abi == Read(i.in1)
             r == GetCalldata(abi, Paid(i), i.op = "panic")
             accepted == {p \in r.pointer : MayReturn(p) /\ i.op # "panic"}
  <1>1. Good(heap_size, abi) /\ abi \in Cell
    BY ReadGood, Fields DEF Good
  <1>2. AtCode /\ Pays(i) /\ i.op \in {"ret", "revert", "panic"}
    BY DEF Ret, Runs
  <1>3. Paid(i) \in U32s
    BY <1>2, Running
  <1>4. /\ r.gas \in U32s /\ Grown(heap_size, r.sizes)
        /\ \A p \in r.pointer : p \in Word /\ Covered(r.sizes, p)
        /\ ~Forwards(abi.word) /\ Overflows(abi.word) =>
             r.gas = 0 \/ r.sizes[TargetHeap(abi.word)] = U32_MAX
    <2> HIDE DEF abi
    <2> QED
      BY <1>1, <1>3, GetCalldataGood
  <1>5. /\ gas' = r.gas /\ heap_size' = r.sizes
        /\ \/ /\ status' = "panicked"
              /\ seen' = Seen("call", 0, 0, 0, << Asked(abi) >>)
           \/ \E p \in r.pointer :
                /\ status' = Ends(i.op)
                /\ seen' = Seen("call", p.page, p.start, p.start + p.length,
                                << Asked(abi) >>)
        /\ UNCHANGED << operands, flags, pc, mode >>
    BY DEF Ret
  <1> HIDE DEF abi, r
  <1>6. status' \in {"running", "returned", "reverted", "panicked"}
    BY <1>2, <1>5 DEF Ends
  <1>7. IInv'
    <2>1. OperandsGood(heap_size) /\ gas' \in U32s /\ Grown(heap_size, heap_size')
      BY <1>4, <1>5, OperandsKept
    <2>2. flags' \subseteq Conditions /\ pc' \in 0..CodeLength /\ mode' = mode
      BY <1>5 DEF IInv, TypeOK
    <2> QED
      BY <1>6, <2>1, <2>2, StepGood
  <1>8. AccessesArePaid'
    <2>1. CASE seen' = Seen("call", 0, 0, 0, << Asked(abi) >>)
      BY <2>1 DEF Seen, AccessesArePaid, Granted
    <2>2. ASSUME NEW p \in r.pointer,
                 seen' = Seen("call", p.page, p.start, p.start + p.length,
                              << Asked(abi) >>)
          PROVE  AccessesArePaid'
      <3>1. Covered(heap_size', p)
        BY <1>4, <1>5
      <3> QED
        BY <2>2, <3>1
        DEF Seen, AccessesArePaid, Granted, Covered, GrantedBy, HeapPage
    <2> QED
      BY <1>5, <2>1, <2>2
  <1>9. OverflowIsCharged'
    <2>1. seen'.sent[1] = Asked(abi)
      BY <1>5 DEF Seen
    <2> QED
      BY <1>1, <1>4, <1>5, <2>1, AskedSame DEF OverflowIsCharged
  <1> QED
    BY <1>7, <1>8, <1>9 DEF SeenGood

-----------------------------------------------------------------------------
(* The frame *)

LEMMA InitGood ==
  ASSUME Init
  PROVE  IInv /\ SeenGood
  <1>1. /\ mode \in Modes /\ sp = 0 /\ flags = {} /\ gas = InitialGas /\ pc = 0
        /\ status = "running" /\ seen = Nothing
        /\ stack = [n \in Slots |-> Empty]
    BY DEF Init
  <1>2. PICK w \in Words :
          registers = [r \in Registers |->
            IF r = 1 THEN Tagged([Zero EXCEPT !.page = CalldataPage,
                                              !.start = CalldataStart,
                                              !.length = CalldataLength])
            ELSE IF r > 2 THEN Plain(w) ELSE Empty]
    BY DEF Init
  <1>3. PICK s \in IF mode.kernel THEN {KernelStipend} ELSE Stipends :
          heap_size = [h \in Heaps |-> s]
    BY DEF Init
  <1>4. s \in U32s /\ (mode.kernel => KernelStipend <= s)
    BY <1>3, Inputs, Constants DEF U32s
  <1>5. heap_size \in [Heaps -> U32s] /\ \A h \in Heaps : heap_size[h] = s
    BY <1>3, <1>4
  <1> DEFINE calldata == [Zero EXCEPT !.page = CalldataPage, !.start = CalldataStart,
                                      !.length = CalldataLength]
  <1>6. Good(heap_size, Tagged(calldata))
    <2>1. /\ calldata \in Word /\ calldata.page = CalldataPage
          /\ calldata.start = CalldataStart /\ calldata.length = CalldataLength
      BY Zeros, Constants DEF Word, Zero, Small
    <2>2. CalldataStart <= CalldataStart
          /\ CalldataStart + CalldataLength <= CalldataStart + CalldataLength
      BY Constants DEF U32s
    <2> HIDE DEF calldata
    <2>3. Covered(heap_size, calldata)
      BY <2>1, <2>2, Constants DEF Covered, GrantedBy
    <2> QED
      BY <2>1, <2>3, Zeros DEF Good, Tagged
  <1>7. Good(heap_size, Empty) /\ Good(heap_size, Plain(w))
    BY Harmless, Inputs
  <1>8. /\ registers \in [Registers -> Cell] /\ registers[0] = Empty
        /\ \A r \in Registers : Good(heap_size, registers[r])
    <2> HIDE DEF calldata
    <2>1. 0 \in Registers
      BY Constants DEF Registers
    <2>2. registers = [r \in Registers |->
            IF r = 1 THEN Tagged(calldata) ELSE IF r > 2 THEN Plain(w) ELSE Empty]
      BY <1>2 DEF calldata
    <2> QED
      BY <1>6, <1>7, <2>1, <2>2 DEF Good
  <1>9. /\ stack \in [Slots -> Cell] /\ \A n \in Slots : Good(heap_size, stack[n])
        /\ sp \in Slots
    BY <1>1, <1>7, Constants DEF Good, Slots
  <1>10. TypeOK
    BY <1>1, <1>5, <1>8, <1>9, Constants DEF TypeOK
  <1>11. IInv
    BY <1>4, <1>5, <1>8, <1>9, <1>10 DEF IInv
  <1>12. SeenGood
    BY <1>1 DEF Nothing, Seen, SeenGood, AccessesArePaid, Granted, OverflowIsCharged
  <1> QED
    BY <1>11, <1>12

LEMMA NextGood ==
  ASSUME IInv, SeenGood, [Next]_vars
  PROVE  IInv' /\ SeenGood'
  <1>1. ASSUME InvalidInstruction PROVE IInv' /\ SeenGood'
    BY <1>1, PanicsGood, Constants DEF InvalidInstruction, U32s
  <1>2. ASSUME NEW i \in Instrs, Computes(i) PROVE IInv' /\ SeenGood'
    <2>1. CASE FreePanic(i)
      <3>1. Burn(gas, i.cost) \in U32s
        BY Fields, Constants DEF Burn, IInv, TypeOK, U32s
      <3> QED
        BY <2>1, <3>1, PanicsGood DEF FreePanic
    <2>2. CASE Skip(i)
      <3>1. AtCode /\ Pays(i) /\ Continues(Paid(i)) /\ seen' = Nothing
            /\ UNCHANGED << operands, flags, heap_size >>
        BY <2>2 DEF Skip
      <3>2. Paid(i) \in U32s /\ OperandsGood(heap_size) /\ Grown(heap_size, heap_size')
        BY <3>1, Running, OperandsKept, NotGrowing
      <3>3. flags' \subseteq Conditions
        BY <3>1 DEF IInv, TypeOK
      <3> QED
        BY <3>1, <3>2, <3>3, ContinuesGood, NothingSeen
    <2> QED
      BY <1>2, <2>1, <2>2, BinopGood, PtrOpGood, StoreGood, StoreStaticGood,
         JumpGood, NopGood, LogGood, RetGood
      DEF Computes
  <1>3. ASSUME NEW i \in Instrs, NEW w \in Words, Reads(i, w) PROVE IInv' /\ SeenGood'
    BY <1>3, LoadGood, LoadStaticGood, LoadPointerGood, ContextGood DEF Reads
  <1>4. ASSUME UNCHANGED vars PROVE IInv' /\ SeenGood'
    BY <1>4
    DEF vars, IInv, TypeOK, Good, Covered, GrantedBy, SeenGood, AccessesArePaid,
        Granted, OverflowIsCharged, HeapPage, TargetHeap
  <1> QED
    BY <1>1, <1>2, <1>3, <1>4, StorageAccessGood, PrecompileGood, DecommitGood, FarCallGood
    DEF Next

LEMMA Invariance == Spec => [](IInv /\ SeenGood)
  <1>1. Init => IInv /\ SeenGood
    BY InitGood
  <1>2. IInv /\ SeenGood /\ [Next]_vars => (IInv /\ SeenGood)'
    BY NextGood
  <1> QED
    BY <1>1, <1>2, PTL DEF Spec

\* The registers, the stack, gas, paid sizes and the program counter of a frame
\* keep their types: no instruction leaves a number that does not fit.
\* (addressing_modes.rs, state.rs, callframe.rs)
THEOREM TypeCorrect == Spec => []TypeOK
  <1>1. IInv /\ SeenGood => TypeOK
    BY DEF IInv
  <1> QED
    BY <1>1, Invariance, PTL

\* No program makes a pointer to a byte that the frame was not handed and has
\* not paid for.  (pointer.rs, heap_access.rs, far_call.rs, ret.rs)
THEOREM PointersGranted == Spec => []PointersStayGranted
  <1>1. IInv /\ SeenGood => PointersStayGranted
    BY DEF IInv, PointersStayGranted, Good, Covered, GrantedPointer, GrantedBy, Granted
  <1> QED
    BY <1>1, Invariance, PTL

\* Every access of memory, and every returned range, lies in what was handed to
\* the frame or paid for.  (heap_access.rs, ret.rs)
THEOREM AccessesPaid == Spec => []AccessesArePaid
  <1>1. IInv /\ SeenGood => AccessesArePaid
    BY DEF SeenGood
  <1> QED
    BY <1>1, Invariance, PTL

\* A call or return whose range overflows has cost the whole heap or all gas.
\* (far_call.rs:243-253)
THEOREM OverflowCharged == Spec => []OverflowIsCharged
  <1>1. IInv /\ SeenGood => OverflowIsCharged
    BY DEF SeenGood
  <1> QED
    BY <1>1, Invariance, PTL

-----------------------------------------------------------------------------
(* Two numberings of pages: the inductive invariant *)

\* Pointers to the same bytes of the same page
TwinWords(p, q) ==
  /\ p \in Word /\ q \in Word
  /\ p.offset = q.offset /\ p.start = q.start /\ p.length = q.length /\ p.high = q.high
  /\ SamePage(p.page, q.page)

\* Alike, and cells
Twins(c, d) ==
  /\ c \in Cell /\ d \in Cell /\ c.is_pointer = d.is_pointer
  /\ IF c.is_pointer THEN TwinWords(c.word, d.word) ELSE c.word = d.word

CellsTwin(cs, ds, S) ==
  /\ cs \in [S -> Cell] /\ ds \in [S -> Cell]
  /\ \A x \in S : Twins(cs[x], ds[x])

SeenTwin(s, t) ==
  \E kind, from, to, sent, p, q :
    /\ s = Seen(kind, p, from, to, sent) /\ t = Seen(kind, q, from, to, sent)
    /\ SamePage(p, q)

PagesTwin ==
  /\ CellsTwin(registers, r_registers, Registers)
  /\ CellsTwin(stack, r_stack, Slots)
  /\ r_sp = sp /\ r_flags = flags /\ r_gas = gas /\ r_heap_size = heap_size
  /\ r_pc = pc /\ r_mode = mode /\ r_status = status
  /\ SeenTwin(seen, r_seen)

\* The second frame follows the first if that is a user's.
PagesInv == ~mode.kernel => PagesTwin

\* The invariant after a step, its parts written with primed variables
NewPagesTwin ==
  /\ CellsTwin(registers', r_registers', Registers)
  /\ CellsTwin(stack', r_stack', Slots)
  /\ r_sp' = sp' /\ r_flags' = flags' /\ r_gas' = gas' /\ r_heap_size' = heap_size'
  /\ r_pc' = pc' /\ r_mode' = mode' /\ r_status' = status'
  /\ SeenTwin(seen', r_seen')

\* The parts written with primed variables are the invariant after the step.
LEMMA NewPagesTwinIs ==
  ASSUME NewPagesTwin
  PROVE  PagesTwin'
  BY Zenon DEF NewPagesTwin, PagesTwin, CellsTwin, Twins, TwinWords, SeenTwin, SamePage,
     Seen, Right!HeapPage, HeapPage

\* Both frames, while a user's program runs in them
User == IInv /\ PagesTwin /\ ~mode.kernel

-----------------------------------------------------------------------------
(* Pages and words in both numberings *)

\* What does not depend on the state is the same in both.
LEMMA RightWords ==
  /\ Right!U32s = U32s /\ Right!U32 = U32 /\ Right!Registers = Registers
  /\ Right!Slots = Slots /\ Right!Heaps = Heaps /\ Right!Word = Word /\ Right!Cell = Cell
  /\ Right!Zero = Zero /\ Right!Empty = Empty /\ Right!StackModes = StackModes
  /\ Right!NoOutput = NoOutput /\ Right!Nothing = Nothing
  /\ \A n : Right!Small(n) = Small(n)
  /\ \A w : Right!Plain(w) = Plain(w) /\ Right!Tagged(w) = Tagged(w)
  /\ \A rs, r, c : Right!Written(rs, r, c) = Written(rs, r, c)
  /\ \A k, p, a, b, s : Right!Seen(k, p, a, b, s) = Seen(k, p, a, b, s)
  /\ \A p, a, b, s : Right!Accessed(p, a, b, s) = Accessed(p, a, b, s)
  /\ \A s : Right!Sent(s) = Sent(s)
  BY DEF Right!U32s, U32s, Right!U32, U32, Right!Registers, Registers, Right!Slots, Slots,
     Right!Heaps, Heaps, Right!Word, Word, Right!Cell, Cell, Right!Zero, Zero,
     Right!Empty, Empty, Right!StackModes, StackModes, Right!NoOutput, NoOutput,
     Right!Nothing, Nothing, Right!Small, Small, Right!Plain, Plain, Right!Tagged, Tagged,
     Right!Written, Written, Right!Seen, Seen, Right!Accessed, Accessed, Right!Sent, Sent

\* Only the pages younger than the frame may be returned.
LEMMA SamePages ==
  ASSUME NEW p, NEW q, SamePage(p, q)
  PROVE  /\ p \in U32s /\ q \in U32s
         /\ p = 0 <=> q = 0
         /\ p >= BasePage /\ p # CalldataPage <=> q >= RightBasePage /\ q # RightCalldataPage
  <1>1. /\ CalldataPage \in U32s \ {0} /\ BasePage \in Nat /\ CalldataPage < BasePage
        /\ CalleePage \in U32s /\ BasePage + 3 < CalleePage /\ PinnedPage \in U32s
        /\ U32_MAX \in Nat
    BY InstructionsAssumption, Constants DEF InstructionsAssumption
  <1>2. \/ p = 0 /\ q = 0
        \/ p = CalldataPage /\ q = RightCalldataPage
        \/ p = CalleePage /\ q = RightCalleePage
        \/ p = PinnedPage /\ q = RightPinnedPage
        \/ p = BasePage + 2 /\ q = RightBasePage + 2
        \/ p = BasePage + 3 /\ q = RightBasePage + 3
    BY DEF SamePage, HeapPage, Right!HeapPage
  <1> QED
    BY <1>1, <1>2, PageNamesAssumption DEF PageNamesAssumption, U32s

\* Heaps, calldata, callees' pages and code have their twins.
LEMMA NamedPages ==
  /\ SamePage(0, 0) /\ SamePage(CalleePage, RightCalleePage)
  /\ SamePage(CalldataPage, RightCalldataPage) /\ SamePage(PinnedPage, RightPinnedPage)
  /\ \A h \in Heaps : SamePage(HeapPage(h), Right!HeapPage(h))
  BY DEF SamePage

\* A word that is no pointer is its own twin.
LEMMA PlainTwins ==
  ASSUME NEW w \in Word
  PROVE  Twins(Plain(w), Plain(w)) /\ Twins(Empty, Empty)
  BY Zeros DEF Twins, Plain, Empty

\* Twin words make twin pointers.
LEMMA TaggedTwins ==
  ASSUME NEW p, NEW q, TwinWords(p, q)
  PROVE  Twins(Tagged(p), Tagged(q))
  BY DEF Twins, TwinWords, Tagged, Cell

\* Twins are alike.
LEMMA TwinsAlike ==
  ASSUME NEW c, NEW d, Twins(c, d)
  PROVE  Alike(c, d)
  <1>1. c \in Cell /\ d \in Cell /\ c.word \in Word /\ d.word \in Word
    BY DEF Twins, Cell
  <1>2. ASSUME TwinWords(c.word, d.word)
        PROVE  c.word = [d.word EXCEPT !.page = c.word.page]
    BY <1>1, <1>2 DEF TwinWords, Word
  <1>3. d.word = [d.word EXCEPT !.page = d.word.page]
    BY <1>1 DEF Word
  <1> QED
    BY <1>1, <1>2, <1>3 DEF Twins, TwinWords, Alike

-----------------------------------------------------------------------------
(* Operands in both numberings *)

\* Erasing takes the numbers of pages out of words.
LEMMA ErasedTwin ==
  ASSUME User, NEW c, NEW d, Twins(c, d)
  PROVE  Right!Erased(d) = Erased(c) /\ Erased(c) \in Word
  <1>1. ~r_mode.kernel
    BY DEF User, PagesTwin
  <1>2. c.word \in Word /\ d.word \in Word
    BY DEF Twins, Cell
  <1>3. CASE c.is_pointer
    <2>1. TwinWords(c.word, d.word) /\ d.is_pointer
      BY <1>3 DEF Twins
    <2>2. [d.word EXCEPT !.page = 0, !.start = 0] = [c.word EXCEPT !.page = 0, !.start = 0]
      BY <1>2, <2>1 DEF TwinWords, Word
    <2> QED
      BY <1>1, <1>3, <2>1, <2>2, ErasedType DEF Erased, Right!Erased, User, Twins
  <1>4. CASE ~c.is_pointer
    BY <1>4, <1>2 DEF Erased, Right!Erased, Twins
  <1> QED
    BY <1>3, <1>4

\* A register holds the twin of what it holds in the other frame.
LEMMA RegisterTwins ==
  ASSUME User, NEW r \in Registers
  PROVE  Twins(registers[r], r_registers[r])
  BY DEF User, PagesTwin, CellsTwin

\* Addresses of operands are computed from offsets, which are equal.
LEMMA AddressTwin ==
  ASSUME User, NEW o, o.reg \in Registers
  PROVE  Right!Address(o) = Address(o)
  <1>1. registers[o.reg].word.offset = r_registers[o.reg].word.offset
    BY RegisterTwins DEF Twins, TwinWords
  <1> QED
    BY <1>1 DEF Address, Right!Address

\* The stack is read at the same slot, and left with the same stack pointer.
LEMMA SlotTwin ==
  ASSUME User, NEW o, o.reg \in Registers
  PROVE  Right!Slot(o) = Slot(o) /\ Right!SpAfterRead(o) = SpAfterRead(o)
  <1>1. r_sp = sp /\ Right!Address(o) = Address(o)
    BY AddressTwin DEF User, PagesTwin
  <1> QED
    BY <1>1 DEF Slot, Right!Slot, SpAfterRead, Right!SpAfterRead

\* What is read is the twin of what the other frame reads.
LEMMA ReadTwins ==
  ASSUME User, NEW o \in [mode : SourceModes, reg : Registers, imm : Slots]
  PROVE  Twins(Read(o), Right!Read(o))
  <1>1. /\ Right!Address(o) = Address(o) /\ Right!Slot(o) = Slot(o) /\ Slot(o) \in Slots
        /\ o.imm \in U32s
    BY AddressTwin, SlotTwin, SlotType, Words32 DEF User, IInv
  <1>2. CASE o.mode = "register"
    BY <1>2, RegisterTwins, RightWords DEF Read, Right!Read, StackModes
  <1>3. CASE o.mode = "immediate"
    BY <1>1, <1>3, PlainTwins, Zeros, RightWords DEF Read, Right!Read, StackModes
  <1>4. CASE o.mode = "code"
    <2>1. CASE Address(o) \in DOMAIN CodePage
      <3>1. Read(o) = Plain(CodePage[Address(o)])
        BY <1>4, <2>1 DEF Read, StackModes
      <3>2. Right!Read(o) = Plain(CodePage[Address(o)])
        BY <1>1, <1>4, <2>1, RightWords DEF Right!Read, StackModes
      <3> QED
        BY <2>1, <3>1, <3>2, PlainTwins, Inputs
    <2>2. CASE Address(o) \notin DOMAIN CodePage
      BY <1>1, <1>4, <2>2, PlainTwins, Zeros, RightWords DEF Read, Right!Read, StackModes
    <2> QED
      BY <2>1, <2>2
  <1>5. CASE o.mode \in StackModes
    <2>1. Read(o) = stack[Slot(o)] /\ Right!Read(o) = r_stack[Slot(o)]
      BY <1>1, <1>5, RightWords DEF Read, Right!Read, StackModes
    <2> QED
      BY <1>1, <2>1 DEF User, PagesTwin, CellsTwin
  <1> QED
    BY <1>2, <1>3, <1>4, <1>5 DEF SourceModes

\* Words that are computed with do not depend on the numbers of pages.
LEMMA GetTwin ==
  ASSUME User, NEW i \in Instrs
  PROVE  /\ Right!Get(i.in1) = Get(i.in1) /\ Get(i.in1) \in Word
         /\ Right!GetRegister(i.in2) = GetRegister(i.in2) /\ GetRegister(i.in2) \in Word
  <1>1. Twins(Read(i.in1), Right!Read(i.in1))
    BY ReadTwins, Fields
  <1>2. Twins(registers[i.in2], r_registers[i.in2])
    BY RegisterTwins, Fields
  <1> QED
    BY <1>1, <1>2, ErasedTwin DEF Get, Right!Get, GetRegister, Right!GetRegister

-----------------------------------------------------------------------------
(* Steps in both numberings *)

\* Twins are put into the same registers and slots.
OperandsTwin ==
  /\ CellsTwin(registers', r_registers', Registers)
  /\ CellsTwin(stack', r_stack', Slots)
  /\ r_sp' = sp'

\* Twins written to the same register leave registers twins.
LEMMA WrittenTwins ==
  ASSUME NEW rs, NEW qs, CellsTwin(rs, qs, Registers), NEW n \in Registers,
         NEW c, NEW d, Twins(c, d)
  PROVE  CellsTwin(Written(rs, n, c), Written(qs, n, d), Registers)
  <1>1. c \in Cell /\ d \in Cell
    BY DEF Twins
  <1>2. CASE n = 0
    BY <1>2 DEF Written
  <1>3. CASE n # 0
    <2>1. Written(rs, n, c) = [rs EXCEPT ![n] = c] /\ Written(qs, n, d) = [qs EXCEPT ![n] = d]
      BY <1>3 DEF Written
    <2> QED
      BY <1>1, <2>1 DEF CellsTwin
  <1> QED
    BY <1>2, <1>3

\* Twins put to the same destinations leave registers and stack twins.
LEMMA PutTwins ==
  ASSUME User, NEW i \in Instrs,
         NEW out \in [mode : DestinationModes, reg : Registers, imm : Slots],
         NEW c1, NEW d1, NEW c2, NEW d2, Twins(c1, d1), Twins(c2, d2),
         Put(i, out, c1, c2), Right!Put(i, out, d1, d2)
  PROVE  OperandsTwin
  <1> DEFINE after == SpAfterRead(i.in1)
             slot == CASE out.mode = "absolute" -> Address(out)
                       [] out.mode = "relative" -> (after - Address(out)) % U16
                       [] OTHER                 -> after
             rs == IF out.mode = "register" THEN Written(registers, out.reg, c1)
                   ELSE registers
             qs == IF out.mode = "register" THEN Written(r_registers, out.reg, d1)
                   ELSE r_registers
  <1>1. Right!SpAfterRead(i.in1) = after /\ Right!Address(out) = Address(out)
    BY SlotTwin, AddressTwin, Fields
  <1>2. /\ registers' = Written(rs, i.dst1, c2)
        /\ stack' = IF out.mode \in StackModes THEN [stack EXCEPT ![slot] = c1] ELSE stack
        /\ sp' = IF out.mode = "advance" THEN (after + Address(out)) % U16 ELSE after
    BY DEF Put
  <1>3. /\ r_registers' = Written(qs, i.dst1, d2)
        /\ r_stack' = IF out.mode \in StackModes THEN [r_stack EXCEPT ![slot] = d1] ELSE r_stack
        /\ r_sp' = IF out.mode = "advance" THEN (after + Address(out)) % U16 ELSE after
    BY <1>1, RightWords DEF Right!Put
  <1>4. CellsTwin(registers, r_registers, Registers) /\ CellsTwin(stack, r_stack, Slots)
    BY DEF User, PagesTwin
  <1>5. CellsTwin(rs, qs, Registers)
    BY <1>4, WrittenTwins
  <1>6. CellsTwin(registers', r_registers', Registers)
    <2> HIDE DEF rs, qs
    <2> QED
      BY <1>2, <1>3, <1>5, WrittenTwins, Fields
  <1>7. CellsTwin(stack', r_stack', Slots)
    <2>1. c1 \in Cell /\ d1 \in Cell
      BY DEF Twins
    <2> HIDE DEF slot
    <2>2. CASE out.mode \in StackModes
      BY <1>2, <1>3, <1>4, <2>1, <2>2 DEF CellsTwin
    <2>3. CASE out.mode \notin StackModes
      BY <1>2, <1>3, <1>4, <2>3
    <2> QED
      BY <2>2, <2>3
  <1> QED
    BY <1>2, <1>3, <1>6, <1>7 DEF OperandsTwin

\* Operands that are kept stay twins.
LEMMA KeptTwins ==
  ASSUME User, UNCHANGED operands, UNCHANGED Right!operands
  PROVE  OperandsTwin
  BY DEF User, PagesTwin, OperandsTwin, operands, Right!operands

\* Both frames see nothing, or the same.
LEMMA SameSeen ==
  ASSUME NEW kind, NEW from, NEW to, NEW sent, NEW p, NEW q, SamePage(p, q)
  PROVE  SeenTwin(Seen(kind, p, from, to, sent), Seen(kind, q, from, to, sent))
  BY DEF SeenTwin

\* Both saw nothing.
LEMMA NothingTwin ==
  /\ SeenTwin(Nothing, Nothing)
  /\ \A sent : SeenTwin(Sent(sent), Sent(sent))
  BY SameSeen, NamedPages DEF Nothing, Sent

\* What decides whether, and for how much, an instruction is executed
LEMMA RunsTwin ==
  ASSUME User, NEW i
  PROVE  /\ Right!AtCode = AtCode /\ Right!Pays(i) = Pays(i) /\ Right!Paid(i) = Paid(i)
         /\ Right!Satisfied(i.predicate) = Satisfied(i.predicate)
         /\ \A ops : Right!Runs(i, ops) = Runs(i, ops)
         /\ \A g, n : Right!Burn(g, n) = Burn(g, n)
         /\ \A n : Right!Target(n) = Target(n)
  <1>1. r_gas = gas /\ r_flags = flags /\ r_pc = pc /\ r_mode = mode /\ r_status = status
    BY DEF User, PagesTwin
  <1>2. Right!AtCode = AtCode /\ Right!Pays(i) = Pays(i)
    BY <1>1 DEF AtCode, Right!AtCode, Pays, Right!Pays
  <1>3. Right!Satisfied(i.predicate) = Satisfied(i.predicate)
    BY <1>1 DEF Satisfied, Right!Satisfied
  <1>4. \A ops : Right!Runs(i, ops) = Runs(i, ops)
    BY <1>2, <1>3 DEF Runs, Right!Runs
  <1> QED
    BY <1>1, <1>2, <1>3, <1>4 DEF Paid, Right!Paid, Burn, Right!Burn, Target, Right!Target

\* Both frames panic with the same gas.
LEMMA PanicsTwin ==
  ASSUME User, NEW g, Panics(g), Right!Panics(g)
  PROVE  NewPagesTwin
  <1>1. OperandsTwin
    BY KeptTwins DEF Panics, Right!Panics
  <1>2. seen' = Nothing /\ r_seen' = Nothing
    BY RightWords DEF Panics, Right!Panics
  <1> QED
    BY <1>1, <1>2, NothingTwin
    DEF Panics, Right!Panics, User, PagesTwin, NewPagesTwin, OperandsTwin

\* A step of both frames that goes on with the next instruction
LEMMA ContinuesTwin ==
  ASSUME User, NEW g, Continues(g), Right!Continues(g), OperandsTwin,
         r_flags' = flags', r_heap_size' = heap_size', SeenTwin(seen', r_seen')
  PROVE  NewPagesTwin
  BY DEF Continues, Right!Continues, User, PagesTwin, NewPagesTwin, OperandsTwin

-----------------------------------------------------------------------------
(* Computations in both numberings *)

\* Arithmetic knows nothing of pages.
LEMMA PerformTwin ==
  /\ Right!BinopOps = BinopOps
  /\ \A op \in BinopOps : \A a, b : Right!Perform(op, a, b) = Perform(op, a, b)
  <1>1. /\ \A w : Right!Value(w) = Value(w)
        /\ \A n : Right!FromNat(n) = FromNat(n)
        /\ Right!U256 = U256 /\ Right!WordBits = WordBits
    BY DEF Right!Value, Value, Right!FromNat, FromNat, Right!U256, U256, Right!WordBits,
       WordBits, Right!U32, U32
  <1>2. Right!BitsOf = BitsOf /\ Right!Bits = Bits
    BY DEF Right!BitsOf, BitsOf, Right!Bits, Bits, Right!U32s, U32s
  <1>3. \A w : Right!WordBitsOf(w) = WordBitsOf(w)
    BY <1>2 DEF Right!WordBitsOf, WordBitsOf
  <1>4. \A B, k : Right!LimbAt(B, k) = LimbAt(B, k)
    BY <1>2, Zenon DEF Right!LimbAt, LimbAt, Right!U32s, U32s
  <1>5. /\ \A B : Right!FromBits(B) = FromBits(B)
        /\ \A B, s : Right!Shifted(B, s) = Shifted(B, s)
    BY <1>4 DEF Right!FromBits, FromBits, Right!Shifted, Shifted
  <1>6. /\ \A w : Right!Logical(w) = Logical(w)
        /\ \A w, o : Right!Carrying(w, o) = Carrying(w, o)
        /\ \A w, v, fs : Right!Result(w, v, fs) = Result(w, v, fs)
        /\ \A a, b, c : Right!Flags(a, b, c) = Flags(a, b, c)
        /\ Right!Zero = Zero
    BY Zenon DEF Right!Logical, Logical, Right!Carrying, Carrying, Right!Result, Result,
       Right!Flags, Flags, Right!Conditions, Conditions, Right!Zero, Zero, Right!Small, Small
  <1>7. ASSUME NEW op \in BinopOps, NEW a, NEW b
        PROVE  Right!Perform(op, a, b) = Perform(op, a, b)
    <2>1. CASE op \in {"add", "sub"}
      BY <1>1, <1>6, <2>1 DEF Right!Perform, Perform
    <2>2. CASE op \in {"and", "or", "xor"}
      BY <1>3, <1>5, <1>6, <2>2 DEF Right!Perform, Perform
    <2>3. CASE op \in {"shl", "shr", "rol", "ror"}
      BY <1>1, <1>3, <1>5, <1>6, <2>3 DEF Right!Perform, Perform
    <2>4. CASE op = "mul"
      BY <1>1, <1>6, <2>4 DEF Right!Perform, Perform
    <2>5. CASE op = "div"
      BY <1>1, <1>6, <2>5 DEF Right!Perform, Perform
    <2> QED
      BY <2>1, <2>2, <2>3, <2>4, <2>5 DEF BinopOps
  <1> QED
    BY <1>7 DEF Right!BinopOps, BinopOps

\* Both compute the same word, and set the same flags.
LEMMA BinopTwin ==
  ASSUME User, NEW i \in Instrs, Binop(i), Right!Binop(i)
  PROVE  NewPagesTwin
  <1> DEFINE a == Get(i.in1)
             b == GetRegister(i.in2)
             r == IF i.swap THEN Perform(i.op, b, a) ELSE Perform(i.op, a, b)
  <1>1. /\ Runs(i, BinopOps) /\ Put(i, i.out, Plain(r.word), Plain(r.second))
        /\ flags' = (IF i.set_flags THEN r.flags ELSE flags)
        /\ Continues(Paid(i)) /\ seen' = Nothing /\ UNCHANGED heap_size
    BY DEF Binop
  <1>2. /\ Right!Put(i, i.out, Plain(r.word), Plain(r.second))
        /\ r_flags' = (IF i.set_flags THEN r.flags ELSE r_flags)
        /\ Right!Continues(Paid(i)) /\ r_seen' = Nothing /\ UNCHANGED r_heap_size
    <2>1. i.op \in BinopOps
      BY <1>1 DEF Runs
    <2> QED
      BY <2>1, GetTwin, PerformTwin, RunsTwin, RightWords DEF Right!Binop
  <1>3. r.word \in Word /\ r.second \in Word
    <2>1. IInv
      BY DEF User
    <2> QED
      BY <1>1, <2>1, GetType, PerformType DEF Runs
  <1> HIDE DEF r
  <1>4. OperandsTwin
    BY <1>1, <1>2, <1>3, PutTwins, PlainTwins, Fields
  <1>5. r_flags' = flags' /\ r_heap_size' = heap_size'
    BY <1>1, <1>2 DEF User, PagesTwin
  <1> QED
    BY <1>1, <1>2, <1>4, <1>5, ContinuesTwin, NothingTwin

\* Pointer instructions keep the page, and depend on it in nothing.
LEMMA PerformPtrTwin ==
  ASSUME NEW op \in PtrOps, NEW p, NEW q, TwinWords(p, q), NEW b \in Word,
         NEW w \in PerformPtr(op, p, b)
  PROVE  \A v \in Right!PerformPtr(op, q, b) : TwinWords(w, v)
  <1>1. /\ Right!U32s = U32s /\ Right!Zero = Zero /\ \A n : Right!Small(n) = Small(n)
        /\ p \in Word /\ q \in Word /\ p.offset = q.offset /\ p.length = q.length
    BY RightWords DEF TwinWords
  <1>2. /\ \A n \in U32s : TwinWords([p EXCEPT !.offset = n], [q EXCEPT !.offset = n])
        /\ \A n \in U32s : TwinWords([p EXCEPT !.length = n], [q EXCEPT !.length = n])
        /\ \A n \in U32s : TwinWords([p EXCEPT !.high = n], [q EXCEPT !.high = n])
    BY DEF TwinWords, Word
  <1>3. CASE op = "ptr.add"
    BY <1>1, <1>2, <1>3 DEF PerformPtr, Right!PerformPtr
  <1>4. CASE op = "ptr.sub"
    BY <1>1, <1>2, <1>4 DEF PerformPtr, Right!PerformPtr
  <1>5. CASE op = "ptr.pack"
    <2>1. b.high \in U32s
      BY DEF Word
    <2>2. w = [p EXCEPT !.high = b.high]
      BY <1>5 DEF PerformPtr
    <2>3. \A v \in Right!PerformPtr(op, q, b) : v = [q EXCEPT !.high = b.high]
      BY <1>5 DEF Right!PerformPtr
    <2> QED
      BY <1>2, <2>1, <2>2, <2>3
  <1>6. CASE op = "ptr.shrink"
    BY <1>1, <1>2, <1>6 DEF PerformPtr, Right!PerformPtr
  <1> QED
    BY <1>3, <1>4, <1>5, <1>6 DEF PtrOps

\* They succeed in both frames or in none.
LEMMA PerformPtrBoth ==
  ASSUME NEW op \in PtrOps, NEW p, NEW q, TwinWords(p, q), NEW b
  PROVE  PerformPtr(op, p, b) = {} <=> Right!PerformPtr(op, q, b) = {}
  <1>1. /\ Right!U32s = U32s /\ Right!Zero = Zero /\ \A n : Right!Small(n) = Small(n)
        /\ p.offset = q.offset /\ p.length = q.length
    BY RightWords DEF TwinWords
  <1>2. CASE op = "ptr.add"
    BY <1>1, <1>2 DEF PerformPtr, Right!PerformPtr
  <1>3. CASE op = "ptr.sub"
    BY <1>1, <1>3 DEF PerformPtr, Right!PerformPtr
  <1>4. CASE op = "ptr.pack"
    BY <1>1, <1>4 DEF PerformPtr, Right!PerformPtr
  <1>5. CASE op = "ptr.shrink"
    BY <1>1, <1>5 DEF PerformPtr, Right!PerformPtr
  <1> QED
    BY <1>2, <1>3, <1>4, <1>5 DEF PtrOps

\* Pointers that are moved or packed stay twins, or both frames panic.
LEMMA PtrOpTwin ==
  ASSUME User, NEW i \in Instrs, PtrOp(i), Right!PtrOp(i)
  PROVE  NewPagesTwin
  <1> DEFINE a == IF i.swap THEN registers[i.in2] ELSE Read(i.in1)
             b == IF i.swap THEN Read(i.in1) ELSE registers[i.in2]
             c == IF i.swap THEN r_registers[i.in2] ELSE Right!Read(i.in1)
             d == IF i.swap THEN Right!Read(i.in1) ELSE r_registers[i.in2]
             results == IF a.is_pointer /\ ~(b.is_pointer /\ mode.kernel)
                        THEN PerformPtr(i.op, a.word, Erased(b)) ELSE {}
             others == IF c.is_pointer /\ ~(d.is_pointer /\ r_mode.kernel)
                       THEN Right!PerformPtr(i.op, c.word, Right!Erased(d)) ELSE {}
  <1>1. Twins(a, c) /\ Twins(b, d)
    BY ReadTwins, RegisterTwins, Fields
  <1>2. /\ i.op \in PtrOps
        /\ \/ results = {} /\ Panics(Paid(i))
           \/ \E w \in results :
                /\ Put(i, i.out, Tagged(w), Empty)
                /\ Continues(Paid(i)) /\ seen' = Nothing
                /\ UNCHANGED << flags, heap_size >>
    BY DEF PtrOp, Runs
  <1>3. \/ others = {} /\ Right!Panics(Paid(i))
        \/ \E w \in others :
             /\ Right!Put(i, i.out, Tagged(w), Empty)
             /\ Right!Continues(Paid(i)) /\ r_seen' = Nothing
             /\ UNCHANGED << r_flags, r_heap_size >>
    BY RunsTwin, RightWords DEF Right!PtrOp
  <1>4. Right!Erased(d) = Erased(b) /\ Erased(b) \in Word /\ ~mode.kernel /\ ~r_mode.kernel
    <2> HIDE DEF a, b, c, d
    <2> QED
      BY <1>1, ErasedTwin DEF User, PagesTwin
  <1> HIDE DEF a, b, c, d
  <1>5. results = {} <=> others = {}
    BY <1>1, <1>2, <1>4, PerformPtrBoth DEF Twins
  <1>6. \A w \in results, v \in others : TwinWords(w, v)
    BY <1>1, <1>2, <1>4, PerformPtrTwin DEF Twins
  <1> HIDE DEF results, others
  <1>7. CASE results = {}
    BY <1>2, <1>3, <1>5, <1>7, PanicsTwin
  <1>8. CASE results # {}
    <2>1. PICK w \in results :
            /\ Put(i, i.out, Tagged(w), Empty)
            /\ Continues(Paid(i)) /\ seen' = Nothing
            /\ UNCHANGED << flags, heap_size >>
      BY <1>2, <1>8
    <2>2. PICK v \in others :
            /\ Right!Put(i, i.out, Tagged(v), Empty)
            /\ Right!Continues(Paid(i)) /\ r_seen' = Nothing
            /\ UNCHANGED << r_flags, r_heap_size >>
      BY <1>3, <1>5, <1>8
    <2>3. Twins(Tagged(w), Tagged(v)) /\ Twins(Empty, Empty)
      BY <1>6, TaggedTwins, PlainTwins, Zeros
    <2>4. OperandsTwin
      BY <2>1, <2>2, <2>3, PutTwins, Fields
    <2>5. r_flags' = flags' /\ r_heap_size' = heap_size'
      BY <2>1, <2>2 DEF User, PagesTwin
    <2> QED
      BY <2>1, <2>2, <2>4, <2>5, ContinuesTwin, NothingTwin
  <1> QED
    BY <1>7, <1>8

-----------------------------------------------------------------------------
(* Memory in both numberings *)

\* Memory costs the same, and a usable address is the same plain word in both.
LEMMA MemoryTwin ==
  ASSUME User
  PROVE  /\ \A h, bound, g : Right!Grow(h, bound, g) = Grow(h, bound, g)
         /\ \A op : Right!HeapOf(op) = HeapOf(op)
         /\ \A m, n : Right!Smaller(m, n) = Smaller(m, n)
         /\ \A w : Right!Incremented(w) = Incremented(w)
         /\ Right!LastAddress = LastAddress
  <1>1. r_heap_size = heap_size
    BY DEF User, PagesTwin
  <1>2. \A h, bound, g : Right!Grow(h, bound, g) = Grow(h, bound, g)
    BY <1>1, RunsTwin DEF Grow, Right!Grow, Burn, Right!Burn
  <1> QED
    BY <1>2 DEF Right!HeapOf, HeapOf, Right!Smaller, Smaller,
       Right!Incremented, Incremented, Right!U32, U32, Right!LastAddress, LastAddress

\* What may serve as an address in one frame may in the other.
LEMMA AddressesTwin ==
  ASSUME NEW c, NEW d, Twins(c, d)
  PROVE  /\ Right!TooBig(d.word) <=> TooBig(c.word)
         /\ c.word.offset = d.word.offset
         /\ ~TooBig(c.word) => c.word = d.word
  <1>1. c.word \in Word /\ d.word \in Word /\ c.word.offset = d.word.offset
    BY DEF Twins, TwinWords, Cell
  <1>2. c.word = Small(c.word.offset) <=> d.word = Small(d.word.offset)
    BY <1>1, SamePages DEF Twins, TwinWords, Small, Word
  <1> QED
    BY <1>1, <1>2 DEF TooBig, Right!TooBig, LastAddress, Right!LastAddress, Right!Small, Small

\* The pointer behind a word is in the same page.
LEMMA IncrementedTwins ==
  ASSUME NEW p, NEW q, TwinWords(p, q), p.offset <= LastAddress
  PROVE  TwinWords(Incremented(p), Incremented(q))
  <1>1. /\ p \in Word /\ q \in Word /\ p.offset = q.offset /\ p.offset \in Nat
        /\ p.page \in Nat /\ p.page <= U32_MAX /\ q.page \in Nat /\ q.page <= U32_MAX
    BY Constants DEF TwinWords, Word, U32s
  <1>2. ~(p.offset + WORD > U32_MAX) /\ p.offset + WORD \in Int
    BY <1>1, Constants DEF LastAddress
  <1>3. (p.page + 0) % U32 = p.page /\ (q.page + 0) % U32 = q.page
    BY <1>1, Constants DEF U32
  <1>4. (p.offset + WORD) % U32 \in U32s
    BY <1>2, Words32
  <1>5. /\ Incremented(p) = [p EXCEPT !.offset = (p.offset + WORD) % U32]
        /\ Incremented(q) = [q EXCEPT !.offset = (p.offset + WORD) % U32]
    BY <1>1, <1>2, <1>3 DEF Incremented, Word
  <1> QED
    BY <1>1, <1>4, <1>5 DEF TwinWords, Word

\* The outputs of a load that increments are twins, though its address is not
\* erased: a usable address names no page.
LEMMA IncrementedOutputTwins ==
  ASSUME User, NEW i \in Instrs, NEW c, NEW d, Twins(c, d), Good(heap_size, c), ~TooBig(c.word)
  PROVE  Twins(IncrementedOutput(i, c), Right!IncrementedOutput(i, d))
  <1>1. c \in Cell /\ d \in Cell /\ c.word \in Word /\ heap_size \in [Heaps -> U32s]
    BY DEF Twins, Cell, User, IInv, TypeOK
  <1>2. c.is_pointer => TwinWords(c.word, d.word)
    BY DEF Twins
  <1>3. c.word = d.word /\ c.is_pointer = d.is_pointer /\ c.word.offset <= LastAddress
    BY <1>1, AddressesTwin, AccessBound DEF Twins
  <1>4. Incremented(c.word) \in Word
    BY <1>1, IncrementedGood
  <1>5. c.is_pointer => TwinWords(Incremented(c.word), Incremented(d.word))
    BY <1>2, <1>3, IncrementedTwins
  <1>6. Twins([word |-> Incremented(c.word), is_pointer |-> c.is_pointer],
              [word |-> Incremented(d.word), is_pointer |-> d.is_pointer])
    BY <1>1, <1>3, <1>4, <1>5 DEF Twins, Cell
  <1>7. Right!Incremented(d.word) = Incremented(d.word)
    BY MemoryTwin
  <1> QED
    BY <1>6, <1>7, PlainTwins, Zeros, RightWords DEF IncrementedOutput, Right!IncrementedOutput

\* Both frames read at the same addresses and pay the same for growth.
LEMMA LoadTwin ==
  ASSUME User, NEW i \in Instrs, NEW w \in Words, Load(i, w), Right!Load(i, w)
  PROVE  NewPagesTwin
  <1> DEFINE c == Read(i.in1)
             d == Right!Read(i.in1)
             from == c.word.offset
             to == (from + WORD) % U32
             h == HeapOf(i.op)
             grown == Grow(h, to, Paid(i))
             next == IncrementedOutput(i, c)
             r_next == Right!IncrementedOutput(i, d)
  <1>1. Twins(c, d) /\ Good(heap_size, c) /\ w \in Word
    BY ReadTwins, ReadGood, Fields, Inputs DEF User
  <1>2. \/ TooBig(c.word) /\ Panics(Burn(Paid(i), U32_MAX))
        \/ ~TooBig(c.word) /\ ~grown.ok /\ Panics(grown.gas)
        \/ /\ ~TooBig(c.word) /\ grown.ok
           /\ Put(i, i.out, Plain(w), next)
           /\ Continues(grown.gas) /\ heap_size' = grown.sizes
           /\ seen' = Accessed(HeapPage(h), from, from + WORD, << >>)
           /\ UNCHANGED flags
    BY DEF Load
  <1>3. /\ Right!TooBig(d.word) <=> TooBig(c.word)
        /\ d.word.offset = from
    <2> HIDE DEF c, d
    <2> QED
      BY <1>1, AddressesTwin
  <1>4. \/ TooBig(c.word) /\ Right!Panics(Burn(Paid(i), U32_MAX))
        \/ ~TooBig(c.word) /\ ~grown.ok /\ Right!Panics(grown.gas)
        \/ /\ ~TooBig(c.word) /\ grown.ok
           /\ Right!Put(i, i.out, Plain(w), r_next)
           /\ Right!Continues(grown.gas) /\ r_heap_size' = grown.sizes
           /\ r_seen' = Accessed(Right!HeapPage(h), from, from + WORD, << >>)
           /\ UNCHANGED r_flags
    BY <1>3, MemoryTwin, RunsTwin, RightWords DEF Right!Load
  <1>5. ~TooBig(c.word) => Twins(next, r_next)
    <2> HIDE DEF c, d
    <2> QED
      BY <1>1, IncrementedOutputTwins
  <1>6. Twins(Plain(w), Plain(w)) /\ h \in Heaps
    BY <1>1, PlainTwins, HeapOfType
  <1>7. SeenTwin(Accessed(HeapPage(h), from, from + WORD, << >>),
                 Accessed(Right!HeapPage(h), from, from + WORD, << >>))
    <2> HIDE DEF h, from
    <2> QED
      BY <1>6, NamedPages, SameSeen DEF Accessed
  <1>8. r_flags = flags /\ r_heap_size = heap_size
    BY DEF User, PagesTwin
  <1> HIDE DEF c, d, from, to, h, grown, next, r_next
  <1>9. CASE TooBig(c.word)
    BY <1>2, <1>4, <1>9, PanicsTwin
  <1>10. CASE ~TooBig(c.word) /\ ~grown.ok
    BY <1>2, <1>4, <1>10, PanicsTwin
  <1>11. CASE ~TooBig(c.word) /\ grown.ok
    <2>1. OperandsTwin
      BY <1>2, <1>4, <1>5, <1>6, <1>11, PutTwins, Fields
    <2> QED
      BY <1>2, <1>4, <1>7, <1>8, <1>11, <2>1, ContinuesTwin
  <1> QED
    BY <1>9, <1>10, <1>11

\* Static memory is read at the same addresses.
LEMMA LoadStaticTwin ==
  ASSUME User, NEW i \in Instrs, NEW w \in Words, LoadStatic(i, w), Right!LoadStatic(i, w)
  PROVE  NewPagesTwin
  <1> DEFINE c == Read(i.in1)
             d == Right!Read(i.in1)
             next == IncrementedOutput(i, c)
             r_next == Right!IncrementedOutput(i, d)
  <1>1. Twins(c, d) /\ Good(heap_size, c) /\ w \in Word
    BY ReadTwins, ReadGood, Fields, Inputs DEF User
  <1>2. \/ TooBig(c.word) /\ Panics(Paid(i))
        \/ /\ ~TooBig(c.word)
           /\ Put(i, i.out, Plain(w), next)
           /\ Continues(Paid(i)) /\ seen' = Nothing
           /\ UNCHANGED << flags, heap_size >>
    BY DEF LoadStatic
  <1>3. Right!TooBig(d.word) <=> TooBig(c.word)
    <2> HIDE DEF c, d
    <2> QED
      BY <1>1, AddressesTwin
  <1>4. \/ TooBig(c.word) /\ Right!Panics(Paid(i))
        \/ /\ ~TooBig(c.word)
           /\ Right!Put(i, i.out, Plain(w), r_next)
           /\ Right!Continues(Paid(i)) /\ r_seen' = Nothing
           /\ UNCHANGED << r_flags, r_heap_size >>
    BY <1>3, RunsTwin, RightWords DEF Right!LoadStatic
  <1>5. ~TooBig(c.word) => Twins(next, r_next) /\ Twins(Plain(w), Plain(w))
    <2> HIDE DEF c, d
    <2> QED
      BY <1>1, IncrementedOutputTwins, PlainTwins
  <1>6. r_flags = flags /\ r_heap_size = heap_size
    BY DEF User, PagesTwin
  <1> HIDE DEF c, d, next, r_next
  <1>7. CASE TooBig(c.word)
    BY <1>2, <1>4, <1>7, PanicsTwin
  <1>8. CASE ~TooBig(c.word)
    <2>1. OperandsTwin
      BY <1>2, <1>4, <1>5, <1>8, PutTwins, Fields
    <2> QED
      BY <1>2, <1>4, <1>6, <1>8, <2>1, ContinuesTwin, NothingTwin
  <1> QED
    BY <1>7, <1>8

\* A store that increments leaves the same plain word.
LEMMA StoredOutputTwins ==
  ASSUME User, NEW c, NEW d, Twins(c, d), Good(heap_size, c), ~TooBig(c.word)
  PROVE  Twins(Plain(Incremented(c.word)), Plain(Incremented(d.word)))
  <1>1. Incremented(c.word) \in Word
    BY IncrementedGood DEF Twins, Cell, User, IInv, TypeOK
  <1>2. c.word = d.word
    BY AddressesTwin
  <1> QED
    BY <1>1, <1>2, PlainTwins

\* Both frames write the same words to the same addresses of twin pages.
LEMMA StoreTwin ==
  ASSUME User, NEW i \in Instrs, Store(i), Right!Store(i)
  PROVE  NewPagesTwin
  <1> DEFINE c == Read(i.in1)
             d == Right!Read(i.in1)
             from == c.word.offset
             to == (from + WORD) % U32
             h == HeapOf(i.op)
             grown == Grow(h, to, Paid(i))
             out == IF i.increment THEN i.out ELSE NoOutput
             value == << GetRegister(i.in2) >>
             next(e) == Plain(Incremented(e.word))
  <1>1. Twins(c, d) /\ Good(heap_size, c)
    BY ReadTwins, ReadGood, Fields DEF User
  <1>2. \/ TooBig(c.word) /\ Panics(Burn(Paid(i), U32_MAX))
        \/ ~TooBig(c.word) /\ ~grown.ok /\ Panics(grown.gas)
        \/ /\ ~TooBig(c.word) /\ grown.ok
           /\ Put(i, out, next(c), Empty)
           /\ Continues(grown.gas) /\ heap_size' = grown.sizes
           /\ seen' = Accessed(HeapPage(h), from, from + WORD, value)
           /\ UNCHANGED flags
    BY DEF Store
  <1>3. /\ Right!TooBig(d.word) <=> TooBig(c.word)
        /\ d.word.offset = from
    <2> HIDE DEF c, d
    <2> QED
      BY <1>1, AddressesTwin
  <1>4. \/ TooBig(c.word) /\ Right!Panics(Burn(Paid(i), U32_MAX))
        \/ ~TooBig(c.word) /\ ~grown.ok /\ Right!Panics(grown.gas)
        \/ /\ ~TooBig(c.word) /\ grown.ok
           /\ Right!Put(i, out, next(d), Empty)
           /\ Right!Continues(grown.gas) /\ r_heap_size' = grown.sizes
           /\ r_seen' = Accessed(Right!HeapPage(h), from, from + WORD, value)
           /\ UNCHANGED r_flags
    BY <1>3, MemoryTwin, RunsTwin, RightWords, GetTwin DEF Right!Store
  <1>5. ~TooBig(c.word) => Twins(next(c), next(d)) /\ Twins(Empty, Empty)
    <2> HIDE DEF c, d
    <2> QED
      BY <1>1, StoredOutputTwins, PlainTwins, Zeros
  <1>6. /\ h \in Heaps
        /\ out \in [mode : DestinationModes, reg : Registers, imm : Slots]
    BY HeapOfType, Fields, Constants DEF NoOutput, DestinationModes, Registers, Slots
  <1>7. SeenTwin(Accessed(HeapPage(h), from, from + WORD, value),
                 Accessed(Right!HeapPage(h), from, from + WORD, value))
    <2> HIDE DEF h, from, value
    <2> QED
      BY <1>6, NamedPages, SameSeen DEF Accessed
  <1>8. r_flags = flags /\ r_heap_size = heap_size
    BY DEF User, PagesTwin
  <1> HIDE DEF c, d, from, to, h, grown, next, out, value
  <1>9. CASE TooBig(c.word)
    BY <1>2, <1>4, <1>9, PanicsTwin
  <1>10. CASE ~TooBig(c.word) /\ ~grown.ok
    BY <1>2, <1>4, <1>10, PanicsTwin
  <1>11. CASE ~TooBig(c.word) /\ grown.ok
    <2>1. OperandsTwin
      BY <1>2, <1>4, <1>5, <1>6, <1>11, PutTwins
    <2> QED
      BY <1>2, <1>4, <1>7, <1>8, <1>11, <2>1, ContinuesTwin
  <1> QED
    BY <1>9, <1>10, <1>11

\* Both frames write the same words to the same addresses of static memory.
LEMMA StoreStaticTwin ==
  ASSUME User, NEW i \in Instrs, StoreStatic(i), Right!StoreStatic(i)
  PROVE  NewPagesTwin
  <1> DEFINE c == Read(i.in1)
             d == Right!Read(i.in1)
             out == IF i.increment THEN i.out ELSE NoOutput
             value == << GetRegister(i.in2) >>
             next(e) == Plain(Incremented(e.word))
  <1>1. Twins(c, d) /\ Good(heap_size, c)
    BY ReadTwins, ReadGood, Fields DEF User
  <1>2. \/ TooBig(c.word) /\ Panics(Paid(i))
        \/ /\ ~TooBig(c.word)
           /\ Put(i, out, next(c), Empty)
           /\ Continues(Paid(i)) /\ seen' = Sent(value)
           /\ UNCHANGED << flags, heap_size >>
    BY DEF StoreStatic
  <1>3. Right!TooBig(d.word) <=> TooBig(c.word)
    <2> HIDE DEF c, d
    <2> QED
      BY <1>1, AddressesTwin
  <1>4. \/ TooBig(c.word) /\ Right!Panics(Paid(i))
        \/ /\ ~TooBig(c.word)
           /\ Right!Put(i, out, next(d), Empty)
           /\ Right!Continues(Paid(i)) /\ r_seen' = Sent(value)
           /\ UNCHANGED << r_flags, r_heap_size >>
    BY <1>3, MemoryTwin, RunsTwin, RightWords, GetTwin DEF Right!StoreStatic
  <1>5. ~TooBig(c.word) => Twins(next(c), next(d)) /\ Twins(Empty, Empty)
    <2> HIDE DEF c, d
    <2> QED
      BY <1>1, StoredOutputTwins, PlainTwins, Zeros
  <1>6. out \in [mode : DestinationModes, reg : Registers, imm : Slots]
    BY Fields, Constants DEF NoOutput, DestinationModes, Registers, Slots
  <1>7. r_flags = flags /\ r_heap_size = heap_size
    BY DEF User, PagesTwin
  <1> HIDE DEF c, d, next, out, value
  <1>8. CASE TooBig(c.word)
    BY <1>2, <1>4, <1>8, PanicsTwin
  <1>9. CASE ~TooBig(c.word)
    <2>1. OperandsTwin
      BY <1>2, <1>4, <1>5, <1>6, <1>9, PutTwins
    <2> QED
      BY <1>2, <1>4, <1>7, <1>9, <2>1, ContinuesTwin, NothingTwin
  <1> QED
    BY <1>8, <1>9

\* Both read the same bytes of the same page.
LEMMA LoadPointerTwin ==
  ASSUME User, NEW i \in Instrs, NEW w \in Words, LoadPointer(i, w), Right!LoadPointer(i, w)
  PROVE  NewPagesTwin
  <1> DEFINE c == Read(i.in1)
             d == Right!Read(i.in1)
             p == c.word
             q == d.word
             bad == ~c.is_pointer \/ p.offset > LastAddress
             from == p.start + Smaller(p.offset, p.length)
             to == Smaller(Smaller(from + WORD, U32_MAX), p.start + p.length)
             next(v) == IF i.increment THEN Tagged(Incremented(v)) ELSE Empty
  <1>1. Twins(c, d) /\ w \in Word
    BY ReadTwins, Fields, Inputs
  <1>2. p.offset \in Int /\ LastAddress \in Int
    <2>1. p \in Word
      BY <1>1 DEF Twins, Cell
    <2> QED
      BY <2>1, Constants DEF Word, U32s, LastAddress
  <1>3. \/ bad /\ Panics(Paid(i))
        \/ /\ ~bad /\ Put(i, i.out, Plain(w), next(p))
           /\ Continues(Paid(i)) /\ seen' = Accessed(p.page, from, to, << >>)
           /\ UNCHANGED << flags, heap_size >>
    BY DEF LoadPointer
  <1>4. /\ c.is_pointer = d.is_pointer /\ p.offset = q.offset
        /\ c.is_pointer => p.start = q.start /\ p.length = q.length
    <2> HIDE DEF c, d
    <2> QED
      BY <1>1 DEF Twins, TwinWords
  <1>5. \/ bad /\ Right!Panics(Paid(i))
        \/ /\ ~bad /\ Right!Put(i, i.out, Plain(w), next(q))
           /\ Right!Continues(Paid(i)) /\ r_seen' = Accessed(q.page, from, to, << >>)
           /\ UNCHANGED << r_flags, r_heap_size >>
    BY <1>4, MemoryTwin, RunsTwin, RightWords DEF Right!LoadPointer
  <1>6. CASE bad
    BY <1>3, <1>5, <1>6, PanicsTwin
  <1>7. CASE ~bad
    <2>1. TwinWords(p, q) /\ p.offset <= LastAddress
      <3>1. c.is_pointer /\ TwinWords(c.word, d.word)
        <4> HIDE DEF c, d
        <4> QED
          BY <1>1, <1>7 DEF Twins
      <3> QED
        BY <1>2, <1>7, <3>1
    <2> HIDE DEF p, q, c, d
    <2>2. Twins(next(p), next(q)) /\ Twins(Plain(w), Plain(w))
      BY <1>1, <2>1, IncrementedTwins, TaggedTwins, PlainTwins, Zeros
    <2> HIDE DEF next, from, to, bad
    <2>3. OperandsTwin
      BY <1>3, <1>5, <1>7, <2>2, PutTwins, Fields
    <2>4. SeenTwin(seen', r_seen')
      <3>1. SamePage(p.page, q.page)
        BY <2>1 DEF TwinWords
      <3> QED
        BY <1>3, <1>5, <1>7, <3>1, SameSeen DEF Accessed
    <2>5. r_flags' = flags' /\ r_heap_size' = heap_size'
      BY <1>3, <1>5, <1>7 DEF User, PagesTwin
    <2> QED
      BY <1>3, <1>5, <1>7, <2>3, <2>4, <2>5, ContinuesTwin
  <1> QED
    BY <1>6, <1>7

-----------------------------------------------------------------------------
(* The rest of the frame's own instructions in both numberings *)

\* Both frames jump to the same place.
LEMMA JumpTwin ==
  ASSUME User, NEW i \in Instrs, Jump(i), Right!Jump(i)
  PROVE  NewPagesTwin
  <1>1. /\ Put(i, i.out, Plain(Small(pc + 1)), Empty) /\ AtCode /\ Pays(i)
        /\ gas' = Paid(i) /\ pc' = Target(Get(i.in1).offset % U16) /\ seen' = Nothing
        /\ UNCHANGED << flags, heap_size, mode, status >>
    BY DEF Jump, Runs
  <1>2. r_pc = pc
    BY DEF User, PagesTwin
  <1>3. /\ Right!Put(i, i.out, Plain(Small(pc + 1)), Empty)
        /\ r_gas' = Paid(i) /\ r_pc' = Target(Get(i.in1).offset % U16) /\ r_seen' = Nothing
        /\ UNCHANGED << r_flags, r_heap_size, r_mode, r_status >>
    BY <1>2, RunsTwin, GetTwin, RightWords DEF Right!Jump
  <1>4. Small(pc + 1) \in Word
    BY <1>1, Running, Constants, Zeros DEF U32s, User
  <1>5. OperandsTwin
    BY <1>1, <1>3, <1>4, PutTwins, PlainTwins, Zeros, Fields
  <1> QED
    BY <1>1, <1>3, <1>5, NothingTwin DEF User, PagesTwin, NewPagesTwin, OperandsTwin

\* A nop moves the stack pointer alike.
LEMMA NopTwin ==
  ASSUME User, NEW i \in Instrs, Nop(i), Right!Nop(i)
  PROVE  NewPagesTwin
  <1>1. /\ sp' = (Slot(i.in1) + Address(i.out)) % U16
        /\ registers' = Written(registers, i.dst1, Empty)
        /\ Continues(Paid(i)) /\ seen' = Nothing
        /\ UNCHANGED << stack, flags, heap_size >>
    BY DEF Nop
  <1>2. Right!Slot(i.in1) = Slot(i.in1) /\ Right!Address(i.out) = Address(i.out)
    BY SlotTwin, AddressTwin, Fields
  <1>3. /\ r_sp' = (Slot(i.in1) + Address(i.out)) % U16
        /\ r_registers' = Written(r_registers, i.dst1, Empty)
        /\ Right!Continues(Paid(i)) /\ r_seen' = Nothing
        /\ UNCHANGED << r_stack, r_flags, r_heap_size >>
    BY <1>2, RunsTwin, RightWords DEF Right!Nop
  <1>4. CellsTwin(registers', r_registers', Registers)
    BY <1>1, <1>3, WrittenTwins, PlainTwins, Zeros, Fields DEF User, PagesTwin
  <1>5. OperandsTwin /\ r_flags' = flags' /\ r_heap_size' = heap_size'
    BY <1>1, <1>3, <1>4 DEF User, PagesTwin, OperandsTwin
  <1> QED
    BY <1>1, <1>3, <1>5, ContinuesTwin, NothingTwin

\* The published bytes are the kernel's to see.
LEMMA ContextTwin ==
  ASSUME User, NEW i \in Instrs, NEW w \in Words, Context(i, w), Right!Context(i, w)
  PROVE  NewPagesTwin
  <1> DEFINE meta == [Zero EXCEPT !.offset = 0, !.start = heap_size["heap"],
                                  !.length = heap_size["aux_heap"]]
             result == CASE i.op = "ergs_left" -> Small(Paid(i))
                         [] i.op = "sp"        -> Small(sp)
                         [] i.op = "meta"      -> meta
                         [] i.op = "address"   -> w
  <1>1. /\ ~mode.kernel /\ ~r_mode.kernel /\ r_sp = sp /\ r_heap_size = heap_size
        /\ r_flags = flags
    BY DEF User, PagesTwin
  <1>2. i.op \in {"ergs_left", "sp", "meta", "address"} /\ AtCode /\ Pays(i)
    BY DEF Context, Runs, ContextOps
  <1>3. /\ Put(i, i.out, Plain(result), Empty)
        /\ Continues(Paid(i)) /\ seen' = Nothing /\ UNCHANGED << flags, heap_size >>
    BY <1>1, <1>2 DEF Context
  <1>4. /\ Right!Put(i, i.out, Plain(result), Empty)
        /\ Right!Continues(Paid(i)) /\ r_seen' = Nothing
        /\ UNCHANGED << r_flags, r_heap_size >>
    BY <1>1, <1>2, RunsTwin, RightWords DEF Right!Context
  <1>5. result \in Word
    <2>1. Paid(i) \in U32s /\ sp \in U32s /\ w \in Word
      BY <1>2, Running, Words32, Inputs DEF User, IInv, TypeOK
    <2>2. heap_size["heap"] \in U32s /\ heap_size["aux_heap"] \in U32s /\ 0 \in U32s
      BY Constants DEF User, IInv, TypeOK, Heaps, U32s
    <2>3. meta \in Word
      BY <2>2, Zeros DEF Word
    <2> QED
      BY <1>2, <2>1, <2>3, Zeros
  <1> HIDE DEF result
  <1>6. OperandsTwin
    BY <1>3, <1>4, <1>5, PutTwins, PlainTwins, Fields
  <1> QED
    BY <1>1, <1>3, <1>4, <1>6, ContinuesTwin, NothingTwin

\* What goes out of a user's frame is erased.
LEMMA StorageAccessTwin ==
  ASSUME User, NEW i \in Instrs, NEW w \in Words, NEW refund \in 0..i.cost,
         StorageAccess(i, w, refund), Right!StorageAccess(i, w, refund)
  PROVE  NewPagesTwin
  <1> DEFINE out == IF i.op \in Loads THEN i.out ELSE NoOutput
             sent == IF i.op \in Writes THEN << Get(i.in1), GetRegister(i.in2) >>
                     ELSE << Get(i.in1) >>
  <1>1. /\ Put(i, out, Plain(w), Empty) /\ Continues(Paid(i) + refund)
        /\ seen' = Sent(sent) /\ UNCHANGED << flags, heap_size >>
    BY DEF StorageAccess
  <1>2. /\ Right!Put(i, out, Plain(w), Empty) /\ Right!Continues(Paid(i) + refund)
        /\ r_seen' = Sent(sent) /\ UNCHANGED << r_flags, r_heap_size >>
    <2>1. Right!Loads = Loads /\ Right!Writes = Writes
      BY DEF Right!Loads, Loads, Right!Writes, Writes
    <2> QED
      BY <2>1, RunsTwin, GetTwin, RightWords DEF Right!StorageAccess
  <1>3. out \in [mode : DestinationModes, reg : Registers, imm : Slots] /\ w \in Word
    BY Fields, Constants, Inputs DEF NoOutput, DestinationModes, Registers, Slots
  <1> HIDE DEF out, sent
  <1>4. OperandsTwin /\ r_flags' = flags' /\ r_heap_size' = heap_size'
    BY <1>1, <1>2, <1>3, PutTwins, PlainTwins DEF User, PagesTwin
  <1> QED
    BY <1>1, <1>2, <1>4, ContinuesTwin, NothingTwin

LEMMA LogTwin ==
  ASSUME User, NEW i \in Instrs,
         (Log(i) /\ Right!Log(i)) \/ (ContextChange(i) /\ Right!ContextChange(i))
  PROVE  NewPagesTwin
  <1>1. /\ Put(i, NoOutput, Empty, Empty) /\ Continues(Paid(i))
        /\ UNCHANGED << flags, heap_size >>
        /\ Right!Put(i, NoOutput, Empty, Empty) /\ Right!Continues(Paid(i))
        /\ UNCHANGED << r_flags, r_heap_size >>
        /\ \E sent : seen' = Sent(sent) /\ r_seen' = Sent(sent)
    <2>1. CASE Log(i) /\ Right!Log(i)
      BY <2>1, RunsTwin, GetTwin, RightWords DEF Log, Right!Log
    <2>2. CASE ContextChange(i) /\ Right!ContextChange(i)
      BY <2>2, RunsTwin, GetTwin, RightWords DEF ContextChange, Right!ContextChange
    <2> QED
      BY <2>1, <2>2
  <1>2. NoOutput \in [mode : DestinationModes, reg : Registers, imm : Slots]
    BY Constants DEF NoOutput, DestinationModes, Registers, Slots
  <1>3. Twins(Empty, Empty)
    BY PlainTwins, Zeros
  <1>4. OperandsTwin /\ r_flags' = flags' /\ r_heap_size' = heap_size'
    BY <1>1, <1>2, <1>3, PutTwins DEF User, PagesTwin
  <1> QED
    BY <1>1, <1>4, ContinuesTwin, NothingTwin

-----------------------------------------------------------------------------
(* Calls and returns in both numberings *)

\* The same gas and memory, and a pointer to the same bytes or none
SameCalldata(r, t) ==
  /\ t.gas = r.gas /\ t.sizes = r.sizes
  /\ r.pointer = {} <=> t.pointer = {}
  /\ \A p \in r.pointer : \A q \in t.pointer : TwinWords(p, q)

\* Narrowing keeps the page.
LEMMA NarrowTwins ==
  ASSUME NEW p, NEW q, TwinWords(p, q), Narrow(p) \in Word
  PROVE  TwinWords(Narrow(p), Narrow(q))
  <1> DEFINE start == p.start + p.offset
             length == p.length - p.offset
  <1>1. p \in Word /\ q \in Word /\ SamePage(p.page, q.page)
    BY DEF TwinWords
  <1>2. /\ Narrow(p) = [p EXCEPT !.start = start, !.length = length, !.offset = 0, !.high = 0]
        /\ Narrow(q) = [q EXCEPT !.start = start, !.length = length, !.offset = 0, !.high = 0]
    BY <1>1 DEF Narrow, TwinWords, Word
  <1> HIDE DEF start, length
  <1>3. start \in U32s /\ length \in U32s /\ 0 \in U32s
    BY <1>1, <1>2 DEF Word
  <1>4. ASSUME NEW v \in Word, NEW w,
               w = [v EXCEPT !.start = start, !.length = length, !.offset = 0, !.high = 0]
        PROVE  /\ w \in Word /\ w.offset = 0 /\ w.page = v.page /\ w.start = start
               /\ w.length = length /\ w.high = 0
    BY <1>3, <1>4 DEF Word
  <1>5. /\ Narrow(p) \in Word /\ Narrow(p).offset = 0 /\ Narrow(p).page = p.page
        /\ Narrow(p).start = start /\ Narrow(p).length = length /\ Narrow(p).high = 0
    BY <1>1, <1>2, <1>4
  <1>6. /\ Narrow(q) \in Word /\ Narrow(q).offset = 0 /\ Narrow(q).page = q.page
        /\ Narrow(q).start = start /\ Narrow(q).length = length /\ Narrow(q).high = 0
    BY <1>1, <1>2, <1>4
  <1> QED
    BY <1>1, <1>5, <1>6 DEF TwinWords

\* Calls and returns hand on the same bytes, or fail in both frames.
LEMMA GetCalldataTwin ==
  ASSUME User, NEW c, NEW d, Twins(c, d), Good(heap_size, c), NEW g \in U32s, NEW failed
  PROVE  SameCalldata(GetCalldata(c, g, failed), Right!GetCalldata(d, g, failed))
  <1> DEFINE p == c.word
             q == d.word
             h == TargetHeap(p)
             r == GetCalldata(c, g, failed)
             t == Right!GetCalldata(d, g, failed)
             wrong == c.is_pointer \/ p.offset # 0 \/ failed
             grown == Grow(h, IF Overflows(p) THEN U32_MAX ELSE p.start + p.length, g)
             made == [p EXCEPT !.page = HeapPage(h), !.high = 0]
             other == [q EXCEPT !.page = Right!HeapPage(h), !.high = 0]
  <1>1. /\ p \in Word /\ q \in Word /\ c.is_pointer = d.is_pointer
        /\ p.offset = q.offset /\ p.start = q.start /\ p.length = q.length /\ p.high = q.high
        /\ c.is_pointer => TwinWords(p, q)
    BY DEF Twins, TwinWords, Cell
  <1>2. /\ Right!Forwards(q) <=> Forwards(p)
        /\ Right!Overflows(q) <=> Overflows(p)
        /\ Right!TargetHeap(q) = h
        /\ Right!Narrow(q) = Narrow(q)
    BY <1>1 DEF Right!Forwards, Forwards, Right!Overflows, Overflows, Right!TargetHeap,
       TargetHeap, Right!Narrow, Narrow
  <1>3. \A pointer, e : /\ NotGrown(e, pointer) = [pointer |-> pointer, gas |-> e, sizes |-> heap_size]
                        /\ Right!NotGrown(e, pointer) = NotGrown(e, pointer)
    BY DEF NotGrown, Right!NotGrown, User, PagesTwin
  <1>4. \A p2 \in r.pointer : p2 \in Word
    <2>1. IInv
      BY DEF User
    <2> QED
      BY <2>1, GetCalldataGood
  <1>5. CASE Forwards(p)
    <2>1. r = NotGrown(g, IF c.is_pointer /\ p.offset <= p.length THEN {Narrow(p)} ELSE {})
      BY <1>5 DEF GetCalldata
    <2>2. t = NotGrown(g, IF c.is_pointer /\ p.offset <= p.length THEN {Narrow(q)} ELSE {})
      BY <1>1, <1>2, <1>3, <1>5 DEF Right!GetCalldata
    <2>3. /\ r.pointer = (IF c.is_pointer /\ p.offset <= p.length THEN {Narrow(p)} ELSE {})
          /\ t.pointer = (IF c.is_pointer /\ p.offset <= p.length THEN {Narrow(q)} ELSE {})
          /\ t.gas = r.gas /\ t.sizes = r.sizes
      BY <1>3, <2>1, <2>2
    <2> HIDE DEF r, t
    <2>4. c.is_pointer /\ p.offset <= p.length => TwinWords(Narrow(p), Narrow(q))
      BY <1>1, <1>4, <2>3, NarrowTwins
    <2> QED
      BY <2>3, <2>4 DEF SameCalldata, r, t
  <1>6. CASE ~Forwards(p) /\ wrong /\ ~Overflows(p)
    <2>1. r = NotGrown(g, {}) /\ t = NotGrown(g, {})
      BY <1>1, <1>2, <1>3, <1>6 DEF GetCalldata, Right!GetCalldata
    <2> QED
      BY <1>3, <2>1 DEF SameCalldata
  <1>7. CASE ~Forwards(p) /\ ~(wrong /\ ~Overflows(p))
    <2>1. /\ r.gas = grown.gas /\ r.sizes = grown.sizes
          /\ r.pointer = IF grown.ok /\ ~Overflows(p) THEN {made} ELSE {}
      BY <1>7 DEF GetCalldata
    <2>2. /\ t.gas = grown.gas /\ t.sizes = grown.sizes
          /\ t.pointer = IF grown.ok /\ ~Overflows(p) THEN {other} ELSE {}
      BY <1>1, <1>2, <1>7, MemoryTwin DEF Right!GetCalldata
    <2>3. TwinWords(made, other)
      <3>1. h \in Heaps
        BY DEF TargetHeap, Heaps
      <3> HIDE DEF h
      <3>2. SamePage(HeapPage(h), Right!HeapPage(h)) /\ 0 \in U32s
        BY <3>1, NamedPages, Constants DEF U32s
      <3>3. HeapPage(h) \in U32s /\ Right!HeapPage(h) \in U32s
        BY <3>2, SamePages
      <3> QED
        BY <1>1, <3>2, <3>3 DEF TwinWords, Word
    <2> HIDE DEF r, t, made, other, grown
    <2> QED
      BY <2>1, <2>2, <2>3 DEF SameCalldata, r, t
  <1> QED
    BY <1>5, <1>6, <1>7

\* The ABI register names no page to the other side.
LEMMA AskedTwin ==
  ASSUME NEW c, NEW d, Twins(c, d)
  PROVE  Right!Asked(d) = Asked(c)
  <1>1. c.word \in Word /\ d.word \in Word
    BY DEF Twins, Cell
  <1> QED
    BY <1>1 DEF Asked, Right!Asked, Twins, TwinWords, Word

\* Whether a user may return a pointer does not depend on the numbering.
LEMMA MayReturnTwin ==
  ASSUME User, NEW p, NEW q, TwinWords(p, q)
  PROVE  Right!MayReturn(q) <=> MayReturn(p)
  <1>1. ~mode.kernel /\ ~r_mode.kernel /\ SamePage(p.page, q.page)
    BY DEF User, PagesTwin, TwinWords
  <1> QED
    BY <1>1, SamePages DEF MayReturn, Right!MayReturn

\* A callee returns the same bytes.
LEMMA PartTwins ==
  ASSUME NEW c \in Callees, NEW p, NEW q, TwinWords(p, q),
         [Lent(c, p) EXCEPT !.start = @ + c.cut, !.length = c.length] \in Word
  PROVE  /\ Right!Lent(c, q).length = Lent(c, p).length
         /\ TwinWords([Lent(c, p) EXCEPT !.start = @ + c.cut, !.length = c.length],
                      [Right!Lent(c, q) EXCEPT !.start = @ + c.cut, !.length = c.length])
  <1> DEFINE l == Lent(c, p)
             m == Right!Lent(c, q)
  <1>1. TwinWords(l, m)
    <2>1. /\ SamePage(CalleePage, RightCalleePage) /\ SamePage(PinnedPage, RightPinnedPage)
          /\ CalleeSize \in U32s /\ KernelStipend \in U32s
          /\ Right!Zero = Zero /\ Zero \in Word
      BY NamedPages, Constants, RightWords, Zeros
    <2>2. /\ CalleePage \in U32s /\ RightCalleePage \in U32s
          /\ PinnedPage \in U32s /\ RightPinnedPage \in U32s
      BY <2>1, SamePages
    <2>3. CASE c.from = "own"
      <3>1. /\ l = [Zero EXCEPT !.page = CalleePage, !.length = CalleeSize]
            /\ m = [Zero EXCEPT !.page = RightCalleePage, !.length = CalleeSize]
        BY <2>1, <2>3 DEF Lent, Right!Lent
      <3> HIDE DEF l, m
      <3> QED
        BY <2>1, <2>2, <3>1 DEF TwinWords, Word
    <2>4. CASE c.from = "code"
      <3>1. /\ l = [Zero EXCEPT !.page = PinnedPage, !.length = KernelStipend]
            /\ m = [Zero EXCEPT !.page = RightPinnedPage, !.length = KernelStipend]
        BY <2>1, <2>4 DEF Lent, Right!Lent
      <3> HIDE DEF l, m
      <3> QED
        BY <2>1, <2>2, <3>1 DEF TwinWords, Word
    <2>5. CASE c.from = "calldata"
      BY <2>5 DEF Lent, Right!Lent
    <2> QED
      BY <2>3, <2>4, <2>5, CalleeFields
  <1> HIDE DEF l, m
  <1>2. [l EXCEPT !.start = @ + c.cut, !.length = c.length] \in Word
    BY DEF l
  <1>3. /\ l \in Word /\ m \in Word /\ m.start = l.start /\ m.length = l.length
        /\ m.offset = l.offset /\ m.high = l.high /\ SamePage(l.page, m.page)
    BY <1>1 DEF TwinWords
  <1>4. l.start + c.cut \in U32s /\ c.length \in U32s
    BY <1>2, <1>3, CalleeFields DEF Word
  <1>5. TwinWords([l EXCEPT !.start = @ + c.cut, !.length = c.length],
                  [m EXCEPT !.start = @ + c.cut, !.length = c.length])
    BY <1>3, <1>4 DEF TwinWords, Word
  <1> QED
    BY <1>3, <1>5 DEF l, m

\* Both callees get the same calldata and gas, and return alike.
LEMMA FarCallTwin ==
  ASSUME User, NEW i \in Instrs, NEW c \in Callees, FarCall(i, c), Right!FarCall(i, c)
  PROVE  NewPagesTwin
  <1> DEFINE abi == Read(i.in1)
             other == Right!Read(i.in1)
             r == GetCalldata(abi, Paid(i), c.failed)
             t == Right!GetCalldata(other, Paid(i), c.failed)
             part(l) == [l EXCEPT !.start = @ + c.cut, !.length = c.length]
             ended(w) == [n \in Registers |->
                            IF n = 1 /\ ~c.clears THEN Tagged(w) ELSE Empty]
             value == << Asked(abi), GetRegister(i.in2) >>
  <1>1. Twins(abi, other) /\ Good(heap_size, abi) /\ IInv
    BY ReadTwins, ReadGood, Fields DEF User
  <1>2. /\ \/ c.ends = "panic" /\ registers' = ended(Zero)
           \/ \E p \in r.pointer :
                /\ c.ends # "panic" /\ c.cut + c.length <= Lent(c, p).length
                /\ registers' = ended(part(Lent(c, p)))
        /\ flags' = (IF c.ends = "panic" THEN {"lt"} ELSE {})
        /\ pc' = (IF c.ends = "ok" THEN pc + 1 ELSE Target(i.imm))
        /\ gas' = r.gas - c.spent /\ heap_size' = r.sizes
        /\ seen' = Seen("call", 0, 0, 0, value)
        /\ UNCHANGED << stack, sp, mode, status >> /\ AtCode /\ Pays(i)
    BY DEF FarCall, Runs
  <1>3. Right!Asked(other) = Asked(abi)
    <2> HIDE DEF abi, other
    <2> QED
      BY <1>1, AskedTwin
  <1>4. /\ \/ c.ends = "panic" /\ r_registers' = ended(Zero)
           \/ \E q \in t.pointer :
                /\ c.ends # "panic"
                /\ r_registers' = ended(part(Right!Lent(c, q)))
        /\ r_flags' = (IF c.ends = "panic" THEN {"lt"} ELSE {})
        /\ r_pc' = (IF c.ends = "ok" THEN r_pc + 1 ELSE Target(i.imm))
        /\ r_gas' = t.gas - c.spent /\ r_heap_size' = t.sizes
        /\ r_seen' = Seen("call", 0, 0, 0, value)
        /\ UNCHANGED << r_stack, r_sp, r_mode, r_status >>
    BY <1>3, RunsTwin, GetTwin, RightWords DEF Right!FarCall
  <1>5. SameCalldata(r, t)
    <2>1. Paid(i) \in U32s
      BY <1>1, <1>2, Running
    <2> HIDE DEF abi, other
    <2> QED
      BY <1>1, <2>1, GetCalldataTwin
  <1>6. \A p \in r.pointer : p \in Word /\ Covered(r.sizes, p) /\ r.sizes \in [Heaps -> U32s]
    <2>1. Paid(i) \in U32s
      BY <1>1, <1>2, Running
    <2> HIDE DEF abi
    <2> QED
      BY <1>1, <2>1, GetCalldataGood DEF Grown
  <1> HIDE DEF abi, other, r, t, value
  <1>7. \A w, v : TwinWords(w, v) => CellsTwin(ended(w), ended(v), Registers)
    <2>1. ASSUME NEW w, NEW v, TwinWords(w, v)
          PROVE  Twins(Tagged(w), Tagged(v)) /\ Twins(Empty, Empty)
      BY <2>1, TaggedTwins, PlainTwins, Zeros
    <2> QED
      BY <2>1 DEF CellsTwin, Twins
  <1>8. CellsTwin(registers', r_registers', Registers)
    <2>1. CASE c.ends = "panic"
      <3>1. TwinWords(Zero, Zero)
        BY Zeros, NamedPages DEF TwinWords, Zero, Small
      <3> HIDE DEF ended
      <3> QED
        BY <1>2, <1>4, <1>7, <2>1, <3>1
    <2>2. CASE c.ends # "panic"
      <3>1. PICK p \in r.pointer : /\ c.cut + c.length <= Lent(c, p).length
                                   /\ registers' = ended(part(Lent(c, p)))
        BY <1>2, <2>2
      <3>2. PICK q \in t.pointer : r_registers' = ended(part(Right!Lent(c, q)))
        BY <1>4, <2>2
      <3>3. TwinWords(p, q)
        BY <1>5 DEF SameCalldata
      <3>4. part(Lent(c, p)) \in Word
        <4>1. Lent(c, p) \in Word /\ Covered(r.sizes, Lent(c, p))
          BY <1>6, LentCovered
        <4> QED
          BY <1>6, <3>1, <4>1, PartCovered
      <3>5. TwinWords(part(Lent(c, p)), part(Right!Lent(c, q)))
        BY <3>3, <3>4, PartTwins
      <3> HIDE DEF ended, part
      <3> QED
        BY <1>7, <3>1, <3>2, <3>5
    <2> QED
      BY <2>1, <2>2
  <1>9. SeenTwin(seen', r_seen')
    BY <1>2, <1>4, SameSeen, NamedPages
  <1>10. /\ r_sp' = sp' /\ r_flags' = flags' /\ r_gas' = gas' /\ r_heap_size' = heap_size'
         /\ r_pc' = pc' /\ r_mode' = mode' /\ r_status' = status'
         /\ CellsTwin(stack', r_stack', Slots)
    BY <1>2, <1>4, <1>5 DEF SameCalldata, User, PagesTwin
  <1> QED
    BY <1>8, <1>9, <1>10 DEF NewPagesTwin

\* Both frames return, or panic.
LEMMA RetTwin ==
  ASSUME User, NEW i \in Instrs, Ret(i), Right!Ret(i)
  PROVE  NewPagesTwin
  <1> DEFINE abi == Read(i.in1)
             other == Right!Read(i.in1)
             r == GetCalldata(abi, Paid(i), i.op = "panic")
             t == Right!GetCalldata(other, Paid(i), i.op = "panic")
             accepted == {p \in r.pointer : MayReturn(p) /\ i.op # "panic"}
             others == {p \in t.pointer : Right!MayReturn(p) /\ i.op # "panic"}
             value == << Asked(abi) >>
  <1>1. Twins(abi, other) /\ Good(heap_size, abi) /\ IInv
    BY ReadTwins, ReadGood, Fields DEF User
  <1>2. /\ gas' = r.gas /\ heap_size' = r.sizes
        /\ \/ /\ accepted = {} /\ status' = "panicked"
              /\ seen' = Seen("call", 0, 0, 0, value)
           \/ \E p \in accepted :
                /\ status' = Ends(i.op)
                /\ seen' = Seen("call", p.page, p.start, p.start + p.length, value)
        /\ UNCHANGED << operands, flags, pc, mode >> /\ AtCode /\ Pays(i)
    BY DEF Ret, Runs
  <1>3. Right!Asked(other) = Asked(abi) /\ Right!Ends(i.op) = Ends(i.op)
    <2> HIDE DEF abi, other
    <2> QED
      BY <1>1, AskedTwin DEF Right!Ends, Ends
  <1>4. /\ r_gas' = t.gas /\ r_heap_size' = t.sizes
        /\ \/ /\ others = {} /\ r_status' = "panicked"
              /\ r_seen' = Seen("call", 0, 0, 0, value)
           \/ \E q \in others :
                /\ r_status' = Ends(i.op)
                /\ r_seen' = Seen("call", q.page, q.start, q.start + q.length, value)
        /\ UNCHANGED << Right!operands, r_flags, r_pc, r_mode >>
    BY <1>3, RunsTwin, RightWords DEF Right!Ret
  <1>5. SameCalldata(r, t)
    <2>1. Paid(i) \in U32s
      BY <1>1, <1>2, Running
    <2> HIDE DEF abi, other
    <2> QED
      BY <1>1, <2>1, GetCalldataTwin
  <1> HIDE DEF abi, other, r, t, value
  <1>6. /\ accepted = {} <=> others = {}
        /\ \A p \in accepted : \A q \in others : TwinWords(p, q)
    BY <1>5, MayReturnTwin DEF SameCalldata
  <1> HIDE DEF accepted, others
  <1>7. r_status' = status' /\ SeenTwin(seen', r_seen')
    <2>1. CASE accepted = {}
      BY <1>2, <1>4, <1>6, <2>1, SameSeen, NamedPages
    <2>2. CASE accepted # {}
      <3>1. PICK p \in accepted :
              /\ status' = Ends(i.op)
              /\ seen' = Seen("call", p.page, p.start, p.start + p.length, value)
        BY <1>2, <2>2
      <3>2. PICK q \in others :
              /\ r_status' = Ends(i.op)
              /\ r_seen' = Seen("call", q.page, q.start, q.start + q.length, value)
        BY <1>4, <1>6, <2>2
      <3>3. p.start = q.start /\ p.length = q.length /\ SamePage(p.page, q.page)
        BY <1>6 DEF TwinWords
      <3> QED
        BY <3>1, <3>2, <3>3, SameSeen
    <2> QED
      BY <2>1, <2>2
  <1>8. OperandsTwin
    BY <1>2, <1>4, KeptTwins
  <1> QED
    BY <1>2, <1>4, <1>5, <1>7, <1>8
    DEF SameCalldata, User, PagesTwin, NewPagesTwin, OperandsTwin

-----------------------------------------------------------------------------
(* The two frames *)

\* Both frames do the same with an instruction.
LEMMA ComputesTwin ==
  ASSUME User, NEW i \in Instrs, Computes(i), Right!Computes(i)
  PROVE  NewPagesTwin
  <1>1. /\ Right!AtCode = AtCode /\ Right!Pays(i) = Pays(i)
        /\ Right!Satisfied(i.predicate) = Satisfied(i.predicate)
        /\ Right!Paid(i) = Paid(i) /\ \A g, n : Right!Burn(g, n) = Burn(g, n)
    BY RunsTwin
  <1>2. CASE ~Pays(i)
    <2>1. Panics(Burn(gas, i.cost))
      BY <1>2 DEF Computes, FreePanic, Skip, Binop, PtrOp, Store, StoreStatic, Jump, Nop,
         ContextChange, Log, Ret, Runs
    <2>2. Right!Panics(Burn(gas, i.cost))
      <3>1. r_gas = gas
        BY DEF User, PagesTwin
      <3> QED
        BY <1>1, <1>2, <3>1 DEF Right!Computes, Right!FreePanic, Right!Skip, Right!Binop,
           Right!PtrOp, Right!Store, Right!StoreStatic, Right!Jump, Right!Nop,
         Right!ContextChange, Right!Log, Right!Ret, Right!Runs
    <2> QED
      BY <2>1, <2>2, PanicsTwin
  <1>3. CASE Pays(i) /\ ~Satisfied(i.predicate)
    <2>1. Continues(Paid(i)) /\ seen' = Nothing /\ UNCHANGED << operands, flags, heap_size >>
      BY <1>3 DEF Computes, FreePanic, Skip, Binop, PtrOp, Store, StoreStatic, Jump, Nop,
         ContextChange, Log, Ret, Runs
    <2>2. /\ Right!Continues(Paid(i)) /\ r_seen' = Nothing
          /\ UNCHANGED << Right!operands, r_flags, r_heap_size >>
      BY <1>1, <1>3, RightWords DEF Right!Computes, Right!FreePanic, Right!Skip, Right!Binop,
         Right!PtrOp, Right!Store, Right!StoreStatic, Right!Jump, Right!Nop,
         Right!ContextChange, Right!Log, Right!Ret, Right!Runs
    <2>3. OperandsTwin /\ r_flags' = flags' /\ r_heap_size' = heap_size'
      BY <2>1, <2>2, KeptTwins DEF User, PagesTwin
    <2> QED
      BY <2>1, <2>2, <2>3, ContinuesTwin, NothingTwin
  <1>4. CASE Pays(i) /\ Satisfied(i.predicate)
    <2>1. \/ Binop(i) /\ i.op \in BinopOps
          \/ PtrOp(i) /\ i.op \in PtrOps
          \/ Store(i) /\ i.op \in {"heap.write", "aux.write"}
          \/ StoreStatic(i) /\ i.op = "static.write"
          \/ Jump(i) /\ i.op = "jump"
          \/ Nop(i) /\ i.op = "nop"
          \/ ContextChange(i) /\ i.op \in ContextChanges
          \/ Log(i) /\ i.op \in Logs
          \/ Ret(i) /\ i.op \in {"ret", "revert", "panic"}
      <3>1. ~FreePanic(i)
        BY <1>4 DEF FreePanic
      <3>2. ~Skip(i)
        BY <1>4 DEF Skip
      <3>3. Binop(i) => i.op \in BinopOps
        BY DEF Binop, Runs
      <3>4. PtrOp(i) => i.op \in PtrOps
        BY DEF PtrOp, Runs
      <3>5. Store(i) => i.op \in {"heap.write", "aux.write"}
        BY DEF Store, Runs
      <3>6. Jump(i) => i.op = "jump"
        BY DEF Jump, Runs
      <3>7. Nop(i) => i.op = "nop"
        BY DEF Nop, Runs
      <3>8. Ret(i) => i.op \in {"ret", "revert", "panic"}
        BY DEF Ret, Runs
      <3>9. StoreStatic(i) => i.op = "static.write"
        BY DEF StoreStatic, Runs
      <3>10. ContextChange(i) => i.op \in ContextChanges
        BY DEF ContextChange, Runs
      <3>11. Log(i) => i.op \in Logs
        BY DEF Log, Runs
      <3> QED
        BY <3>1, <3>2, <3>3, <3>4, <3>5, <3>6, <3>7, <3>8, <3>9, <3>10, <3>11 DEF Computes
    <2>2. \/ Right!Binop(i) /\ i.op \in BinopOps
          \/ Right!PtrOp(i) /\ i.op \in PtrOps
          \/ Right!Store(i) /\ i.op \in {"heap.write", "aux.write"}
          \/ Right!StoreStatic(i) /\ i.op = "static.write"
          \/ Right!Jump(i) /\ i.op = "jump"
          \/ Right!Nop(i) /\ i.op = "nop"
          \/ Right!ContextChange(i) /\ i.op \in ContextChanges
          \/ Right!Log(i) /\ i.op \in Logs
          \/ Right!Ret(i) /\ i.op \in {"ret", "revert", "panic"}
      <3>0. /\ Right!BinopOps = BinopOps /\ Right!PtrOps = PtrOps
            /\ Right!ContextChanges = ContextChanges /\ Right!Logs = Logs
        BY DEF Right!BinopOps, BinopOps, Right!PtrOps, PtrOps, Right!ContextChanges,
           ContextChanges, Right!Logs, Logs
      <3>1. ~Right!FreePanic(i)
        BY <1>1, <1>4 DEF Right!FreePanic
      <3>2. ~Right!Skip(i)
        BY <1>1, <1>4 DEF Right!Skip
      <3>3. Right!Binop(i) => i.op \in BinopOps
        BY <3>0 DEF Right!Binop, Right!Runs
      <3>4. Right!PtrOp(i) => i.op \in PtrOps
        BY <3>0 DEF Right!PtrOp, Right!Runs
      <3>5. Right!Store(i) => i.op \in {"heap.write", "aux.write"}
        BY DEF Right!Store, Right!Runs
      <3>6. Right!Jump(i) => i.op = "jump"
        BY DEF Right!Jump, Right!Runs
      <3>7. Right!Nop(i) => i.op = "nop"
        BY DEF Right!Nop, Right!Runs
      <3>8. Right!Ret(i) => i.op \in {"ret", "revert", "panic"}
        BY DEF Right!Ret, Right!Runs
      <3>9. Right!StoreStatic(i) => i.op = "static.write"
        BY DEF Right!StoreStatic, Right!Runs
      <3>10. Right!ContextChange(i) => i.op \in ContextChanges
        BY <3>0 DEF Right!ContextChange, Right!Runs
      <3>11. Right!Log(i) => i.op \in Logs
        BY <3>0 DEF Right!Log, Right!Runs
      <3> QED
        BY <3>1, <3>2, <3>3, <3>4, <3>5, <3>6, <3>7, <3>8, <3>9, <3>10, <3>11 DEF Right!Computes
    <2>3. \/ Binop(i) /\ Right!Binop(i)
          \/ PtrOp(i) /\ Right!PtrOp(i)
          \/ Store(i) /\ Right!Store(i)
          \/ StoreStatic(i) /\ Right!StoreStatic(i)
          \/ Jump(i) /\ Right!Jump(i)
          \/ Nop(i) /\ Right!Nop(i)
          \/ ContextChange(i) /\ Right!ContextChange(i)
          \/ Log(i) /\ Right!Log(i)
          \/ Ret(i) /\ Right!Ret(i)
      BY <2>1, <2>2 DEF BinopOps, PtrOps, ContextChanges, Logs
    <2> QED
      BY <2>3, BinopTwin, PtrOpTwin, StoreTwin, StoreStaticTwin, JumpTwin,
         NopTwin, LogTwin, RetTwin
  <1> QED
    BY <1>2, <1>3, <1>4

\* Both frames load, or ask for their context, alike.
LEMMA ReadsTwin ==
  ASSUME User, NEW i \in Instrs, NEW w \in Words, Reads(i, w), Right!Reads(i, w)
  PROVE  NewPagesTwin
  <1>1. \/ Load(i, w) /\ i.op \in {"heap.read", "aux.read"}
        \/ LoadStatic(i, w) /\ i.op = "static.read"
        \/ LoadPointer(i, w) /\ i.op = "ptr.read"
        \/ Context(i, w) /\ i.op \in ContextOps
    BY DEF Reads, Load, LoadStatic, LoadPointer, Context, Runs
  <1>2. \/ Right!Load(i, w) /\ i.op \in {"heap.read", "aux.read"}
        \/ Right!LoadStatic(i, w) /\ i.op = "static.read"
        \/ Right!LoadPointer(i, w) /\ i.op = "ptr.read"
        \/ Right!Context(i, w) /\ i.op \in ContextOps
    BY DEF Right!Reads, Right!Load, Right!LoadStatic, Right!LoadPointer, Right!Context,
       Right!Runs, Right!ContextOps, ContextOps
  <1>3. \/ Load(i, w) /\ Right!Load(i, w)
        \/ LoadStatic(i, w) /\ Right!LoadStatic(i, w)
        \/ LoadPointer(i, w) /\ Right!LoadPointer(i, w)
        \/ Context(i, w) /\ Right!Context(i, w)
    BY <1>1, <1>2 DEF ContextOps
  <1> QED
    BY <1>3, LoadTwin, LoadStaticTwin, LoadPointerTwin, ContextTwin

\* No step changes the mode of the frame.
LEMMA ModeStays ==
  ASSUME [Next]_vars
  PROVE  mode' = mode
  <1>1. CASE InvalidInstruction
    BY <1>1 DEF InvalidInstruction, Panics
  <1>2. ASSUME NEW i \in Instrs, Computes(i) PROVE mode' = mode
    <2>1. FreePanic(i) \/ Skip(i) \/ Nop(i) => mode' = mode
      BY DEF FreePanic, Skip, Nop, Panics, Continues
    <2>2. Binop(i) => mode' = mode
      BY DEF Binop, Continues
    <2>3. PtrOp(i) => mode' = mode
      BY DEF PtrOp, Panics, Continues
    <2>4. Store(i) \/ StoreStatic(i) => mode' = mode
      BY DEF Store, StoreStatic, Panics, Continues
    <2>5. Jump(i) \/ Ret(i) => mode' = mode
      BY DEF Jump, Ret
    <2>6. ContextChange(i) \/ Log(i) => mode' = mode
      BY DEF ContextChange, Log, Continues
    <2> QED
      BY <1>2, <2>1, <2>2, <2>3, <2>4, <2>5, <2>6 DEF Computes
  <1>3. ASSUME NEW i \in Instrs, NEW w \in Words, Reads(i, w) PROVE mode' = mode
    <2>1. Load(i, w) \/ LoadStatic(i, w) => mode' = mode
      BY DEF Load, LoadStatic, Panics, Continues
    <2>2. LoadPointer(i, w) => mode' = mode
      BY DEF LoadPointer, Panics, Continues
    <2>3. Context(i, w) => mode' = mode
      BY DEF Context, Continues
    <2> QED
      BY <1>3, <2>1, <2>2, <2>3 DEF Reads
  <1>4. ASSUME NEW i \in Instrs, NEW w \in Words, NEW refund \in 0..i.cost,
               StorageAccess(i, w, refund)
        PROVE  mode' = mode
    BY <1>4 DEF StorageAccess, Continues
  <1>5. ASSUME NEW i \in Instrs, PrecompileCall(i) PROVE mode' = mode
    BY <1>5 DEF PrecompileCall, Panics, Continues
  <1>6. ASSUME NEW i \in Instrs, NEW valid, NEW fresh, NEW pinned,
               Decommit(i, valid, fresh, pinned)
        PROVE  mode' = mode
    BY <1>6 DEF Decommit, Panics, Continues
  <1>7. ASSUME NEW i \in Instrs, NEW c \in Callees, FarCall(i, c) PROVE mode' = mode
    BY <1>7 DEF FarCall
  <1>8. CASE UNCHANGED vars
    BY <1>8 DEF vars
  <1> QED
    BY <1>1, <1>2, <1>3, <1>4, <1>5, <1>6, <1>7, <1>8 DEF Next

\* Every step of both keeps the frames twins.
LEMMA NextTwin ==
  ASSUME IInv, PagesInv, [NextBoth]_<< vars, rvars >>
  PROVE  [Next]_vars /\ PagesInv'
  <1>1. [Next]_vars
    BY Zenon DEF NextBoth, Next
  <1>2. CASE mode.kernel
    BY <1>1, <1>2, ModeStays DEF PagesInv
  <1>3. CASE ~mode.kernel
    <2>1. User /\ \A step : Follows(step) <=> step
      BY <1>3 DEF User, PagesInv, Follows
    <2>2. CASE UNCHANGED << vars, rvars >>
      <3>1. NewPagesTwin
        BY <2>1, <2>2 DEF User, PagesTwin, NewPagesTwin, vars, rvars
      <3> QED
        BY <1>1, <3>1, NewPagesTwinIs DEF PagesInv
    <2>3. ASSUME InvalidInstruction, Right!InvalidInstruction
          PROVE  NewPagesTwin
      BY <2>1, <2>3, PanicsTwin DEF InvalidInstruction, Right!InvalidInstruction
    <2>4. ASSUME NEW i \in Instrs, NEW valid, NEW fresh, NEW pinned,
                 PrecompileCall(i) \/ Decommit(i, valid, fresh, pinned)
          PROVE  FALSE
      BY <1>3, <2>4, Fields DEF PrecompileCall, Decommit, Runs, Pays
    <2>5. CASE NextBoth
      <3>1. NewPagesTwin
        BY <1>3, <2>1, <2>3, <2>4, <2>5, ComputesTwin, ReadsTwin, StorageAccessTwin, FarCallTwin
        DEF NextBoth, Follows
      <3> QED
        BY <1>1, <3>1, NewPagesTwinIs DEF PagesInv
    <2> QED
      BY <2>2, <2>5
  <1> QED
    BY <1>1, <1>2, <1>3

\* The frames start as twins.
LEMMA InitTwin ==
  ASSUME InitBoth
  PROVE  IInv /\ PagesInv
  <1>1. IInv
    BY InitGood DEF InitBoth
  <1>2. /\ stack = [s \in Slots |-> Empty] /\ r_stack = [s \in Slots |-> Empty]
        /\ r_sp = sp /\ r_flags = flags /\ r_gas = gas /\ r_heap_size = heap_size
        /\ r_pc = pc /\ r_mode = mode /\ r_status = status
        /\ seen = Nothing /\ r_seen = Nothing
    BY RightWords DEF InitBoth, Init, Right!Init
  <1> DEFINE calldata(page) == [Zero EXCEPT !.page = page, !.start = CalldataStart,
                                            !.length = CalldataLength]
  <1>3. PICK w \in Words :
          registers = [r \in Registers |->
            IF r = 1 THEN Tagged(calldata(CalldataPage))
            ELSE IF r > 2 THEN Plain(w) ELSE Empty]
    BY DEF InitBoth, Init
  <1>4. PICK v \in Words :
          r_registers = [r \in Registers |->
            IF r = 1 THEN Tagged(calldata(RightCalldataPage))
            ELSE IF r > 2 THEN Plain(v) ELSE Empty]
    BY RightWords DEF InitBoth, Right!Init
  <1>5. \A r \in Registers : r = 1 \/ r_registers[r] = registers[r]
    BY DEF InitBoth
  <1>6. TwinWords(calldata(CalldataPage), calldata(RightCalldataPage))
    <2>1. /\ SamePage(CalldataPage, RightCalldataPage) /\ CalldataStart \in U32s
          /\ CalldataLength \in U32s /\ Zero \in Word
      BY NamedPages, Constants, Zeros
    <2>2. CalldataPage \in U32s /\ RightCalldataPage \in U32s
      BY <2>1, SamePages
    <2> QED
      BY <2>1, <2>2 DEF TwinWords, Word
  <1> HIDE DEF calldata
  <1>7. CellsTwin(registers, r_registers, Registers)
    <2>1. /\ Twins(Tagged(calldata(CalldataPage)), Tagged(calldata(RightCalldataPage)))
          /\ \A u \in Words : Twins(Plain(u), Plain(u))
          /\ Twins(Empty, Empty)
      BY <1>6, TaggedTwins, PlainTwins, Inputs, Zeros
    <2>2. /\ \A u \in Words : Plain(u) \in Cell
          /\ Empty \in Cell /\ Tagged(calldata(CalldataPage)) \in Cell
          /\ Tagged(calldata(RightCalldataPage)) \in Cell
      BY <2>1 DEF Twins
    <2>3. registers \in [Registers -> Cell] /\ r_registers \in [Registers -> Cell]
      BY <1>3, <1>4, <2>2
    <2>4. ASSUME NEW r \in Registers PROVE Twins(registers[r], r_registers[r])
      <3>1. CASE r = 1
        BY <1>3, <1>4, <2>1, <3>1
      <3>2. CASE r # 1
        BY <1>3, <1>5, <2>1, <3>2
      <3> QED
        BY <3>1, <3>2
    <2> QED
      BY <2>3, <2>4 DEF CellsTwin
  <1>8. CellsTwin(stack, r_stack, Slots)
    BY <1>2, PlainTwins, Zeros DEF CellsTwin
  <1> QED
    BY <1>1, <1>2, <1>7, <1>8, NothingTwin DEF PagesInv, PagesTwin

\* Twins look the same.
LEMMA TwinsShowNothing ==
  ASSUME PagesInv
  PROVE  PagesAreInvisible
  <1>1. SUFFICES ASSUME ~mode.kernel, PagesTwin
                 PROVE  /\ \A r \in Registers : Alike(registers[r], r_registers[r])
                        /\ \A s \in Slots : Alike(stack[s], r_stack[s])
                        /\ << sp, flags, gas, heap_size, pc, status >>
                             = << r_sp, r_flags, r_gas, r_heap_size, r_pc, r_status >>
                        /\ SamePage(seen.page, r_seen.page)
                        /\ seen = [r_seen EXCEPT !.page = seen.page]
    BY DEF PagesInv, PagesAreInvisible
  <1>2. \A r \in Registers : Alike(registers[r], r_registers[r])
    BY <1>1, TwinsAlike DEF PagesTwin, CellsTwin
  <1>3. \A s \in Slots : Alike(stack[s], r_stack[s])
    BY <1>1, TwinsAlike DEF PagesTwin, CellsTwin
  <1>4. SamePage(seen.page, r_seen.page) /\ seen = [r_seen EXCEPT !.page = seen.page]
    <2>1. PICK kind, from, to, sent, p, q :
            /\ seen = Seen(kind, p, from, to, sent) /\ r_seen = Seen(kind, q, from, to, sent)
            /\ SamePage(p, q)
      BY <1>1 DEF PagesTwin, SeenTwin
    <2> QED
      BY <2>1 DEF Seen
  <1> QED
    BY <1>1, <1>2, <1>3, <1>4 DEF PagesTwin

\* Which numbers the pages of a user's frame have shows in nothing that it
\* computes, sends or pays, whatever its program does: words that are computed
\* with are erased, and what looks at the page of a pointer (may it be used as an
\* address, may it be returned) comes out alike.
\* (addressing_modes.rs:22-35, pointer.rs:30-40, heap_access.rs:94-98, ret.rs:57-62)
THEOREM PagesStayInvisible == SpecBoth => []PagesAreInvisible
  <1> DEFINE Inv == IInv /\ SeenGood /\ PagesInv
  <1>1. InitBoth => Inv
    BY InitTwin, InitGood DEF InitBoth
  <1>2. Inv /\ [NextBoth]_<< vars, rvars >> => Inv'
    <2>1. ASSUME Inv, [NextBoth]_<< vars, rvars >>
          PROVE  IInv' /\ SeenGood' /\ PagesInv'
      <3>1. [Next]_vars /\ PagesInv'
        BY <2>1, NextTwin
      <3> QED
        BY <2>1, <3>1, NextGood
    <2> QED
      BY <2>1
  <1>3. Inv => PagesAreInvisible
    BY TwinsShowNothing
  <1> QED
    BY <1>1, <1>2, <1>3, PTL DEF SpecBoth
=============================================================================
