----------------------------- MODULE MCPageNames -----------------------------
(***************************************************************************)
(* An instance of PageNames for TLC: four registers, four stack slots,     *)
(* limbs of four bits, and a program of up to three instructions (more if  *)
(* it jumps back) out of those below.                                      *)
(***************************************************************************)
EXTENDS PageNames, Sequences

W(offset, page, start, length, high) ==
  [offset |-> offset, page |-> page, start |-> start, length |-> length,
   high |-> high]

\* The largest addresses overflow; the rest asks to forward a pointer, or is
\* only good to be computed with.
MCCodePage == [a \in 0..2 |->
  CASE a = 0 -> W(14, 0, 0, 0, 0) [] a = 1 -> W(0, 0, 0, 0, 1)
    [] a = 2 -> W(3, 1, 2, 1, 0)]

\* As an ABI register: a new pointer to a range that a user has to pay for, and
\* one that overflows
MCWords == {W(0, 0, 1, 2, 0), W(0, 0, 9, 8, 2)}

MCModes == {[kernel |-> FALSE, static |-> FALSE], [kernel |-> TRUE, static |-> TRUE]}

MCCallees ==
  {[ends |-> e, from |-> f, cut |-> 1, length |-> 1, failed |-> e = "panic",
    spent |-> 0, clears |-> FALSE] : e \in {"ok", "panic"},
    f \in {"own", "calldata", "code"}}
    \cup {[ends |-> "revert", from |-> "own", cut |-> 0, length |-> 2,
           failed |-> FALSE, spent |-> 1, clears |-> TRUE]}

Any == [any |-> {"always"}, none |-> {}]
IfLT == [any |-> {"lt"}, none |-> {}]
IfNotEQ == [any |-> {"always"}, none |-> {"eq"}]

Reg(r) == [mode |-> "register", reg |-> r, imm |-> 0]
Imm(n) == [mode |-> "immediate", reg |-> 0, imm |-> n]
Code(n) == [mode |-> "code", reg |-> 0, imm |-> n]
Stack(m, r, n) == [mode |-> m, reg |-> r, imm |-> n]
Push == Stack("advance", 0, 1)
Pop == Stack("advance", 0, 1)

\* An instruction that costs 4, runs always and in all modes
I(op, in1, in2, out, dst1) ==
  [op |-> op, cost |-> 4, kernel_only |-> FALSE, not_in_static |-> FALSE,
   predicate |-> Any, in1 |-> in1, in2 |-> in2, out |-> out, dst1 |-> dst1,
   swap |-> FALSE, set_flags |-> FALSE, increment |-> FALSE, imm |-> 1]
Inc(i) == [i EXCEPT !.increment = TRUE]
Swap(i) == [i EXCEPT !.swap = TRUE]
SetFlags(i) == [i EXCEPT !.set_flags = TRUE]
Kernel(i) == [i EXCEPT !.kernel_only = TRUE]
Dear(i) == [i EXCEPT !.cost = 7]
If(p, i) == [i EXCEPT !.predicate = p]

MCInstrs == {
  \* arithmetic on pointers, immediates, code and the stack
  I("add", Reg(1), 0, Reg(2), 0), SetFlags(I("sub", Imm(2), 1, Push, 3)),
  I("add", Code(0), 0, Reg(2), 0), I("or", Code(1), 1, Reg(2), 0),
  Dear(SetFlags(I("xor", Reg(1), 1, Reg(3), 0))),
  Dear(I("and", Code(2), 2, Stack("relative", 0, 1), 0)),
  Dear(I("shl", Reg(1), 3, Reg(2), 0)), Dear(I("ror", Reg(1), 1, Reg(2), 0)),
  Dear(I("rol", Reg(1), 3, Reg(2), 0)), Dear(I("shr", Pop, 3, Reg(2), 0)),
  Dear(SetFlags(I("mul", Imm(3), 1, Reg(2), 2))),
  Dear(SetFlags(I("div", Reg(1), 2, Reg(2), 3))),
  \* pointers
  Swap(I("ptr.add", Imm(3), 1, Push, 0)), I("ptr.add", Reg(1), 2, Reg(1), 0),
  I("ptr.sub", Reg(1), 3, Reg(1), 0), I("ptr.add", Reg(1), 1, Reg(3), 0),
  Swap(I("ptr.shrink", Imm(2), 1, Reg(1), 0)), Swap(I("ptr.pack", Code(1), 1, Reg(1), 0)),
  \* memory
  Inc(I("ptr.read", Reg(1), 0, Reg(3), 1)), Inc(I("heap.read", Reg(2), 0, Reg(3), 2)),
  Dear(I("heap.read", Reg(1), 0, Reg(3), 3)), Dear(Inc(I("aux.read", Imm(3), 0, Reg(3), 3))),
  Inc(I("heap.write", Reg(3), 1, Reg(3), 0)), Dear(I("aux.write", Imm(1), 2, Reg(0), 3)),
  Dear(Inc(I("static.read", Reg(2), 0, Reg(3), 3))),
  Dear(I("static.write", Imm(2), 1, Reg(0), 0)),
  \* control
  Dear(I("jump", Reg(1), 0, Reg(3), 0)), If(IfLT, I("jump", Imm(0), 0, Reg(3), 0)),
  If(IfNotEQ, Dear(I("nop", Stack("advance", 2, 1), 0, Stack("advance", 0, 2), 1))),
  I("far_call", Reg(1), 2, Reg(0), 0), I("far_call", Reg(3), 1, Reg(0), 0),
  I("ret", Reg(1), 0, Reg(0), 0), I("ret", Reg(2), 0, Reg(0), 0),
  I("revert", Reg(3), 0, Reg(0), 0), I("panic", Reg(3), 0, Reg(0), 0),
  \* the rest
  Dear(I("ergs_left", Reg(0), 0, Reg(2), 0)), Dear(I("sp", Reg(0), 0, Reg(3), 0)),
  Dear(I("meta", Reg(0), 0, Reg(2), 0)), Dear(I("address", Reg(0), 0, Reg(2), 0)),
  Dear(I("sload", Reg(1), 0, Reg(2), 0)),
  Dear([I("sstore", Reg(1), 2, Reg(0), 0) EXCEPT !.not_in_static = TRUE]),
  Dear(I("event", Reg(1), 2, Reg(0), 3)), Dear(I("set_context", Reg(1), 0, Reg(0), 3)),
  Dear(Kernel(I("increment_tx", Reg(0), 0, Reg(0), 1))),
  Kernel(I("decommit", Reg(2), 3, Reg(1), 0)),
  Dear(Kernel(I("precompile", Reg(1), 2, Reg(3), 0)))}
=============================================================================
