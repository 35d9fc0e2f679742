----------------------------- MODULE CallsProofs -----------------------------
(***************************************************************************)
(* Gas is conserved over the stack of calls, memory is paid for and the    *)
(* additional limit holds, for every program, price and limit.             *)
(***************************************************************************)
EXTENDS Calls, FoldProofs, SequenceTheorems

\* Frames are numbered along the stack, and each has its paid sizes.
Nested(cs, ss) ==
  /\ cs[1].kind = "far" /\ cs[1].frame = 1
  /\ \A i \in 2 .. Len(cs) :
       cs[i].frame = cs[i - 1].frame + (IF cs[i].kind = "far" THEN 1 ELSE 0)
  /\ Len(ss) = cs[Len(cs)].frame

\* Everything that holds of a stack of calls and its frames' sizes, whether it
\* is the machine's or the one in a snapshot.
GoodStack(cs, ss) ==
  /\ cs \in Seq(CallRecord) /\ cs # << >>
  /\ ss \in Seq(Sizes)
  /\ Nested(cs, ss)
  /\ Balances(cs)
  /\ KeepsShares(cs)
  /\ GrowthPaid(cs, ss)

\* The host's snapshot is as good as the stack it will replace.
HostOK ==
  /\ snapshot # << >> => GoodStack(snapshot[1].calls, snapshot[1].sizes)
  /\ Len(snapshot) <= 1
  /\ status \in {"running", "stopped"}
  /\ Len(limit) <= 1
  /\ answer.outcome \in {"none", "exceeded", "left"}
  /\ snapshots \in 0..MaxSnapshots

\* What the loop knows of the limit l when it has answered a: the calls never
\* have more than when it was set, and until it is exceeded the unspent gas is
\* at least the minimum, which is what the limit leaves of the unspent gas.
WithinLimit(cs, l, a) ==
  /\ l.gas_limit \in Nat /\ l.unspent \in Nat /\ l.started \in Nat
  /\ l.minimum_gas \in Nat /\ l.minimum_gas >= l.unspent - l.gas_limit
  /\ ContainedGas(cs) <= l.started
  /\ a # Exceeded => TotalUnspentGas(cs) >= l.minimum_gas
  /\ a.outcome = "left" => a.gas = TotalUnspentGas(cs) - l.minimum_gas

\* The inductive invariant
IInv ==
  /\ GoodStack(calls, sizes)
  /\ HostOK
  /\ limit # << >> => WithinLimit(calls, limit[1], answer)

\* d is c after paying something: only its gas, and what it was charged, moved.
Spends(c, d) ==
  /\ d \in CallRecord
  /\ d.kind = c.kind /\ d.frame = c.frame /\ d.given = c.given
  /\ d.gas + d.charged = c.gas + c.charged

\* ... and what it was charged covers the growth of its memory from s to t.
Pays(c, s, d, t) ==
  /\ c \in CallRecord /\ s \in Sizes
  /\ Spends(c, d) /\ t \in Sizes
  /\ d.charged >= c.charged
  /\ Memory(t) - Memory(s) <= d.charged - c.charged

\* rs is what became of the paid sizes ss: amount was paid for the innermost
\* frame, the frames around it are as they were and a new one is small.
PaidFor(ss, rs, amount) ==
  \A f \in 1 .. Len(rs) :
    /\ f < Len(ss) => rs[f] = ss[f]
    /\ f = Len(ss) => Memory(rs[f]) - Memory(ss[f]) <= amount
    /\ f > Len(ss) => Memory(rs[f]) <= 2 * Max(Stipends)

-----------------------------------------------------------------------------
(* Paying *)

\* Paying what there is, or getting back what was charged, moves gas.
LEMMA ChargeSpends ==
  ASSUME NEW c \in CallRecord, NEW amount \in Int,
         c.gas >= amount, c.charged + amount >= 0
  PROVE  Spends(c, Charge(c, amount))
<1> DEFINE d == Charge(c, amount)
<1>1. c.gas \in Nat /\ c.charged \in Nat
  BY DEF CallRecord
<1>2. d = [c EXCEPT !.gas = c.gas - amount, !.charged = c.charged + amount]
  BY DEF Charge
<1>3. c.gas - amount \in Nat /\ c.charged + amount \in Nat
  BY <1>1
<1>4. /\ d \in CallRecord
      /\ d.gas = c.gas - amount /\ d.charged = c.charged + amount
      /\ d.kind = c.kind /\ d.frame = c.frame /\ d.given = c.given
  BY <1>2, <1>3 DEF CallRecord
<1> QED
  BY <1>1, <1>4 DEF Spends

\* Paying twice is paying.
LEMMA SpendsTransitive ==
  ASSUME NEW c, NEW d, NEW e, Spends(c, d), Spends(d, e)
  PROVE  Spends(c, e)
BY DEF Spends

\* The program counter is not money.
LEMMA SpendsAtPc ==
  ASSUME NEW c \in CallRecord, NEW d, Spends(c, d), NEW pc \in PCs
  PROVE  Spends(c, [d EXCEPT !.pc = pc])
BY DEF Spends, CallRecord

\* Two sizes of 32 bits
LEMMA MemoryType ==
  ASSUME NEW s \in Sizes
  PROVE  Memory(s) \in Nat
BY GasAssumption DEF GasAssumption, Memory, Sizes, Heaps

\* What is not spent is not missing.
LEMMA PaysNothing ==
  ASSUME NEW c \in CallRecord, NEW s \in Sizes
  PROVE  Pays(c, s, c, s)
<1>1. c.charged \in Nat /\ Memory(s) \in Nat
  BY MemoryType DEF CallRecord
<1> QED
  BY <1>1 DEF Pays, Spends

\* A price is paid whole.
LEMMA ChargePays ==
  ASSUME NEW c \in CallRecord, NEW s \in Sizes, NEW amount \in Nat,
         c.gas >= amount
  PROVE  /\ Pays(c, s, Charge(c, amount), s)
         /\ Charge(c, amount).charged = c.charged + amount
<1>1. c.gas \in Nat /\ c.charged \in Nat /\ Memory(s) \in Nat
  BY MemoryType DEF CallRecord
<1>2. Spends(c, Charge(c, amount))
  BY <1>1, ChargeSpends
<1>3. Charge(c, amount).charged = c.charged + amount
  BY DEF Charge, CallRecord
<1> QED
  BY <1>1, <1>2, <1>3 DEF Pays

\* use_gas pays its amount, or burns all there is.
LEMMA UseGasPays ==
  ASSUME NEW c \in CallRecord, NEW s \in Sizes, NEW amount \in Nat
  PROVE  /\ Pays(c, s, UseGas(c, amount), s)
         /\ CanPay(c, amount) => UseGas(c, amount).charged = c.charged + amount
<1>1. c.gas \in Nat
  BY DEF CallRecord
<1> QED
  BY <1>1, ChargePays DEF UseGas, CanPay

\* Paying twice is paying both.
LEMMA PaysTransitive ==
  ASSUME NEW c, NEW s, NEW d, NEW t, NEW e, NEW u,
         Pays(c, s, d, t), Pays(d, t, e, u)
  PROVE  Pays(c, s, e, u)
<1>1. /\ c.charged \in Nat /\ d.charged \in Nat /\ e.charged \in Nat
      /\ Memory(s) \in Nat /\ Memory(t) \in Nat /\ Memory(u) \in Nat
  BY MemoryType DEF Pays, Spends, CallRecord
<1>2. Spends(c, e)
  BY SpendsTransitive DEF Pays
<1> QED
  BY <1>1, <1>2 DEF Pays

\* The program counter is not money.
LEMMA PaysAtPc ==
  ASSUME NEW c, NEW s, NEW d, NEW t, Pays(c, s, d, t), NEW pc \in PCs
  PROVE  Pays(c, s, [d EXCEPT !.pc = pc], t)
<1>1. Spends(c, [d EXCEPT !.pc = pc])
  BY SpendsAtPc DEF Pays
<1>2. [d EXCEPT !.pc = pc].charged = d.charged
  BY DEF Pays, Spends, CallRecord
<1> QED
  BY <1>1, <1>2 DEF Pays

\* grow_heap pays for the bytes it adds.
LEMMA GrowHeapPays ==
  ASSUME NEW c \in CallRecord, NEW s \in Sizes, NEW h \in Heaps,
         NEW bound \in 0..U32_MAX
  PROVE  Pays(c, s, GrowHeap(c, s, h, bound).call, GrowHeap(c, s, h, bound).sizes)
<1> USE GasAssumption DEF GasAssumption
<1> DEFINE to_pay == bound - s[h]
           d == UseGas(c, to_pay)
           t == [s EXCEPT ![h] = bound]
<1>1. s[h] \in 0..U32_MAX /\ to_pay \in Int
  BY DEF Sizes
<1>2. CASE to_pay < 0
  BY <1>1, <1>2, PaysNothing DEF GrowHeap
<1>3. CASE to_pay >= 0
  <2>1. /\ Pays(c, s, d, s)
        /\ CanPay(c, to_pay) => d.charged = c.charged + to_pay
    BY <1>1, <1>3, UseGasPays
  <2>2. t \in Sizes
    BY DEF Sizes
  <2>3. Memory(t) = Memory(s) + to_pay
    <3>1. s["heap"] \in Nat /\ s["aux_heap"] \in Nat /\ bound \in Nat
      BY DEF Sizes, Heaps
    <3>2. \/ /\ h = "heap" /\ t["heap"] = bound /\ t["aux_heap"] = s["aux_heap"]
          \/ /\ h = "aux_heap" /\ t["aux_heap"] = bound /\ t["heap"] = s["heap"]
      BY DEF Sizes, Heaps
    <3> QED
      BY <3>1, <3>2 DEF Memory
  <2>4. CASE CanPay(c, to_pay)
    <3>1. /\ GrowHeap(c, s, h, bound).call = d
          /\ GrowHeap(c, s, h, bound).sizes = t
      BY <1>3, <1>1, <2>4 DEF GrowHeap
    <3>2. c.charged \in Nat /\ Memory(s) \in Nat
      BY MemoryType DEF CallRecord
    <3> HIDE DEF d, t, to_pay
    <3>3. Pays(c, s, d, t)
      BY <1>1, <1>3, <2>1, <2>2, <2>3, <2>4, <3>2 DEF Pays
    <3> QED
      BY <3>1, <3>3
  <2>5. CASE ~CanPay(c, to_pay)
    BY <1>1, <1>3, <2>1, <2>5 DEF GrowHeap
  <2> QED
    BY <2>4, <2>5
<1> QED
  BY <1>1, <1>2, <1>3

\* get_calldata pays for the bytes it adds.
LEMMA GetCalldataPays ==
  ASSUME NEW c \in CallRecord, NEW s \in Sizes,
         NEW p \in Pointers \cup {NoPointer}, NEW failed \in BOOLEAN
  PROVE  Pays(c, s, GetCalldata(c, s, p, failed).call,
              GetCalldata(c, s, p, failed).sizes)
<1> USE GasAssumption DEF GasAssumption
<1> DEFINE bound == IF p.bound = Overflow THEN U32_MAX ELSE p.bound
           makes == p.target \in Heaps
                      /\ (p.bound = Overflow \/ (p.valid /\ ~failed))
<1>1. bound \in 0..U32_MAX
  <2>1. CASE p \in [target : {"forward"}, bound : {0}, valid : BOOLEAN]
    BY <2>1 DEF Overflow
  <2>2. CASE p \in [target : Heaps, bound : Bounds \cup {Overflow}, valid : BOOLEAN]
    <3>1. p.bound \in Bounds \cup {Overflow}
      BY <2>2
    <3>2. CASE p.bound = Overflow
      BY <3>2
    <3>3. CASE p.bound # Overflow
      <4>1. p.bound \in Bounds
        BY <3>1, <3>3
      <4>2. Bounds \subseteq 0..U32_MAX
        OBVIOUS
      <4> QED
        BY <3>3, <4>1, <4>2
    <3> QED
      BY <3>2, <3>3
  <2>3. CASE p = NoPointer
    BY <2>3 DEF NoPointer, Overflow
  <2> QED
    BY <2>1, <2>2, <2>3 DEF Pointers
<1>2. CASE makes
  <2>1. Pays(c, s, GrowHeap(c, s, p.target, bound).call,
             GrowHeap(c, s, p.target, bound).sizes)
    BY <1>1, <1>2, GrowHeapPays
  <2>2. /\ GetCalldata(c, s, p, failed).call = GrowHeap(c, s, p.target, bound).call
        /\ GetCalldata(c, s, p, failed).sizes = GrowHeap(c, s, p.target, bound).sizes
    BY <1>2 DEF GetCalldata, GrowHeap
  <2> QED
    BY <2>1, <2>2
<1>3. CASE ~makes
  BY <1>3, PaysNothing DEF GetCalldata
<1> QED
  BY <1>2, <1>3

-----------------------------------------------------------------------------
(* The stack *)

\* What is left of a stack without its top.
LEMMA Pop ==
  ASSUME NEW S, NEW s \in Seq(S), s # << >>
  PROVE  /\ Len(s) \in Nat \ {0}
         /\ SubSeq(s, 1, Len(s) - 1) \in Seq(S)
         /\ Len(SubSeq(s, 1, Len(s) - 1)) = Len(s) - 1
         /\ \A i \in 1 .. Len(s) - 1 : SubSeq(s, 1, Len(s) - 1)[i] = s[i]
<1>1. Len(s) \in Nat \ {0}
  BY EmptySeq
<1> DEFINE m == Len(s) - 1
           front == SubSeq(s, 1, m)
<1>2. \A i \in 1 .. m : s[i] \in S
  BY <1>1, ElementOfSeq
<1>3. m \in Nat
  BY <1>1
<1> HIDE DEF m
<1>4. /\ front \in Seq(S)
      /\ Len(front) = IF 1 <= m THEN m - 1 + 1 ELSE 0
      /\ \A i \in 1 .. m - 1 + 1 : front[i] = s[1 + i - 1]
  BY <1>2, <1>3, SubSeqProperties
<1> HIDE DEF front
<1>5. Len(front) = m /\ \A i \in 1 .. m : front[i] = s[i]
  BY <1>3, <1>4
<1> QED
  BY <1>1, <1>4, <1>5 DEF front, m

\* The elements of a good stack.
LEMMA GoodStackTypes ==
  ASSUME NEW cs, NEW ss, GoodStack(cs, ss)
  PROVE  /\ Len(cs) \in Nat \ {0} /\ DOMAIN cs = 1 .. Len(cs)
         /\ \A i \in 1 .. Len(cs) :
              /\ cs[i] \in CallRecord
              /\ cs[i].frame \in Nat \ {0} /\ cs[i].gas \in Nat
              /\ cs[i].given \in Nat /\ cs[i].charged \in Nat
<1>1. Len(cs) \in Nat \ {0} /\ DOMAIN cs = 1 .. Len(cs)
  BY EmptySeq, LenProperties DEF GoodStack
<1>2. \A i \in 1 .. Len(cs) : cs[i] \in CallRecord
  BY ElementOfSeq DEF GoodStack
<1> QED
  BY <1>1, <1>2 DEF CallRecord

\* What calls have left, and what they used up, is some natural amount, and the
\* unspent gas is part of what they have left.
LEMMA TotalsType ==
  ASSUME NEW cs \in Seq(CallRecord)
  PROVE  /\ ContainedGas(cs) \in Nat
         /\ \A f : ChargedTo(cs, f) \in Nat
         /\ cs # << >> => /\ TotalUnspentGas(cs) \in Nat
                          /\ TotalUnspentGas(cs) <= ContainedGas(cs)
<1> DEFINE n == Len(cs)
           w == [i \in 1 .. n |-> cs[i].gas]
<1>1. n \in Nat /\ DOMAIN cs = 1 .. n
  BY LenProperties
<1>2. \A i \in 1 .. n : /\ cs[i].gas \in Nat /\ cs[i].charged \in Nat
                        /\ cs[i].frame \in Nat
  <2>1. \A i \in 1 .. n : cs[i] \in CallRecord
    BY ElementOfSeq
  <2> QED
    BY <2>1 DEF CallRecord
<1>3. w \in [1 .. n -> Nat] /\ ContainedGas(cs) = SumFunction(w)
  BY <1>1, <1>2 DEF ContainedGas
<1>4. ContainedGas(cs) \in Nat
  BY <1>1, <1>3, TotalNat
<1>5. ASSUME NEW f PROVE ChargedTo(cs, f) \in Nat
  <2> DEFINE v == [i \in 1 .. n |-> IF cs[i].frame = f THEN cs[i].charged ELSE 0]
  <2>1. v \in [1 .. n -> Nat] /\ ChargedTo(cs, f) = SumFunction(v)
    BY <1>1, <1>2 DEF ChargedTo
  <2> QED
    BY <1>1, <2>1, TotalNat
<1>6. ASSUME cs # << >>
      PROVE  /\ TotalUnspentGas(cs) \in Nat
             /\ TotalUnspentGas(cs) <= ContainedGas(cs)
  <2> DEFINE f == cs[n].frame
             u == [i \in 1 .. n |-> IF cs[i].frame < f THEN cs[i].gas ELSE 0]
             v == [u EXCEPT ![n] = cs[n].gas]
  <2>1. n \in Nat \ {0} /\ n \in 1 .. n
    BY <1>1, <1>6, EmptySeq
  <2>2. u \in [1 .. n -> Nat] /\ u[n] = 0
    BY <1>2, <2>1
  <2>3. TotalUnspentGas(cs) = cs[n].gas + SumFunction(u)
    BY <1>1 DEF TotalUnspentGas
  <2>5. cs[n].gas \in Nat
    BY <1>2, <2>1
  <2>v. /\ v \in [1 .. n -> Nat] /\ v[n] = cs[n].gas
        /\ \A i \in 1 .. n : i # n => v[i] = u[i]
    BY <2>1, <2>2, <2>5
  <2>4. /\ v \in [1 .. n -> Nat] /\ v[n] = cs[n].gas
        /\ \A i \in 1 .. n - 1 : v[i] = u[i]
        /\ \A i \in 1 .. n : v[i] <= w[i]
    <3>1. \A i \in 1 .. n : u[i] <= w[i] /\ w[n] = cs[n].gas
      BY <1>2, <2>1
    <3> HIDE DEF u, v, w
    <3> QED
      BY <2>1, <2>5, <2>v, <3>1
  <2>i. w \in [1 .. n -> Int] /\ u \in [1 .. n -> Int] /\ v \in [1 .. n -> Int]
    BY <1>2, <2>2, <2>4
  <2> HIDE DEF u, v, w, n
  <2>6. SumFunction(v) = SumFunction(u) + (v[n] - u[n])
    BY <2>1, <2>i, <2>4, TotalLast
  <2>7. SumFunction(u) \in Nat
    BY <1>1, <2>2, TotalNat
  <2>8. SumFunction(v) <= SumFunction(w)
    BY <1>1, <2>i, <2>4, TotalSmaller
  <2> QED
    BY <1>3, <2>2, <2>3, <2>4, <2>5, <2>6, <2>7, <2>8
<1> QED
  BY <1>4, <1>5, <1>6

\* What the call on top has left or used up counts as such.
LEMMA TopTotals ==
  ASSUME NEW cs \in Seq(CallRecord), NEW ds \in Seq(CallRecord),
         cs # << >>, Len(ds) = Len(cs),
         \A i \in 1 .. Len(cs) - 1 : ds[i] = cs[i],
         ds[Len(cs)].frame = cs[Len(cs)].frame
  PROVE  /\ ContainedGas(ds)
              = ContainedGas(cs) + (ds[Len(cs)].gas - cs[Len(cs)].gas)
         /\ \A f : ChargedTo(ds, f) =
              ChargedTo(cs, f) + IF cs[Len(cs)].frame = f
                                 THEN ds[Len(cs)].charged - cs[Len(cs)].charged
                                 ELSE 0
<1> DEFINE n == Len(cs)
<1>1. n \in Nat \ {0} /\ DOMAIN cs = 1 .. n /\ DOMAIN ds = 1 .. n
  BY EmptySeq, LenProperties
<1>2. \A i \in 1 .. n : /\ cs[i].gas \in Nat /\ cs[i].charged \in Nat
                        /\ ds[i].gas \in Nat /\ ds[i].charged \in Nat
  <2>1. \A i \in 1 .. n : cs[i] \in CallRecord /\ ds[i] \in CallRecord
    BY ElementOfSeq
  <2> QED
    BY <2>1 DEF CallRecord
<1> HIDE DEF n
<1>3. /\ \A i \in 1 .. n - 1 : ds[i] = cs[i]
      /\ ds[n].frame = cs[n].frame /\ n \in 1 .. n
  BY <1>1 DEF n
<1>4. ContainedGas(ds) = ContainedGas(cs) + (ds[n].gas - cs[n].gas)
  <2> DEFINE w == [i \in 1 .. n |-> cs[i].gas]
             v == [i \in 1 .. n |-> ds[i].gas]
  <2>1. /\ w \in [1 .. n -> Int] /\ v \in [1 .. n -> Int]
        /\ \A i \in 1 .. n - 1 : v[i] = w[i]
        /\ w[n] = cs[n].gas /\ v[n] = ds[n].gas
    BY <1>1, <1>2, <1>3
  <2>2. ContainedGas(cs) = SumFunction(w) /\ ContainedGas(ds) = SumFunction(v)
    BY <1>1 DEF ContainedGas
  <2> HIDE DEF w, v
  <2>3. SumFunction(v) = SumFunction(w) + (v[n] - w[n])
    BY <1>1, <2>1, TotalLast
  <2> QED
    BY <2>1, <2>2, <2>3
<1>5. ASSUME NEW f
      PROVE  ChargedTo(ds, f) = ChargedTo(cs, f)
               + IF cs[n].frame = f THEN ds[n].charged - cs[n].charged ELSE 0
  <2> DEFINE w == [i \in 1 .. n |-> IF cs[i].frame = f THEN cs[i].charged ELSE 0]
             v == [i \in 1 .. n |-> IF ds[i].frame = f THEN ds[i].charged ELSE 0]
  <2>1. /\ w \in [1 .. n -> Int] /\ v \in [1 .. n -> Int]
        /\ \A i \in 1 .. n - 1 : v[i] = w[i]
        /\ w[n] = IF cs[n].frame = f THEN cs[n].charged ELSE 0
        /\ v[n] = IF cs[n].frame = f THEN ds[n].charged ELSE 0
    BY <1>1, <1>2, <1>3
  <2>2. ChargedTo(cs, f) = SumFunction(w) /\ ChargedTo(ds, f) = SumFunction(v)
    BY <1>1 DEF ChargedTo
  <2>3. ChargedTo(cs, f) \in Nat
    BY TotalsType
  <2> HIDE DEF w, v
  <2>4. SumFunction(v) = SumFunction(w) + (v[n] - w[n])
    BY <1>1, <2>1, TotalLast
  <2> QED
    BY <2>1, <2>2, <2>3, <2>4
<1> QED
  BY <1>4, <1>5 DEF n

\* One more call adds what it has left and what it used up.
LEMMA PushTotals ==
  ASSUME NEW cs \in Seq(CallRecord), NEW ds \in Seq(CallRecord),
         Len(ds) = Len(cs) + 1, \A i \in 1 .. Len(cs) : ds[i] = cs[i]
  PROVE  /\ ContainedGas(ds) = ContainedGas(cs) + ds[Len(ds)].gas
         /\ \A f : ChargedTo(ds, f) =
              ChargedTo(cs, f)
                + IF ds[Len(ds)].frame = f THEN ds[Len(ds)].charged ELSE 0
<1> DEFINE n == Len(cs)
           m == Len(ds)
<1>1. n \in Nat /\ DOMAIN cs = 1 .. n /\ DOMAIN ds = 1 .. m
  BY LenProperties
<1>2. /\ \A i \in 1 .. n : cs[i].gas \in Nat /\ cs[i].charged \in Nat
      /\ \A i \in 1 .. m : ds[i].gas \in Nat /\ ds[i].charged \in Nat
  <2>1. /\ \A i \in 1 .. n : cs[i] \in CallRecord
        /\ \A i \in 1 .. m : ds[i] \in CallRecord
    BY ElementOfSeq
  <2> QED
    BY <2>1 DEF CallRecord
<1>3. m = n + 1 /\ \A i \in 1 .. n : ds[i] = cs[i]
  OBVIOUS
<1> HIDE DEF n, m
<1>4. m \in 1 .. m
  BY <1>1, <1>3
<1>5. ContainedGas(ds) = ContainedGas(cs) + ds[m].gas
  <2> DEFINE w == [i \in 1 .. n |-> cs[i].gas]
             v == [i \in 1 .. m |-> ds[i].gas]
  <2>1. /\ w \in [1 .. n -> Int] /\ v \in [1 .. n + 1 -> Int]
        /\ \A i \in 1 .. n : v[i] = w[i]
        /\ v[n + 1] = ds[m].gas
    BY <1>1, <1>2, <1>3, <1>4
  <2>2. ContainedGas(cs) = SumFunction(w) /\ ContainedGas(ds) = SumFunction(v)
    BY <1>1 DEF ContainedGas
  <2> HIDE DEF w, v
  <2>3. SumFunction(v) = SumFunction(w) + v[n + 1]
    BY <1>1, <2>1, TotalMore
  <2> QED
    BY <2>1, <2>2, <2>3
<1>6. ASSUME NEW f
      PROVE  ChargedTo(ds, f)
               = ChargedTo(cs, f) + IF ds[m].frame = f THEN ds[m].charged ELSE 0
  <2> DEFINE w == [i \in 1 .. n |-> IF cs[i].frame = f THEN cs[i].charged ELSE 0]
             v == [i \in 1 .. m |-> IF ds[i].frame = f THEN ds[i].charged ELSE 0]
  <2>1. /\ w \in [1 .. n -> Int] /\ v \in [1 .. n + 1 -> Int]
        /\ \A i \in 1 .. n : v[i] = w[i]
        /\ v[n + 1] = IF ds[m].frame = f THEN ds[m].charged ELSE 0
    BY <1>1, <1>2, <1>3, <1>4
  <2>2. ChargedTo(cs, f) = SumFunction(w) /\ ChargedTo(ds, f) = SumFunction(v)
    BY <1>1 DEF ChargedTo
  <2> HIDE DEF w, v
  <2>3. SumFunction(v) = SumFunction(w) + v[n + 1]
    BY <1>1, <2>1, TotalMore
  <2> QED
    BY <2>1, <2>2, <2>3
<1> QED
  BY <1>5, <1>6 DEF n, m

\* The largest stipend is at least as large as each.
LEMMA LargestStipend ==
  /\ Max(Stipends) \in Nat
  /\ \A x \in Stipends : x <= Max(Stipends)
<1> USE GasAssumption DEF GasAssumption
<1> DEFINE Gaps == {U32_MAX - x : x \in Stipends}
<1>1. \A x \in Stipends : x \in Nat /\ x <= U32_MAX
  OBVIOUS
<1>m. U32_MAX \in Nat /\ Stipends # {}
  OBVIOUS
<1>2. Gaps \subseteq Nat /\ Gaps # {}
  <2>1. \A x \in Stipends : U32_MAX - x \in Nat
    BY <1>1, <1>m
  <2> QED
    BY <1>m, <2>1, Zenon
<1>3. PICK g \in Gaps : \A j \in Gaps : g <= j
  <2> HIDE DEF Gaps
  <2> QED
    BY <1>2, LeastNatural
<1>4. PICK x \in Stipends : g = U32_MAX - x
  BY <1>3
<1>5. ASSUME NEW y \in Stipends PROVE x >= y
  <2>1. g <= U32_MAX - y
    BY <1>3
  <2> QED
    BY <1>1, <1>m, <1>4, <2>1
<1>6. Max(Stipends) \in Stipends /\ \A y \in Stipends : Max(Stipends) >= y
  BY <1>4, <1>5 DEF Max
<1> QED
  BY <1>1, <1>6

\* Sizes stay paid for when the calls are charged what the growth costs.
LEMMA GrowthStaysPaid ==
  ASSUME NEW cs, NEW ss, GoodStack(cs, ss), NEW ds \in Seq(CallRecord),
         NEW rs \in Seq(Sizes), NEW amount \in Int, PaidFor(ss, rs, amount),
         \A f \in 1 .. Len(rs) : f <= Len(ss) =>
           ChargedTo(ds, f) >= ChargedTo(cs, f) + IF f = Len(ss) THEN amount ELSE 0
  PROVE  GrowthPaid(ds, rs)
<1> DEFINE K == 2 * Max(Stipends)
<1>1. K \in Nat
  BY LargestStipend
<1>2. Len(ss) \in Nat /\ Len(rs) \in Nat /\ DOMAIN rs = 1 .. Len(rs)
      /\ DOMAIN ss = 1 .. Len(ss)
  BY LenProperties DEF GoodStack
<1>3. /\ \A f \in 1 .. Len(rs) : Memory(rs[f]) \in Nat
      /\ \A f \in 1 .. Len(ss) : Memory(ss[f]) \in Nat
  BY ElementOfSeq, MemoryType DEF GoodStack
<1>4. \A f \in 1 .. Len(ss) : Memory(ss[f]) <= K + ChargedTo(cs, f)
  BY <1>2 DEF GoodStack, GrowthPaid
<1>5. /\ \A f : ChargedTo(ds, f) \in Nat
      /\ \A f : ChargedTo(cs, f) \in Nat
  BY TotalsType DEF GoodStack
<1> SUFFICES ASSUME NEW f \in 1 .. Len(rs)
             PROVE  Memory(rs[f]) <= K + ChargedTo(ds, f)
  BY <1>2 DEF GrowthPaid
<1> DEFINE m == Len(ss)
<1>n. Len(ss) \in Nat /\ Len(rs) \in Nat
  BY <1>2
<1>6. /\ f < m => rs[f] = ss[f]
      /\ f = m => Memory(rs[f]) - Memory(ss[f]) <= amount
      /\ f > m => Memory(rs[f]) <= K
  BY DEF PaidFor
<1>7. /\ f < m => ChargedTo(ds, f) >= ChargedTo(cs, f) + 0
      /\ f = m => ChargedTo(ds, f) >= ChargedTo(cs, f) + amount
  <2>1. f <= m => ChargedTo(ds, f) >= ChargedTo(cs, f) + IF f = m THEN amount ELSE 0
    OBVIOUS
  <2> HIDE DEF m
  <2>2. f \in Nat /\ m \in Nat
    BY <1>n DEF m
  <2> QED
    BY <2>1, <2>2
<1>8. /\ f \in Nat \ {0} /\ m \in Nat /\ Memory(rs[f]) \in Nat
      /\ ChargedTo(ds, f) \in Nat /\ ChargedTo(cs, f) \in Nat
  BY <1>n, <1>3, <1>5
<1>9. f <= m => Memory(ss[f]) \in Nat /\ Memory(ss[f]) <= K + ChargedTo(cs, f)
  BY <1>3, <1>4, <1>8
<1> HIDE DEF K, m
<1>10. CASE f < m
  BY <1>1, <1>6, <1>7, <1>8, <1>9, <1>10
<1>11. CASE f = m
  BY <1>1, <1>6, <1>7, <1>8, <1>9, <1>11
<1>12. CASE f > m
  BY <1>1, <1>6, <1>8, <1>12
<1> QED
  BY <1>8, <1>10, <1>11, <1>12

\* Whatever a call pays, the stack with that call on top is as good as before,
\* and has no more gas.
LEMMA TopSpends ==
  ASSUME NEW cs, NEW ss, GoodStack(cs, ss),
         NEW c, Spends(cs[Len(cs)], c), c.charged >= cs[Len(cs)].charged,
         NEW rs \in Seq(Sizes), Len(rs) = Len(ss),
         PaidFor(ss, rs, c.charged - cs[Len(cs)].charged)
  PROVE  /\ GoodStack(Append(SubSeq(cs, 1, Len(cs) - 1), c), rs)
         /\ ContainedGas(Append(SubSeq(cs, 1, Len(cs) - 1), c)) <= ContainedGas(cs)
<1> DEFINE n == Len(cs)
           front == SubSeq(cs, 1, n - 1)
           ds == Append(front, c)
<1>1. /\ n \in Nat \ {0} /\ DOMAIN cs = 1..n
      /\ \A i \in 1..n : /\ cs[i] \in CallRecord /\ cs[i].frame \in Nat
                         /\ cs[i].gas \in Nat /\ cs[i].given \in Nat
                         /\ cs[i].charged \in Nat
  BY GoodStackTypes
<1>2. c \in CallRecord
  BY DEF Spends
<1>3. /\ ds \in Seq(CallRecord) /\ Len(ds) = n /\ ds # << >>
      /\ DOMAIN ds = 1..n
      /\ ds[n] = c
      /\ \A i \in 1 .. n - 1 : ds[i] = cs[i]
  <2>1. /\ front \in Seq(CallRecord) /\ Len(front) = n - 1
        /\ \A i \in 1 .. n - 1 : front[i] = cs[i]
    BY Pop DEF GoodStack
  <2> HIDE DEF front
  <2>a. /\ ds \in Seq(CallRecord) /\ Len(ds) = Len(front) + 1
        /\ ds[Len(front) + 1] = c
        /\ \A i \in 1 .. Len(front) : ds[i] = front[i]
    BY <1>2, <2>1, AppendProperties
  <2>2. /\ ds \in Seq(CallRecord) /\ Len(ds) = n /\ ds[n] = c
        /\ \A i \in 1 .. n - 1 : ds[i] = front[i]
    BY <1>1, <2>1, <2>a
  <2> HIDE DEF ds
  <2>3. DOMAIN ds = 1..n /\ ds # << >>
    BY <1>1, <2>2, LenProperties, EmptySeq
  <2> QED
    BY <2>1, <2>2, <2>3
<1>4. /\ c.kind = cs[n].kind /\ c.frame = cs[n].frame /\ c.given = cs[n].given
      /\ c.gas + c.charged = cs[n].gas + cs[n].charged
  BY DEF Spends
<1> HIDE DEF ds
<1>5. \A i \in 1 .. n : /\ ds[i].kind = cs[i].kind /\ ds[i].frame = cs[i].frame
                        /\ ds[i].given = cs[i].given
  BY <1>1, <1>3, <1>4
<1>6. Nested(ds, rs)
  <2>1. Nested(cs, ss)
    BY DEF GoodStack
  <2>2. ds[1].kind = "far" /\ ds[1].frame = 1 /\ Len(rs) = ds[n].frame
    BY <1>1, <1>5, <2>1 DEF Nested
  <2>3. ASSUME NEW i \in 2 .. n
        PROVE ds[i].frame = ds[i - 1].frame + (IF ds[i].kind = "far" THEN 1 ELSE 0)
    <3>1. i \in 1..n /\ i - 1 \in 1..n
      BY <1>1
    <3> QED
      BY <1>5, <2>1, <3>1 DEF Nested
  <2> QED
    BY <1>3, <2>2, <2>3 DEF Nested
<1>7. Balances(ds)
  <2> SUFFICES ASSUME NEW i \in 1 .. n
               PROVE ds[i].gas + ds[i].charged
                       + (IF i < n THEN ds[i + 1].given ELSE 0) = ds[i].given
    BY <1>1, <1>3 DEF Balances
  <2>1. cs[i].gas + cs[i].charged + (IF i < n THEN cs[i + 1].given ELSE 0)
          = cs[i].given
    BY <1>1 DEF GoodStack, Balances
  <2>2. CASE i < n
    BY <1>1, <1>3, <1>5, <2>1, <2>2
  <2>3. CASE i = n
    <3>1. c.gas \in Nat /\ c.charged \in Nat /\ cs[n].gas \in Nat /\ cs[n].charged \in Nat
      BY <1>1, <1>2 DEF CallRecord
    <3> QED
      BY <1>3, <1>4, <2>1, <2>3, <3>1
  <2>4. n \in Nat
    BY <1>1
  <2>5. i < n \/ i = n
    BY <2>4
  <2> QED
    BY <2>2, <2>3, <2>5
<1>8. KeepsShares(ds)
  <2> SUFFICES ASSUME NEW i \in 2 .. n, ds[i].kind = "far"
               PROVE ds[i].given <= (Share - 1) * ds[i - 1].gas + MandatedGas
    BY <1>3 DEF KeepsShares
  <2>1. ds[i - 1] = cs[i - 1]
    BY <1>1, <1>3
  <2>2. cs[i].given <= (Share - 1) * cs[i - 1].gas + MandatedGas
    BY <1>1, <1>5 DEF GoodStack, KeepsShares
  <2> QED
    BY <1>1, <1>5, <2>1, <2>2
<1>9. /\ ContainedGas(ds) = ContainedGas(cs) + (c.gas - cs[n].gas)
      /\ \A f : ChargedTo(ds, f) = ChargedTo(cs, f)
           + IF cs[n].frame = f THEN c.charged - cs[n].charged ELSE 0
  <2>1. cs \in Seq(CallRecord) /\ cs # << >>
    BY DEF GoodStack
  <2>2. /\ Len(ds) = Len(cs) /\ \A i \in 1 .. Len(cs) - 1 : ds[i] = cs[i]
        /\ ds[Len(cs)].frame = cs[Len(cs)].frame
    BY <1>3, <1>4
  <2>3. /\ ContainedGas(ds) = ContainedGas(cs) + (ds[Len(cs)].gas - cs[Len(cs)].gas)
        /\ \A f : ChargedTo(ds, f) = ChargedTo(cs, f)
             + IF cs[Len(cs)].frame = f
               THEN ds[Len(cs)].charged - cs[Len(cs)].charged ELSE 0
    BY <1>3, <2>1, <2>2, TopTotals
  <2> QED
    BY <1>3, <2>3
<1>10. /\ c.gas \in Nat /\ c.charged \in Nat
       /\ cs[n].gas \in Nat /\ cs[n].charged \in Nat
  BY <1>1, <1>2 DEF CallRecord
<1>11. GrowthPaid(ds, rs)
  <2>1. c.charged - cs[n].charged \in Int
    BY <1>10
  <2>2. Len(ss) = cs[n].frame
    BY DEF GoodStack, Nested
  <2>3. \A f \in 1 .. Len(rs) : f <= Len(ss) => 
          ChargedTo(ds, f) >= ChargedTo(cs, f)
            + IF f = Len(ss) THEN c.charged - cs[n].charged ELSE 0
    <3>1. \A f : ChargedTo(cs, f) \in Nat
      BY TotalsType DEF GoodStack
    <3> QED
      BY <1>9, <2>1, <2>2, <3>1
  <2> HIDE DEF n
  <2>4. PaidFor(ss, rs, c.charged - cs[n].charged)
    BY DEF n
  <2> QED
    BY <1>3, <2>1, <2>3, <2>4, GrowthStaysPaid
<1>12. ContainedGas(ds) <= ContainedGas(cs)
  <2>1. ContainedGas(cs) \in Nat
    BY TotalsType DEF GoodStack
  <2>2. c.gas <= cs[n].gas
    BY <1>4, <1>10
  <2> QED
    BY <1>9, <1>10, <2>1, <2>2
<1> QED
  BY <1>3, <1>6, <1>7, <1>8, <1>11, <1>12 DEF GoodStack, ds

\* A call that enters another one splits what it has left.
LEMMA CallEntered ==
  ASSUME NEW cs, NEW ss, GoodStack(cs, ss),
         NEW caller \in CallRecord, NEW callee \in CallRecord,
         caller.kind = cs[Len(cs)].kind, caller.frame = cs[Len(cs)].frame,
         caller.given = cs[Len(cs)].given,
         caller.gas + caller.charged + callee.given
           = cs[Len(cs)].gas + cs[Len(cs)].charged,
         callee.gas = callee.given, callee.charged = 0,
         callee.frame = caller.frame + (IF callee.kind = "far" THEN 1 ELSE 0),
         callee.kind = "far" =>
           callee.given <= (Share - 1) * caller.gas + MandatedGas,
         caller.charged >= cs[Len(cs)].charged,
         NEW rs \in Seq(Sizes), Len(rs) = callee.frame,
         PaidFor(ss, rs, caller.charged - cs[Len(cs)].charged)
  PROVE  /\ GoodStack(SubSeq(cs, 1, Len(cs) - 1) \o << caller, callee >>, rs)
         /\ ContainedGas(SubSeq(cs, 1, Len(cs) - 1) \o << caller, callee >>)
              <= ContainedGas(cs)
<1> DEFINE n == Len(cs)
           front == SubSeq(cs, 1, n - 1)
           ds == front \o << caller, callee >>
<1>1. /\ n \in Nat \ {0} /\ DOMAIN cs = 1..n
      /\ \A i \in 1..n : /\ cs[i] \in CallRecord /\ cs[i].frame \in Nat
                         /\ cs[i].gas \in Nat /\ cs[i].given \in Nat
                         /\ cs[i].charged \in Nat
  BY GoodStackTypes
<1>2. /\ caller.gas \in Nat /\ caller.charged \in Nat /\ caller.given \in Nat
      /\ callee.gas \in Nat /\ callee.charged \in Nat /\ callee.given \in Nat
      /\ caller.frame \in Nat
  BY DEF CallRecord
<1>3. /\ ds \in Seq(CallRecord) /\ Len(ds) = n + 1
      /\ DOMAIN ds = 1 .. n + 1 /\ ds # << >>
      /\ ds[n] = caller /\ ds[n + 1] = callee
      /\ \A i \in 1 .. n - 1 : ds[i] = cs[i]
  <2>1. /\ front \in Seq(CallRecord) /\ Len(front) = n - 1
        /\ \A i \in 1 .. n - 1 : front[i] = cs[i]
    BY Pop DEF GoodStack
  <2>2. << caller, callee >> \in Seq(CallRecord) /\ Len(<< caller, callee >>) = 2
    OBVIOUS
  <2> HIDE DEF front
  <2>3. /\ ds \in Seq(CallRecord)
        /\ Len(ds) = Len(front) + 2
        /\ \A i \in 1 .. Len(front) + 2 :
             ds[i] = IF i <= Len(front) THEN front[i]
                     ELSE << caller, callee >>[i - Len(front)]
    BY <2>1, <2>2, ConcatProperties
  <2> HIDE DEF ds
  <2>4. n \in Nat \ {0}
    BY <1>1
  <2>5. Len(ds) = n + 1 /\ \A i \in 1 .. n - 1 : ds[i] = cs[i]
    BY <2>1, <2>3, <2>4
  <2>6. ds[n] = caller
    <3>1. ds[n] = << caller, callee >>[n - Len(front)] /\ n - Len(front) = 1
      BY <2>1, <2>3, <2>4
    <3> QED
      BY <3>1
  <2>7. ds[n + 1] = callee
    <3> HIDE DEF n
    <3>a. n + 1 \in 1 .. Len(front) + 2 /\ ~(n + 1 <= Len(front))
      BY <2>1, <2>4
    <3>1. ds[n + 1] = << caller, callee >>[n + 1 - Len(front)] /\ n + 1 - Len(front) = 2
      BY <2>1, <2>3, <2>4, <3>a
    <3> QED
      BY <3>1
  <2>8. DOMAIN ds = 1 .. n + 1 /\ ds # << >>
    BY <2>3, <2>4, <2>5, LenProperties, EmptySeq
  <2> QED
    BY <2>3, <2>5, <2>6, <2>7, <2>8
<1> HIDE DEF ds
<1>4. n \in Nat \ {0}
  BY <1>1
<1>5. \A i \in 1 .. n : /\ ds[i].kind = cs[i].kind /\ ds[i].frame = cs[i].frame
                        /\ ds[i].given = cs[i].given
  <2> SUFFICES ASSUME NEW i \in 1 .. n
               PROVE /\ ds[i].kind = cs[i].kind /\ ds[i].frame = cs[i].frame
                     /\ ds[i].given = cs[i].given
    OBVIOUS
  <2>1. CASE i = n
    BY <1>3, <2>1
  <2>2. CASE i # n
    <3>1. i \in 1 .. n - 1
      BY <1>4, <2>2
    <3> QED
      BY <1>3, <3>1
  <2> QED
    BY <2>1, <2>2
<1>6. Nested(ds, rs)
  <2>1. Nested(cs, ss)
    BY DEF GoodStack
  <2>2. ds[1].kind = "far" /\ ds[1].frame = 1 /\ Len(rs) = ds[n + 1].frame
    BY <1>1, <1>3, <1>5, <2>1 DEF Nested
  <2>3. ASSUME NEW i \in 2 .. n + 1
        PROVE ds[i].frame = ds[i - 1].frame + (IF ds[i].kind = "far" THEN 1 ELSE 0)
    <3>1. CASE i \in 2 .. n
      <4>1. i \in 1..n /\ i - 1 \in 1..n
        BY <1>4, <3>1
      <4> QED
        BY <1>5, <2>1, <3>1, <4>1 DEF Nested
    <3>2. CASE i = n + 1
      <4>1. i - 1 = n
        BY <1>4, <3>2
      <4> QED
        BY <1>3, <3>2, <4>1
    <3> QED
      BY <1>4, <3>1, <3>2
  <2> QED
    BY <1>3, <2>2, <2>3 DEF Nested
<1>7. Balances(ds)
  <2> SUFFICES ASSUME NEW i \in 1 .. n + 1
               PROVE ds[i].gas + ds[i].charged
                       + (IF i < n + 1 THEN ds[i + 1].given ELSE 0) = ds[i].given
    BY <1>3 DEF Balances
  <2>1. \A j \in 1 .. n : cs[j].gas + cs[j].charged
                            + (IF j < n THEN cs[j + 1].given ELSE 0) = cs[j].given
    BY <1>1 DEF GoodStack, Balances
  <2>2. CASE i < n
    <3>1. i \in 1 .. n - 1 /\ i + 1 \in 1 .. n
      BY <1>4, <2>2
    <3>2. ds[i].gas = cs[i].gas /\ ds[i].charged = cs[i].charged
      BY <1>3, <3>1
    <3>3. ds[i].given = cs[i].given /\ ds[i + 1].given = cs[i + 1].given
      BY <1>5, <3>1
    <3>4. i < n + 1 /\ i \in 1 .. n
      BY <1>4, <2>2
    <3>5. cs[i].gas + cs[i].charged + cs[i + 1].given = cs[i].given
      BY <2>1, <2>2, <3>4
    <3> QED
      BY <3>2, <3>3, <3>4, <3>5
  <2>3. CASE i = n
    <3>1. cs[n].gas + cs[n].charged = cs[n].given
      <4>1. n \in 1 .. n /\ ~(n < n)
        BY <1>4
      <4> HIDE DEF n
      <4>2. cs[n].gas + cs[n].charged + 0 = cs[n].given
        BY <2>1, <4>1
      <4>3. cs[n].gas \in Nat /\ cs[n].charged \in Nat
        BY <1>1, <4>1
      <4> QED
        BY <4>2, <4>3
    <3>2. i < n + 1
      BY <1>4, <2>3
    <3> QED
      BY <1>3, <2>3, <3>1, <3>2
  <2>4. CASE i = n + 1
    <3>1. ~(i < n + 1)
      BY <1>4, <2>4
    <3> QED
      BY <1>2, <1>3, <2>4, <3>1
  <2>5. i < n \/ i = n \/ i = n + 1
    BY <1>4
  <2> QED
    BY <2>2, <2>3, <2>4, <2>5
<1>8. KeepsShares(ds)
  <2> SUFFICES ASSUME NEW i \in 2 .. n + 1, ds[i].kind = "far"
               PROVE ds[i].given <= (Share - 1) * ds[i - 1].gas + MandatedGas
    BY <1>3 DEF KeepsShares
  <2>1. CASE i \in 2 .. n
    <3>1. i \in 1 .. n /\ i - 1 \in 1 .. n - 1
      BY <1>4, <2>1
    <3>2. cs[i].given <= (Share - 1) * cs[i - 1].gas + MandatedGas
      BY <1>5, <2>1, <3>1 DEF GoodStack, KeepsShares
    <3> QED
      BY <1>3, <1>5, <3>1, <3>2
  <2>2. CASE i = n + 1
    <3>1. i - 1 = n
      BY <1>4, <2>2
    <3> QED
      BY <1>3, <2>2, <3>1
  <2> QED
    BY <1>4, <2>1, <2>2
<1>9. /\ ContainedGas(ds) = ContainedGas(cs) + (caller.gas - cs[n].gas) + callee.gas
      /\ \A f : ChargedTo(ds, f) = ChargedTo(cs, f)
           + IF cs[n].frame = f THEN caller.charged - cs[n].charged ELSE 0
  <2> DEFINE es == Append(front, caller)
  <2>1. cs \in Seq(CallRecord) /\ cs # << >>
    BY DEF GoodStack
  <2>2. /\ front \in Seq(CallRecord) /\ Len(front) = n - 1
        /\ \A i \in 1 .. n - 1 : front[i] = cs[i]
    BY <2>1, Pop
  <2> HIDE DEF front
  <2>3. /\ es \in Seq(CallRecord) /\ Len(es) = Len(front) + 1
        /\ es[Len(front) + 1] = caller
        /\ \A i \in 1 .. Len(front) : es[i] = front[i]
    BY <2>2, AppendProperties
  <2> HIDE DEF es
  <2>4. Len(es) = n /\ es[n] = caller /\ \A i \in 1 .. n - 1 : es[i] = cs[i]
    BY <1>4, <2>2, <2>3
  <2>5. ASSUME NEW i \in 1 .. n PROVE ds[i] = es[i]
    <3>1. i \in 1 .. n - 1 \/ i = n
      BY <1>4
    <3> QED
      BY <1>3, <2>4, <3>1
  <2>6. /\ Len(es) = Len(cs) /\ \A i \in 1 .. Len(cs) - 1 : es[i] = cs[i]
        /\ es[Len(cs)].frame = cs[Len(cs)].frame
    BY <2>4
  <2>a. /\ ContainedGas(es) = ContainedGas(cs) + (es[Len(cs)].gas - cs[Len(cs)].gas)
        /\ \A f : ChargedTo(es, f) = ChargedTo(cs, f)
             + IF cs[Len(cs)].frame = f
               THEN es[Len(cs)].charged - cs[Len(cs)].charged ELSE 0
    BY <2>1, <2>3, <2>6, TopTotals
  <2>7. /\ ContainedGas(es) = ContainedGas(cs) + (caller.gas - cs[n].gas)
        /\ \A f : ChargedTo(es, f) = ChargedTo(cs, f)
             + IF cs[n].frame = f THEN caller.charged - cs[n].charged ELSE 0
    BY <2>4, <2>a
  <2>b. Len(ds) = Len(es) + 1 /\ \A i \in 1 .. Len(es) : ds[i] = es[i]
    BY <1>3, <2>4, <2>5
  <2>8. /\ ContainedGas(ds) = ContainedGas(es) + ds[Len(ds)].gas
        /\ \A f : ChargedTo(ds, f) =
             ChargedTo(es, f)
               + IF ds[Len(ds)].frame = f THEN ds[Len(ds)].charged ELSE 0
    BY <1>3, <2>3, <2>b, PushTotals
  <2>9. ds[Len(ds)] = callee /\ callee.charged = 0
    BY <1>3
  <2>10. \A f : ChargedTo(es, f) \in Nat
    BY <2>3, TotalsType
  <2> QED
    BY <2>7, <2>8, <2>9, <2>10
<1>10. GrowthPaid(ds, rs)
  <2>1. caller.charged - cs[n].charged \in Int
    BY <1>1, <1>2, <1>4
  <2>2. Len(ss) = cs[n].frame
    BY DEF GoodStack, Nested
  <2>3. \A f \in 1 .. Len(rs) : f <= Len(ss) =>
          ChargedTo(ds, f) >= ChargedTo(cs, f)
            + IF f = Len(ss) THEN caller.charged - cs[n].charged ELSE 0
    <3>1. \A f : ChargedTo(cs, f) \in Nat
      BY TotalsType DEF GoodStack
    <3> QED
      BY <1>9, <2>1, <2>2, <3>1
  <2> HIDE DEF n
  <2>4. PaidFor(ss, rs, caller.charged - cs[n].charged)
    BY DEF n
  <2> QED
    BY <1>3, <2>1, <2>3, <2>4, GrowthStaysPaid
<1>11. ContainedGas(ds) <= ContainedGas(cs)
  <2>1. ContainedGas(cs) \in Nat
    BY TotalsType DEF GoodStack
  <2>2. cs[n].gas \in Nat /\ cs[n].charged \in Nat
    BY <1>1, <1>4
  <2>3. /\ caller.gas + caller.charged + callee.given = cs[n].gas + cs[n].charged
        /\ callee.gas = callee.given /\ caller.charged >= cs[n].charged
    OBVIOUS
  <2> DEFINE x == cs[n].gas
             y == cs[n].charged
  <2>4. x - caller.gas >= callee.gas
    <3>1. /\ caller.gas + caller.charged + callee.gas = x + y
          /\ caller.charged >= y /\ x \in Nat /\ y \in Nat
      BY <2>2, <2>3
    <3> HIDE DEF x, y
    <3> QED
      BY <1>2, <3>1
  <2> DEFINE r == ContainedGas(cs)
  <2>5. ContainedGas(ds) = r + (caller.gas - x) + callee.gas /\ r \in Nat
    BY <1>2, <1>9, <2>1, <2>2
  <2> HIDE DEF x, r
  <2>6. x \in Nat
    BY <2>2 DEF x
  <2>7. ContainedGas(ds) <= r
    BY <1>2, <2>4, <2>5, <2>6
  <2> QED
    BY <2>7 DEF r
<1> QED
  BY <1>3, <1>6, <1>7, <1>8, <1>10, <1>11 DEF GoodStack, ds

\* A call that closes gives back what it has left, and answers for the rest.
LEMMA CallLeft ==
  ASSUME NEW cs, NEW ss, GoodStack(cs, ss), Len(cs) > 1,
         NEW c, Spends(cs[Len(cs)], c), c.charged >= cs[Len(cs)].charged,
         NEW pc \in PCs,
         NEW rs \in Seq(Sizes), Len(rs) = cs[Len(cs) - 1].frame,
         PaidFor(ss, rs, c.charged - cs[Len(cs)].charged)
  PROVE  LET ds == [SubSeq(cs, 1, Len(cs) - 1) EXCEPT ![Len(cs) - 1] =
                      GiveBack(@, c, pc)]
         IN GoodStack(ds, rs) /\ ContainedGas(ds) <= ContainedGas(cs)
<1> DEFINE n == Len(cs)
           front == SubSeq(cs, 1, n - 1)
           d == GiveBack(front[n - 1], c, pc)
           ds == [front EXCEPT ![n - 1] = d]
<1>1. /\ n \in Nat \ {0, 1} /\ DOMAIN cs = 1..n
      /\ \A i \in 1..n : /\ cs[i] \in CallRecord /\ cs[i].frame \in Nat
                         /\ cs[i].gas \in Nat /\ cs[i].given \in Nat
                         /\ cs[i].charged \in Nat
  BY GoodStackTypes
<1>2. /\ c.gas \in Nat /\ c.charged \in Nat
      /\ c.gas + c.charged = cs[n].gas + cs[n].charged
  BY DEF CallRecord, Spends
<1>3. n \in Nat \ {0, 1} /\ n - 1 \in 1 .. n
  BY <1>1
<1>4. /\ front \in Seq(CallRecord) /\ Len(front) = n - 1
      /\ \A i \in 1 .. n - 1 : front[i] = cs[i]
  BY Pop DEF GoodStack
<1> HIDE DEF n, front
<1>5. front[n - 1] = cs[n - 1] /\ cs[n - 1] \in CallRecord
  BY <1>1, <1>3, <1>4
<1>6. /\ d \in CallRecord
      /\ d.kind = cs[n - 1].kind /\ d.frame = cs[n - 1].frame
      /\ d.given = cs[n - 1].given
      /\ d.gas = cs[n - 1].gas + c.gas
      /\ d.charged = cs[n - 1].charged + c.charged
  <2> DEFINE e == cs[n - 1]
  <2>0. e \in CallRecord /\ e.gas \in Nat /\ e.charged \in Nat
    BY <1>1, <1>3, <1>5
  <2>1. /\ e \in CallRecord
        /\ e.gas + c.gas \in Nat /\ e.charged + c.charged \in Nat
    <3> HIDE DEF e
    <3>1. c.gas \in Nat /\ c.charged \in Nat
      BY <1>2
    <3> QED
      BY <2>0, <3>1
  <2>2. d = [e EXCEPT !.pc = pc, !.gas = e.gas + c.gas,
                      !.charged = e.charged + c.charged]
    BY <1>5 DEF GiveBack
  <2> HIDE DEF d, e
  <2>3. /\ d \in CallRecord
        /\ d.kind = e.kind /\ d.frame = e.frame /\ d.given = e.given
        /\ d.gas = e.gas + c.gas /\ d.charged = e.charged + c.charged
    BY <2>1, <2>2 DEF CallRecord
  <2> QED
    BY <2>3 DEF e
<1> HIDE DEF d
<1>7. /\ ds \in Seq(CallRecord) /\ Len(ds) = n - 1 /\ DOMAIN ds = 1 .. n - 1
      /\ ds # << >>
      /\ ds[n - 1] = d
      /\ \A i \in 1 .. n - 2 : ds[i] = cs[i]
  <2>1. n - 1 \in 1 .. Len(front)
    BY <1>3, <1>4
  <2>2. /\ ds \in Seq(CallRecord) /\ Len(ds) = Len(front)
        /\ \A j \in 1 .. Len(front) : ds[j] = IF j = n - 1 THEN d ELSE front[j]
    BY <1>4, <1>6, <2>1, ExceptSeq
  <2> HIDE DEF ds
  <2>3. DOMAIN ds = 1 .. n - 1 /\ ds # << >>
    BY <1>3, <1>4, <2>2, LenProperties, EmptySeq
  <2>4. ds[n - 1] = d
    BY <2>1, <2>2
  <2>5. ASSUME NEW i \in 1 .. n - 2 PROVE ds[i] = cs[i]
    <3>1. i \in 1 .. n - 1 /\ i # n - 1
      BY <1>3
    <3> QED
      BY <1>4, <2>2, <3>1
  <2> QED
    BY <1>4, <2>2, <2>3, <2>4, <2>5
<1> HIDE DEF ds
<1>8. \A i \in 1 .. n - 1 : /\ ds[i].kind = cs[i].kind /\ ds[i].frame = cs[i].frame
                            /\ ds[i].given = cs[i].given
  BY <1>3, <1>6, <1>7
<1>9. Nested(ds, rs)
  <2>1. Nested(cs, ss)
    BY DEF GoodStack
  <2>2. 1 \in 1 .. n - 1 /\ n - 1 \in 1 .. n - 1
    BY <1>3
  <2>3. ds[1].kind = "far" /\ ds[1].frame = 1 /\ Len(rs) = ds[n - 1].frame
    BY <1>8, <2>1, <2>2 DEF Nested, n
  <2>4. ASSUME NEW i \in 2 .. n - 1
        PROVE ds[i].frame = ds[i - 1].frame + (IF ds[i].kind = "far" THEN 1 ELSE 0)
    <3>1. i \in 1 .. n - 1 /\ i - 1 \in 1 .. n - 1 /\ i \in 2 .. n
      BY <1>3
    <3> QED
      BY <1>8, <2>1, <3>1 DEF Nested, n
  <2> QED
    BY <1>7, <2>3, <2>4 DEF Nested
<1>10. Balances(ds)
  <2> SUFFICES ASSUME NEW i \in 1 .. n - 1
               PROVE ds[i].gas + ds[i].charged
                       + (IF i < n - 1 THEN ds[i + 1].given ELSE 0) = ds[i].given
    BY <1>7 DEF Balances
  <2>1. \A j \in 1 .. n : cs[j].gas + cs[j].charged
                            + (IF j < n THEN cs[j + 1].given ELSE 0) = cs[j].given
    BY <1>1 DEF GoodStack, Balances, n
  <2>2. CASE i < n - 1
    <3>1. i \in 1 .. n - 2 /\ i + 1 \in 1 .. n - 1 /\ i \in 1 .. n /\ i < n
      BY <1>3, <2>2
    <3>2. cs[i].gas + cs[i].charged + cs[i + 1].given = cs[i].given
      BY <2>1, <3>1
    <3> QED
      BY <1>7, <1>8, <2>2, <3>1, <3>2
  <2>3. CASE i = n - 1
    <3>1. /\ n - 1 \in 1 .. n /\ n \in 1 .. n /\ n - 1 < n /\ ~(n < n)
          /\ (n - 1) + 1 = n
      BY <1>3
    <3>2. cs[n - 1].gas + cs[n - 1].charged + cs[n].given = cs[n - 1].given
      BY <2>1, <3>1
    <3>3. cs[n].gas + cs[n].charged + 0 = cs[n].given
      BY <2>1, <3>1
    <3>4. /\ cs[n - 1].gas \in Nat /\ cs[n - 1].charged \in Nat
          /\ cs[n].gas \in Nat /\ cs[n].charged \in Nat /\ cs[n].given \in Nat
      BY <1>1, <3>1
    <3> DEFINE e == cs[n - 1]
               g == cs[n].given
    <3>5. d.gas + d.charged + 0 = d.given
      <4>1. /\ c.gas + c.charged = g /\ e.gas + e.charged + g = e.given
        BY <1>2, <3>2, <3>3, <3>4
      <4>2. /\ d.gas = e.gas + c.gas /\ d.charged = e.charged + c.charged
            /\ d.given = e.given
        BY <1>6
      <4>3. /\ c.gas \in Nat /\ c.charged \in Nat /\ g \in Nat
            /\ e.gas \in Nat /\ e.charged \in Nat
        BY <1>2, <3>4
      <4> HIDE DEF e, g, n
      <4>4. d.gas + d.charged = e.gas + e.charged + (c.gas + c.charged)
        BY <4>2, <4>3
      <4> QED
        BY <4>1, <4>2, <4>3, <4>4
    <3>6. ~(i < n - 1)
      BY <1>3, <2>3
    <3> QED
      BY <1>7, <2>3, <3>5, <3>6
  <2>4. i < n - 1 \/ i = n - 1
    BY <1>3
  <2> QED
    BY <2>2, <2>3, <2>4
<1>11. KeepsShares(ds)
  <2> SUFFICES ASSUME NEW i \in 2 .. n - 1, ds[i].kind = "far"
               PROVE ds[i].given <= (Share - 1) * ds[i - 1].gas + MandatedGas
    BY <1>7 DEF KeepsShares
  <2>1. i \in 1 .. n - 1 /\ i - 1 \in 1 .. n - 2 /\ i \in 2 .. n
    BY <1>3
  <2>2. cs[i].given <= (Share - 1) * cs[i - 1].gas + MandatedGas
    BY <1>8, <2>1 DEF GoodStack, KeepsShares, n
  <2> QED
    BY <1>7, <1>8, <2>1, <2>2
<1>12. cs \in Seq(CallRecord) /\ Len(cs) = n
  BY DEF GoodStack, n
<1>13. /\ ContainedGas(cs) = ContainedGas(front) + cs[n].gas
       /\ \A f : ChargedTo(cs, f) = ChargedTo(front, f)
            + IF cs[n].frame = f THEN cs[n].charged ELSE 0
  <2>1. Len(cs) = Len(front) + 1 /\ \A i \in 1 .. Len(front) : cs[i] = front[i]
    BY <1>3, <1>4, <1>12
  <2> QED
    BY <1>4, <1>12, <2>1, PushTotals
<1>14. /\ ContainedGas(ds) = ContainedGas(front) + c.gas
       /\ \A f : ChargedTo(ds, f) = ChargedTo(front, f)
            + IF cs[n - 1].frame = f THEN c.charged ELSE 0
  <2> DEFINE m == n - 1
  <2>1. /\ front # << >> /\ Len(front) = m /\ Len(ds) = m
        /\ \A i \in 1 .. m - 1 : ds[i] = front[i]
        /\ ds[m] = d /\ front[m] = cs[m] /\ d.frame = cs[m].frame
    BY <1>3, <1>4, <1>5, <1>6, <1>7, EmptySeq
  <2>2. /\ d.gas - cs[m].gas = c.gas /\ d.charged - cs[m].charged = c.charged
    <3>1. m \in 1 .. n
      BY <1>3
    <3>2. cs[m].gas \in Nat /\ cs[m].charged \in Nat
      BY <1>1, <3>1
    <3>3. d.gas = cs[m].gas + c.gas /\ d.charged = cs[m].charged + c.charged
      BY <1>6
    <3>4. c.gas \in Nat /\ c.charged \in Nat
      BY <1>2
    <3> HIDE DEF m
    <3> QED
      BY <3>2, <3>3, <3>4
  <2> HIDE DEF m
  <2>a. /\ Len(ds) = Len(front) /\ \A i \in 1 .. Len(front) - 1 : ds[i] = front[i]
        /\ ds[Len(front)].frame = front[Len(front)].frame
    BY <2>1
  <2>b. /\ ContainedGas(ds) = ContainedGas(front)
             + (ds[Len(front)].gas - front[Len(front)].gas)
        /\ \A f : ChargedTo(ds, f) = ChargedTo(front, f)
             + IF front[Len(front)].frame = f
               THEN ds[Len(front)].charged - front[Len(front)].charged ELSE 0
    BY <1>4, <1>7, <2>1, <2>a, TopTotals
  <2>3. /\ ContainedGas(ds) = ContainedGas(front) + (ds[m].gas - front[m].gas)
        /\ \A f : ChargedTo(ds, f) = ChargedTo(front, f)
             + IF front[m].frame = f THEN ds[m].charged - front[m].charged ELSE 0
    BY <2>1, <2>b
  <2>4. /\ ContainedGas(ds) = ContainedGas(front) + c.gas
        /\ \A f : ChargedTo(ds, f) = ChargedTo(front, f)
             + IF cs[m].frame = f THEN c.charged ELSE 0
    BY <2>1, <2>2, <2>3
  <2> QED
    BY <2>4 DEF m
<1>15. /\ cs[n].gas \in Nat /\ cs[n].charged \in Nat
       /\ c.charged >= cs[n].charged
  BY <1>1, <1>3 DEF n
<1>16. GrowthPaid(ds, rs)
  <2>1. c.charged - cs[n].charged \in Int
    BY <1>2, <1>15
  <2>2. Len(ss) = cs[n].frame /\ Len(rs) = cs[n - 1].frame
    BY DEF GoodStack, Nested, n
  <2>3. ASSUME NEW f \in 1 .. Len(rs), f <= Len(ss)
        PROVE  ChargedTo(ds, f) >= ChargedTo(cs, f)
                 + IF f = Len(ss) THEN c.charged - cs[n].charged ELSE 0
    <3> DEFINE r == ChargedTo(front, f)
    <3>1. r \in Nat
      BY <1>4, TotalsType
    <3>2. /\ ChargedTo(cs, f) = r + IF Len(ss) = f THEN cs[n].charged ELSE 0
          /\ ChargedTo(ds, f) = r + IF Len(rs) = f THEN c.charged ELSE 0
      BY <1>13, <1>14, <2>2
    <3>3. f = Len(ss) => f = Len(rs)
      <4>1. Len(rs) <= Len(ss)
        <5>1. cs[n].frame = cs[n - 1].frame + (IF cs[n].kind = "far" THEN 1 ELSE 0)
          BY <1>3 DEF GoodStack, Nested, n
        <5>2. cs[n - 1].frame \in Nat
          BY <1>1, <1>3
        <5> QED
          BY <2>2, <5>1, <5>2
      <4>2. Len(rs) \in Nat /\ Len(ss) \in Nat
        BY LenProperties DEF GoodStack
      <4> QED
        BY <2>3, <4>1, <4>2
    <3> HIDE DEF r
    <3>4. CASE f = Len(ss)
      BY <1>2, <1>15, <3>1, <3>2, <3>3, <3>4
    <3>5. CASE f # Len(ss)
      BY <1>2, <3>1, <3>2, <3>5
    <3> QED
      BY <3>4, <3>5
  <2>4. PaidFor(ss, rs, c.charged - cs[n].charged)
    BY DEF n
  <2> QED
    BY <1>7, <2>1, <2>3, <2>4, GrowthStaysPaid
<1>17. ContainedGas(ds) <= ContainedGas(cs)
  <2> DEFINE r == ContainedGas(front)
  <2>1. r \in Nat
    BY <1>4, TotalsType
  <2>2. c.gas <= cs[n].gas
    BY <1>2, <1>15
  <2>3. ContainedGas(cs) = r + cs[n].gas /\ ContainedGas(ds) = r + c.gas
    BY <1>13, <1>14
  <2> HIDE DEF r
  <2> QED
    BY <1>2, <1>15, <2>1, <2>2, <2>3
<1> QED
  BY <1>7, <1>9, <1>10, <1>11, <1>16, <1>17 DEF GoodStack, ds, d, front, n

-----------------------------------------------------------------------------
(* The parts of a step *)

\* The run loop leaves the host's snapshot alone.
LEMMA LoopKeepsHost ==
  ASSUME HostOK, NEW ended \in BOOLEAN, Loop(ended)
  PROVE  HostOK'
BY DEF HostOK, Loop, host, NoAnswer, Exceeded, Left

\* The run loop looks at the limit after every instruction.
LEMMA LoopKeeps ==
  ASSUME IInv, GoodStack(calls', sizes'),
         ContainedGas(calls') <= ContainedGas(calls),
         NEW ended \in BOOLEAN, Loop(ended)
  PROVE  IInv'
<1>1. HostOK'
  BY LoopKeepsHost DEF IInv
<1>2. limit' = limit
  BY DEF Loop
<1>3. ASSUME limit # << >>
      PROVE  WithinLimit(calls', limit[1], answer')
  <2> DEFINE l == limit[1]
             T == TotalUnspentGas(calls')
             left == T - l.minimum_gas
  <2>1. WithinLimit(calls, l, answer)
    BY <1>3 DEF IInv
  <2>2. T \in Nat /\ ContainedGas(calls) \in Nat /\ ContainedGas(calls') \in Nat
    BY TotalsType DEF IInv, GoodStack
  <2>3. answer' = IF left < 0 THEN Exceeded
                  ELSE IF ended THEN Left(left) ELSE NoAnswer
    BY <1>3 DEF Loop
  <2> HIDE DEF l
  <2>4. /\ l.gas_limit \in Nat /\ l.unspent \in Nat /\ l.started \in Nat
        /\ l.minimum_gas \in Nat /\ l.minimum_gas >= l.unspent - l.gas_limit
        /\ ContainedGas(calls') <= l.started
    BY <2>1, <2>2 DEF WithinLimit
  <2>5. left < 0 \/ (T >= l.minimum_gas)
    BY <2>2, <2>4
  <2>6. answer' # Exceeded => T >= l.minimum_gas
    BY <2>3, <2>5
  <2>7. answer'.outcome = "left" => answer'.gas = left
    BY <2>3 DEF Exceeded, Left, NoAnswer
  <2> QED
    BY <2>4, <2>6, <2>7 DEF WithinLimit, l
<1>4. (limit # << >> => WithinLimit(calls, limit[1], answer))'
  BY <1>2, <1>3
<1> QED
  BY <1>1, <1>4 DEF IInv

\* Of the paid sizes only those of the innermost frame, the last ones, change.
LEMMA SizesReplaced ==
  ASSUME IInv, NEW t \in Sizes, NEW amount \in Int,
         Memory(t) - Memory(sizes[Len(sizes)]) <= amount
  PROVE  LET ss == [sizes EXCEPT ![Len(sizes)] = t]
         IN ss \in Seq(Sizes) /\ Len(ss) = Len(sizes) /\ PaidFor(sizes, ss, amount)
<1> DEFINE m == Len(sizes)
           ss == [sizes EXCEPT ![m] = t]
<1>1. sizes \in Seq(Sizes) /\ m = Top.frame
  BY DEF IInv, GoodStack, Nested, Top
<1>2. m \in Nat \ {0}
  BY <1>1, GoodStackTypes DEF IInv, Top
<1>3. m \in 1 .. Len(sizes)
  BY <1>2
<1>4. /\ ss \in Seq(Sizes) /\ Len(ss) = Len(sizes)
      /\ \A j \in 1 .. Len(sizes) : ss[j] = IF j = m THEN t ELSE sizes[j]
  BY <1>1, <1>3, ExceptSeq
<1> HIDE DEF ss
<1>5. PaidFor(sizes, ss, amount)
  <2> HIDE DEF m
  <2>1. m = Len(sizes)
    BY DEF m
  <2>2. ASSUME NEW f \in 1 .. m
        PROVE  /\ f < m => ss[f] = sizes[f]
               /\ f = m => Memory(ss[f]) - Memory(sizes[f]) <= amount
               /\ ~(f > m)
    BY <1>2, <1>4, <2>1
  <2> QED
    BY <1>4, <2>1, <2>2 DEF PaidFor
<1> QED
  BY <1>4, <1>5 DEF ss, m

\* There are paid sizes for the frame that executes.
LEMMA SizesThere ==
  ASSUME IInv
  PROVE  /\ sizes \in Seq(Sizes) /\ Len(sizes) \in Nat \ {0}
         /\ sizes[Len(sizes)] \in Sizes /\ Len(sizes) = Top.frame
         /\ sizes = [sizes EXCEPT ![Len(sizes)] = sizes[Len(sizes)]]
<1> DEFINE m == Len(sizes)
<1>1. sizes \in Seq(Sizes) /\ m = Top.frame
  BY DEF IInv, GoodStack, Nested, Top
<1>2. m \in Nat \ {0}
  BY <1>1, GoodStackTypes DEF IInv, Top
<1>3. m \in 1 .. Len(sizes)
  BY <1>2
<1>4. sizes[m] \in Sizes
  BY <1>1, <1>3, ElementOfSeq
<1>5. sizes = [sizes EXCEPT ![m] = sizes[m]]
  <2>1. /\ [sizes EXCEPT ![m] = sizes[m]] \in Seq(Sizes)
        /\ Len([sizes EXCEPT ![m] = sizes[m]]) = Len(sizes)
        /\ \A j \in 1 .. Len(sizes) : [sizes EXCEPT ![m] = sizes[m]][j]
             = IF j = m THEN sizes[m] ELSE sizes[j]
    BY <1>1, <1>3, <1>4, ExceptSeq
  <2> HIDE DEF m
  <2> QED
    BY <1>1, <2>1, SeqEqual
<1> QED
  BY <1>1, <1>2, <1>4, <1>5

\* Paying more is enough.
LEMMA MorePaid ==
  ASSUME NEW ss \in Seq(Sizes), NEW rs \in Seq(Sizes), NEW a \in Int, NEW b \in Int,
         a <= b, PaidFor(ss, rs, a)
  PROVE  PaidFor(ss, rs, b)
<1> SUFFICES ASSUME NEW f \in 1 .. Len(rs), f = Len(ss)
             PROVE  Memory(rs[f]) - Memory(ss[f]) <= b
  BY DEF PaidFor
<1>1. Memory(rs[f]) - Memory(ss[f]) <= a
  BY DEF PaidFor
<1>2. f \in 1 .. Len(ss)
  BY LenProperties
<1>3. Memory(rs[f]) \in Nat /\ Memory(ss[f]) \in Nat
  BY <1>2, ElementOfSeq, MemoryType
<1> QED
  BY <1>1, <1>3

\* An instruction that pays and stays in its call
LEMMA ContinueKeeps ==
  ASSUME IInv, NEW c, NEW t, Pays(Top, sizes[Len(sizes)], c, t),
         NEW pc \in PCs, Continue(c, pc),
         sizes' = [sizes EXCEPT ![Len(sizes)] = t]
  PROVE  IInv'
<1> DEFINE d == [c EXCEPT !.pc = pc]
           amount == d.charged - Top.charged
<1>1. Pays(Top, sizes[Len(sizes)], d, t)
  BY PaysAtPc
<1> HIDE DEF d
<1>2. /\ Spends(Top, d) /\ t \in Sizes /\ d.charged >= Top.charged
      /\ Memory(t) - Memory(sizes[Len(sizes)]) <= amount
      /\ amount \in Int
  BY <1>1 DEF Pays, Spends, CallRecord
<1> HIDE DEF amount
<1>3. /\ sizes' \in Seq(Sizes) /\ Len(sizes') = Len(sizes)
      /\ PaidFor(sizes, sizes', amount)
  BY <1>2, SizesReplaced
<1>4. /\ GoodStack(calls', sizes')
      /\ ContainedGas(calls') <= ContainedGas(calls)
  BY <1>2, <1>3, TopSpends DEF IInv, Continue, Callers, Top, amount, d
<1> QED
  BY <1>4, LoopKeeps DEF Continue

\* ... without growing its memory
LEMMA ContinueSameSizesKeeps ==
  ASSUME IInv, NEW c, Pays(Top, sizes[Len(sizes)], c, sizes[Len(sizes)]),
         NEW pc \in PCs, Continue(c, pc), UNCHANGED sizes
  PROVE  IInv'
BY ContinueKeeps, SizesThere

\* A call that closes, having paid
LEMMA LeaveCallKeeps ==
  ASSUME IInv, Len(calls) > 1, NEW c, Spends(Top, c), c.charged >= Top.charged,
         LeaveCall(c),
         sizes' \in Seq(Sizes), Len(sizes') = calls[Len(calls) - 1].frame,
         PaidFor(sizes, sizes', c.charged - Top.charged)
  PROVE  IInv'
<1>1. PICK pc \in Targets :
        calls' = [Callers EXCEPT ![Len(calls) - 1] = GiveBack(@, c, pc)]
  BY DEF LeaveCall
<1>2. pc \in PCs
  BY DEF PCs
<1>3. /\ GoodStack(calls', sizes')
      /\ ContainedGas(calls') <= ContainedGas(calls)
  BY <1>1, <1>2, CallLeft DEF IInv, Callers, Top
<1> QED
  BY <1>3, LoopKeeps DEF LeaveCall

\* naked_ret, whatever its kind of call and of return
LEMMA NakedRetKeeps ==
  ASSUME IInv, NEW c, Pays(Top, sizes[Len(sizes)], c, sizes[Len(sizes)]),
         NEW p \in Pointers \cup {NoPointer},
         NEW panics \in BOOLEAN, NakedRet(c, p, panics)
  PROVE  IInv'
<1> DEFINE frame == Len(sizes)
           resolved == GetCalldata(c, sizes[frame], p, panics)
<1>1. /\ frame \in Nat \ {0} /\ sizes[frame] \in Sizes /\ sizes \in Seq(Sizes)
  BY SizesThere
<1>2. c \in CallRecord /\ c.kind = Top.kind
  BY DEF Pays, Spends
<1>3. Pays(c, sizes[frame], resolved.call, resolved.sizes)
  BY <1>1, <1>2, GetCalldataPays
<1>4. /\ Pays(Top, sizes[frame], resolved.call, resolved.sizes)
      /\ Spends(Top, resolved.call) /\ resolved.call.charged >= Top.charged
  <2>1. Pays(Top, sizes[frame], resolved.call, resolved.sizes)
    BY <1>3, PaysTransitive
  <2> QED
    BY <2>1 DEF Pays
<1>5. /\ Len(calls) \in Nat \ {0}
      /\ \A i \in 1 .. Len(calls) : calls[i].frame \in Nat \ {0}
  BY GoodStackTypes DEF IInv
<1>6. /\ Top.frame = frame
      /\ Len(calls) > 1 =>
           frame = calls[Len(calls) - 1].frame + (IF Top.kind = "far" THEN 1 ELSE 0)
  BY <1>5 DEF IInv, GoodStack, Nested, Top
<1> HIDE DEF resolved
<1>7. CASE c.kind = "near" /\ LeaveCall(c) /\ UNCHANGED sizes
  <2>1. Len(calls) > 1
    <3>1. Top.kind = "near"
      BY <1>2, <1>7
    <3>2. calls[1].kind = "far"
      BY DEF IInv, GoodStack, Nested
    <3>3. Len(calls) # 1
      BY <3>1, <3>2 DEF Top
    <3> DEFINE n == Len(calls)
    <3>4. n \in Nat \ {0}
      BY <1>5
    <3>5. n # 1
      BY <3>3
    <3> HIDE DEF n
    <3>6. n > 1
      BY <3>4, <3>5
    <3> QED
      BY <3>6 DEF n
  <2>2. Len(sizes') = calls[Len(calls) - 1].frame
    <3>1. Len(calls) - 1 \in 1 .. Len(calls)
      BY <1>5, <2>1
    <3>2. calls[Len(calls) - 1].frame \in Nat
      BY <1>5, <3>1
    <3> QED
      BY <1>2, <1>6, <1>7, <2>1, <3>2
  <2>3. Spends(Top, c) /\ c.charged >= Top.charged
    BY DEF Pays
  <2>4. PaidFor(sizes, sizes', c.charged - Top.charged)
    <3>1. /\ c.charged - Top.charged \in Int
          /\ Memory(sizes[frame]) - Memory(sizes[frame]) <= c.charged - Top.charged
      BY DEF Pays, Spends, CallRecord
    <3>2. sizes' = [sizes EXCEPT ![frame] = sizes[frame]]
      BY <1>7, SizesThere
    <3> QED
      BY <1>1, <3>1, <3>2, SizesReplaced
  <2> QED
    BY <1>1, <1>7, <2>1, <2>2, <2>3, <2>4, LeaveCallKeeps
<1>8. CASE /\ c.kind = "far" /\ Len(calls) > 1
           /\ LeaveCall(resolved.call)
           /\ sizes' = SubSeq(sizes, 1, frame - 1)
  <2>1. sizes # << >>
    BY <1>1, EmptySeq
  <2>2. sizes' \in Seq(Sizes) /\ Len(sizes') = frame - 1
    BY <1>1, <1>8, <2>1, Pop
  <2>3. Len(sizes') = calls[Len(calls) - 1].frame
    <3>1. Len(calls) - 1 \in 1 .. Len(calls)
      BY <1>5, <1>8
    <3>2. calls[Len(calls) - 1].frame \in Nat
      BY <1>5, <3>1
    <3> QED
      BY <1>1, <1>2, <1>6, <1>8, <2>2, <3>2
  <2>4. PaidFor(sizes, sizes', resolved.call.charged - Top.charged)
    <3> HIDE DEF frame
    <3>1. \A i \in 1 .. frame - 1 : sizes'[i] = sizes[i]
      BY <1>1, <1>8, <2>1, Pop DEF frame
    <3>2. ASSUME NEW f \in 1 .. frame - 1
          PROVE  sizes'[f] = sizes[f] /\ ~(f = frame) /\ ~(f > frame)
      BY <1>1, <3>1
    <3> QED
      BY <2>2, <3>2 DEF PaidFor, frame
  <2> QED
    BY <1>4, <1>8, <2>2, <2>3, <2>4, LeaveCallKeeps
<1>9. CASE /\ c.kind = "far" /\ Len(calls) = 1
           /\ calls' = << [resolved.call EXCEPT !.pc = "invalid"] >>
           /\ sizes' = << resolved.sizes >>
           /\ Loop(TRUE)
  <2> DEFINE d == [resolved.call EXCEPT !.pc = "invalid"]
             amount == d.charged - Top.charged
             t == resolved.sizes
  <2>1. Pays(Top, sizes[frame], d, t)
    <3>1. "invalid" \in PCs
      BY DEF PCs, Targets
    <3> QED
      BY <1>4, <3>1, PaysAtPc
  <2> HIDE DEF d, t
  <2>2. /\ Spends(Top, d) /\ d \in CallRecord /\ t \in Sizes
        /\ d.charged >= Top.charged
        /\ Memory(t) - Memory(sizes[frame]) <= amount /\ amount \in Int
    BY <2>1 DEF Pays, Spends, CallRecord
  <2> HIDE DEF amount
  <2>3. Len(sizes) = 1
    BY <1>6, <1>9 DEF IInv, GoodStack, Nested, Top
  <2>4. sizes' = [sizes EXCEPT ![frame] = t]
    <3> DEFINE ss == [sizes EXCEPT ![1] = t]
    <3>0. 1 \in 1 .. Len(sizes) /\ sizes \in Seq(Sizes) /\ t \in Sizes
      BY <1>1, <2>2, <2>3
    <3>1. /\ ss \in Seq(Sizes) /\ Len(ss) = Len(sizes)
          /\ \A j \in 1 .. Len(sizes) : ss[j] = IF j = 1 THEN t ELSE sizes[j]
      BY <3>0, ExceptSeq
    <3> HIDE DEF ss
    <3>2. ss = << t >>
      BY <2>3, <3>0, <3>1
    <3> QED
      BY <1>9, <2>3, <3>2 DEF t
  <2>5. /\ sizes' \in Seq(Sizes) /\ Len(sizes') = Len(sizes)
        /\ PaidFor(sizes, sizes', amount)
    BY <2>2, <2>4, SizesReplaced
  <2>6. SubSeq(calls, 1, Len(calls) - 1) = << >>
    BY <1>9, SubSeqEmpty
  <2>7. Append(SubSeq(calls, 1, Len(calls) - 1), d) = << d >>
    <3>1. Append(<< >>, d) = << d >>
      OBVIOUS
    <3> QED
      BY <2>6, <3>1
  <2>8. /\ GoodStack(calls', sizes')
        /\ ContainedGas(calls') <= ContainedGas(calls)
    <3>1. calls' = << d >>
      BY <1>9 DEF d
    <3>2. PaidFor(sizes, sizes', d.charged - Top.charged)
      BY <2>5 DEF amount
    <3> QED
      BY <2>2, <2>5, <2>7, <3>1, <3>2, TopSpends DEF IInv, Top
  <2> QED
    BY <1>9, <2>8, LoopKeeps
<1> QED
  BY <1>7, <1>8, <1>9 DEF NakedRet, resolved

\* A call that enters another, which gets what the caller does not keep
LEMMA EnterCallKeeps ==
  ASSUME IInv, NEW caller \in CallRecord, NEW callee \in CallRecord,
         caller.kind = Top.kind, caller.frame = Top.frame, caller.given = Top.given,
         caller.gas + caller.charged + callee.given = Top.gas + Top.charged,
         callee.gas = callee.given, callee.charged = 0,
         callee.frame = caller.frame + (IF callee.kind = "far" THEN 1 ELSE 0),
         callee.kind = "far" =>
           callee.given <= (Share - 1) * caller.gas + MandatedGas,
         caller.charged >= Top.charged,
         EnterCall(caller, callee),
         sizes' \in Seq(Sizes), Len(sizes') = callee.frame,
         PaidFor(sizes, sizes', caller.charged - Top.charged)
  PROVE  IInv'
<1>1. /\ GoodStack(calls', sizes')
      /\ ContainedGas(calls') <= ContainedGas(calls)
  BY CallEntered DEF IInv, EnterCall, Callers, Top
<1> QED
  BY <1>1, LoopKeeps DEF EnterCall

\* The smaller of two numbers
LEMMA MinOfTwo ==
  ASSUME NEW a \in Nat, NEW b \in Nat
  PROVE  Min({a, b}) \in Nat /\ Min({a, b}) <= a /\ Min({a, b}) <= b
<1>1. \E x \in {a, b} : \A y \in {a, b} : x <= y
  OBVIOUS
<1>2. Min({a, b}) \in {a, b} /\ \A y \in {a, b} : Min({a, b}) <= y
  BY <1>1 DEF Min
<1> QED
  BY <1>2

\* Of the gas a far call passes on, its caller keeps at least one part in Share.
LEMMA ShareIsKept ==
  ASSUME NEW gas \in Nat, NEW passed \in Nat, passed <= MaximumGas(gas)
  PROVE  passed <= gas /\ passed <= (Share - 1) * (gas - passed)
<1> DEFINE q == gas \div Share
           m == Share - 1
<1>1. Share \in Nat \ {0}
  BY GasAssumption DEF GasAssumption
<1>2. q \in Nat /\ q * Share <= gas /\ m \in Nat
  BY <1>1
<1>3. passed <= q * m
  BY DEF MaximumGas
<1> HIDE DEF q
<1>4. q * Share = q * m + q
  BY <1>1, <1>2
<1>5. q * m \in Nat
  BY <1>2
<1>6. passed <= gas /\ q <= gas - passed
  BY <1>2, <1>3, <1>4, <1>5
<1> HIDE DEF m
<1>7. ASSUME NEW x \in Nat, q <= x PROVE q * m <= m * x
  BY <1>2, <1>7
<1>8. gas - passed \in Nat
  BY <1>6
<1>9. q * m <= m * (gas - passed)
  BY <1>6, <1>7, <1>8
<1>10. m * (gas - passed) \in Nat
  BY <1>2, <1>8
<1>11. passed <= m * (gas - passed)
  BY <1>3, <1>5, <1>9, <1>10
<1> QED
  BY <1>6, <1>11 DEF m

\* The mandated gas is taken out of the caller whole, or not at all.
LEMMA MandatedTaken ==
  ASSUME NEW c \in CallRecord, NEW mandated \in Nat
  PROVE  LET d == TakeMandated(c, mandated)
             taken == IF CanPay(c, mandated) THEN mandated ELSE 0
         IN /\ d \in CallRecord /\ taken \in Nat /\ taken <= mandated
            /\ d.kind = c.kind /\ d.frame = c.frame /\ d.given = c.given
            /\ d.gas + d.charged + taken = c.gas + c.charged
            /\ d.charged >= c.charged
<1> DEFINE d == TakeMandated(c, mandated)
<1>1. c.gas \in Nat /\ c.charged \in Nat
  BY DEF CallRecord
<1>2. CASE CanPay(c, mandated)
  <2>1. d = [c EXCEPT !.gas = c.gas - mandated] /\ c.gas - mandated \in Nat
    BY <1>1, <1>2 DEF TakeMandated, CanPay
  <2> HIDE DEF d
  <2>2. /\ d \in CallRecord /\ d.gas = c.gas - mandated
        /\ d.charged = c.charged
        /\ d.kind = c.kind /\ d.frame = c.frame /\ d.given = c.given
    BY <2>1 DEF CallRecord
  <2> QED
    BY <1>1, <1>2, <2>2 DEF d
<1>3. CASE ~CanPay(c, mandated)
  <2>1. Spends(c, d) /\ d.charged = c.charged + c.gas
    <3>1. d = Charge(c, c.gas)
      BY <1>3 DEF TakeMandated
    <3>2. Spends(c, Charge(c, c.gas))
      BY <1>1, ChargeSpends
    <3>3. Charge(c, c.gas).charged = c.charged + c.gas
      BY DEF Charge, CallRecord
    <3> QED
      BY <3>1, <3>2, <3>3
  <2> HIDE DEF d
  <2>2. /\ d \in CallRecord /\ d.charged >= c.charged
        /\ d.kind = c.kind /\ d.frame = c.frame /\ d.given = c.given
        /\ d.gas + d.charged + 0 = c.gas + c.charged
    BY <1>1, <2>1 DEF Spends, CallRecord
  <2> QED
    BY <1>1, <1>3, <2>2 DEF d
<1> QED
  BY <1>2, <1>3

-----------------------------------------------------------------------------
(* The invariant is inductive *)

\* An instruction that executes has paid its price.
LEMMA StaticCostPaid ==
  ASSUME IInv, NEW cost, Executes(cost)
  PROVE  LET s == sizes[Len(sizes)]
             c == Charge(Top, cost)
         IN /\ Top \in CallRecord /\ c \in CallRecord /\ s \in Sizes
            /\ Pays(Top, s, c, s)
            /\ cost \in Nat /\ c.charged = Top.charged + cost
<1> DEFINE s == sizes[Len(sizes)]
<1>1. Top \in CallRecord /\ s \in Sizes
  BY GoodStackTypes, SizesThere DEF IInv, Top
<1>2. cost \in Nat /\ Top.gas >= cost
  BY GasAssumption DEF GasAssumption, Executes, CanPay
<1>3. /\ Pays(Top, s, Charge(Top, cost), s)
      /\ Charge(Top, cost).charged = Top.charged + cost
  BY <1>1, <1>2, ChargePays
<1>4. Charge(Top, cost) \in CallRecord
  BY <1>3 DEF Pays, Spends
<1> QED
  BY <1>1, <1>2, <1>3, <1>4

\* What comes back of a price is part of it.
LEMMA Refunded ==
  ASSUME NEW c \in CallRecord, NEW s \in Sizes, NEW d \in CallRecord,
         Pays(c, s, d, s), NEW price \in Nat, d.charged = c.charged + price,
         NEW refund \in Nat, refund <= price
  PROVE  Pays(c, s, Charge(d, -refund), s)
<1> DEFINE e == Charge(d, -refund)
<1>1. c.charged \in Nat /\ d.gas \in Nat /\ Memory(s) \in Nat
  BY MemoryType DEF CallRecord
<1>2. /\ -refund \in Int /\ d.gas >= -refund /\ d.charged + (-refund) >= 0
  BY <1>1
<1>3. Spends(d, e)
  BY <1>2, ChargeSpends
<1>4. e.charged = d.charged + (-refund)
  BY <1>1 DEF Charge, CallRecord
<1>5. e.charged >= c.charged
  BY <1>1, <1>4
<1>6. Spends(c, e)
  BY <1>3, SpendsTransitive DEF Pays
<1> HIDE DEF e
<1>7. Memory(s) - Memory(s) <= e.charged - c.charged
  <2>1. e.charged \in Nat
    BY <1>6 DEF Spends, CallRecord
  <2> QED
    BY <1>1, <1>5, <2>1
<1> QED
  BY <1>5, <1>6, <1>7 DEF Pays, e

\* A free panic closes the call.
LEMMA FreePanicKeeps ==
  ASSUME IInv, NEW c, Pays(Top, sizes[Len(sizes)], c, sizes[Len(sizes)]), FreePanic(c)
  PROVE  IInv'
BY NakedRetKeeps DEF FreePanic

\* The machine starts in the bootloader's call, with all the gas.
LEMMA InitHolds == Init => IInv
<1> SUFFICES ASSUME Init PROVE IInv
  OBVIOUS
<1> USE GasAssumption DEF GasAssumption
<1> DEFINE c == Call("far", 1, "code", InitialGas)
<1>1. PICK stipend \in Stipends : sizes = << [h \in Heaps |-> stipend] >>
  BY DEF Init
<1>2. [h \in Heaps |-> stipend] \in Sizes
  BY DEF Sizes
<1>3. sizes \in Seq(Sizes) /\ Len(sizes) = 1
  BY <1>1, <1>2
<1>4. /\ c \in CallRecord
      /\ c.kind = "far" /\ c.frame = 1 /\ c.gas + c.charged = c.given
  BY DEF Call, CallRecord, PCs, Targets
<1>5. calls = << c >>
  BY DEF Init
<1> HIDE DEF c
<1>6. calls \in Seq(CallRecord) /\ calls # << >> /\ Len(calls) = 1 /\ calls[1] = c
  BY <1>4, <1>5
<1>7. DOMAIN calls = 1 .. 1
  BY <1>6, LenProperties
<1>8. Nested(calls, sizes) /\ KeepsShares(calls)
  BY <1>3, <1>4, <1>6 DEF Nested, KeepsShares
<1>9. Balances(calls)
  <2>1. c.gas + c.charged + 0 = c.given
    BY <1>4 DEF CallRecord
  <2> QED
    BY <1>6, <1>7, <2>1 DEF Balances
<1>a. GrowthPaid(calls, sizes)
  <2> DEFINE K == 2 * Max(Stipends)
  <2>1. K \in Nat /\ stipend \in Nat /\ stipend + stipend <= K
    BY LargestStipend
  <2>2. Memory(sizes[1]) = stipend + stipend
    BY <1>1 DEF Memory, Heaps
  <2>3. ChargedTo(calls, 1) \in Nat
    BY <1>6, TotalsType
  <2> HIDE DEF K
  <2>4. Memory(sizes[1]) <= K + ChargedTo(calls, 1)
    BY <2>1, <2>2, <2>3
  <2>5. DOMAIN sizes = {1}
    BY <1>3, LenProperties
  <2> QED
    BY <2>4, <2>5 DEF GrowthPaid, K
<1>10. HostOK /\ limit = << >>
  <2>1. snapshot = << >> /\ limit = << >> /\ snapshots = 0
    BY DEF Init
  <2>2. status = "stopped" /\ answer.outcome = "none"
    BY DEF Init, NoAnswer
  <2> QED
    BY <2>1, <2>2 DEF HostOK
<1> QED
  BY <1>3, <1>6, <1>8, <1>9, <1>a, <1>10 DEF IInv, GoodStack

\* near_call
LEMMA NearCallKeeps == IInv /\ NearCall => IInv'
<1> SUFFICES ASSUME IInv, NearCall PROVE IInv'
  OBVIOUS
<1>1. PICK cost \in StaticCosts, gas_to_pass \in Amounts, pc \in Targets :
        LET c == Charge(Top, cost)
            new_frame_gas == IF gas_to_pass = 0 THEN c.gas
                             ELSE Min({gas_to_pass, c.gas})
        IN /\ Executes(cost) /\ Len(calls) < MaxDepth
           /\ EnterCall([c EXCEPT !.gas = @ - new_frame_gas],
                        Call("near", c.frame, pc, new_frame_gas))
           /\ UNCHANGED sizes
  BY DEF NearCall
<1> DEFINE c == Charge(Top, cost)
           g == IF gas_to_pass = 0 THEN c.gas ELSE Min({gas_to_pass, c.gas})
           caller == [c EXCEPT !.gas = c.gas - g]
           callee == Call("near", c.frame, pc, g)
<1>2. Executes(cost) /\ EnterCall(caller, callee) /\ sizes' = sizes
  BY <1>1
<1>3. /\ Top \in CallRecord /\ c \in CallRecord /\ Spends(Top, c)
      /\ c.charged >= Top.charged
  BY <1>2, StaticCostPaid DEF Pays
<1>4. c.gas \in Nat /\ c.charged \in Nat /\ c.frame \in Nat \ {0}
  BY <1>3 DEF CallRecord
<1> HIDE DEF c
<1>5. g \in Nat /\ g <= c.gas
  <2>1. gas_to_pass \in Nat
    BY GasAssumption DEF GasAssumption
  <2>2. Min({gas_to_pass, c.gas}) \in Nat /\ Min({gas_to_pass, c.gas}) <= c.gas
    BY <1>4, <2>1, MinOfTwo
  <2> QED
    BY <1>4, <2>2
<1> HIDE DEF g
<1>6. /\ caller \in CallRecord
      /\ caller.kind = c.kind /\ caller.frame = c.frame /\ caller.given = c.given
      /\ caller.gas = c.gas - g /\ caller.charged = c.charged
  <2>1. c.gas - g \in Nat
    BY <1>4, <1>5
  <2> QED
    BY <1>3, <2>1 DEF CallRecord
<1>7. /\ callee \in CallRecord
      /\ callee.kind = "near" /\ callee.frame = c.frame
      /\ callee.gas = g /\ callee.given = g /\ callee.charged = 0
  BY <1>4, <1>5 DEF Call, CallRecord, PCs
<1>8. caller.gas + caller.charged + callee.given = Top.gas + Top.charged
  <2>1. c.gas + c.charged = Top.gas + Top.charged
    BY <1>3 DEF Spends
  <2>2. c.gas - g + c.charged + g = c.gas + c.charged
    BY <1>4, <1>5
  <2> QED
    BY <1>6, <1>7, <2>1, <2>2
<1>9. c.kind = Top.kind /\ c.frame = Top.frame /\ c.given = Top.given
  BY <1>3 DEF Spends
<1>10. /\ sizes' \in Seq(Sizes) /\ Len(sizes') = Top.frame
       /\ PaidFor(sizes, sizes', c.charged - Top.charged)
  <2> DEFINE s == sizes[Len(sizes)]
  <2>1. s \in Sizes /\ sizes' = [sizes EXCEPT ![Len(sizes)] = s] /\ Len(sizes) = Top.frame
    BY <1>2, SizesThere
  <2> DEFINE amount == c.charged - Top.charged
  <2>2. amount \in Int /\ Memory(s) - Memory(s) <= amount
    <3>1. Top.charged \in Nat /\ Memory(s) \in Nat
      BY <1>3, <2>1, MemoryType DEF CallRecord
    <3> QED
      BY <1>3, <1>4, <3>1
  <2> HIDE DEF amount
  <2>3. LET ss == [sizes EXCEPT ![Len(sizes)] = s]
        IN ss \in Seq(Sizes) /\ Len(ss) = Len(sizes) /\ PaidFor(sizes, ss, amount)
    BY <2>1, <2>2, SizesReplaced
  <2> HIDE DEF s
  <2> QED
    BY <2>1, <2>3 DEF amount
<1> HIDE DEF caller, callee
<1>11. callee.frame = caller.frame + (IF callee.kind = "far" THEN 1 ELSE 0)
  BY <1>4, <1>6, <1>7
<1>12. /\ caller.charged >= Top.charged
       /\ PaidFor(sizes, sizes', caller.charged - Top.charged)
  BY <1>3, <1>6, <1>10
<1> QED
  BY <1>2, <1>6, <1>7, <1>8, <1>9, <1>10, <1>11, <1>12, EnterCallKeeps

\* far_call
LEMMA FarCallKeeps == IInv /\ FarCall => IInv'
<1> SUFFICES ASSUME IInv, FarCall PROVE IInv'
  OBVIOUS
<1> USE GasAssumption DEF GasAssumption
<1>1. PICK cost \in StaticCosts, p \in Pointers, mandated \in {0, MandatedGas},
           decommit \in DecommitCosts \cup {NoCode}, gas_to_pass \in Amounts :
        /\ Executes(cost) /\ Len(calls) < MaxDepth
        /\ FarCallWith(cost, p, mandated, decommit, gas_to_pass)
  BY DEF FarCall
<1> DEFINE frame == Len(sizes)
           resolved == GetCalldata(Charge(Top, cost), sizes[frame], p,
                                   decommit = NoCode)
           enough == CanPay(resolved.call, mandated)
           c == TakeMandated(resolved.call, mandated)
           taken == IF enough THEN mandated ELSE 0
           runs == enough /\ resolved.ok /\ decommit # NoCode
                     /\ CanPay(c, decommit)
           d == IF runs THEN Charge(c, decommit) ELSE c
           passed == Min({gas_to_pass, MaximumGas(d.gas)})
           caller == [d EXCEPT !.gas = d.gas - passed]
           callee == Call("far", frame + 1, IF runs THEN "code" ELSE "panic",
                          passed + taken)
<1>2. PICK stipend \in Stipends :
        /\ EnterCall(caller, callee)
        /\ sizes' = Append([sizes EXCEPT ![frame] = resolved.sizes],
                           [h \in Heaps |-> stipend])
  BY <1>1 DEF FarCallWith
<1>3. /\ frame \in Nat \ {0} /\ sizes[frame] \in Sizes /\ sizes \in Seq(Sizes)
  BY SizesThere
<1>4. Pays(Top, sizes[frame], resolved.call, resolved.sizes)
  <2>1. /\ Charge(Top, cost) \in CallRecord
        /\ Pays(Top, sizes[frame], Charge(Top, cost), sizes[frame])
    BY <1>1, StaticCostPaid
  <2>2. (decommit = NoCode) \in BOOLEAN
    OBVIOUS
  <2>3. Pays(Charge(Top, cost), sizes[frame], resolved.call, resolved.sizes)
    BY <1>3, <2>1, <2>2, GetCalldataPays
  <2> QED
    BY <2>1, <2>3, PaysTransitive
<1> DEFINE amount == resolved.call.charged - Top.charged
<1>5. /\ sizes' \in Seq(Sizes) /\ Len(sizes') = frame + 1
      /\ PaidFor(sizes, sizes', amount)
  <2> DEFINE paid == [sizes EXCEPT ![frame] = resolved.sizes]
             fresh == [h \in Heaps |-> stipend]
  <2>1. /\ paid \in Seq(Sizes) /\ Len(paid) = frame
        /\ PaidFor(sizes, paid, amount)
    <3> DEFINE t == resolved.sizes
    <3>0. resolved.call.charged \in Int /\ Top.charged \in Int
      BY <1>4 DEF Pays, Spends, CallRecord
    <3>1. /\ t \in Sizes /\ amount \in Int
          /\ Memory(t) - Memory(sizes[frame]) <= amount
      BY <1>4, <3>0 DEF Pays
    <3> HIDE DEF t, amount
    <3>2. LET ss == [sizes EXCEPT ![Len(sizes)] = t]
          IN ss \in Seq(Sizes) /\ Len(ss) = Len(sizes) /\ PaidFor(sizes, ss, amount)
      BY <3>1, SizesReplaced
    <3> QED
      BY <3>2 DEF t
  <2>2. fresh \in Sizes
    BY DEF Sizes
  <2>3. sizes' = Append(paid, fresh)
    BY <1>2
  <2>4. Memory(fresh) <= 2 * Max(Stipends)
    BY LargestStipend DEF Memory, Heaps
  <2> HIDE DEF paid, fresh, amount, frame
  <2>5. /\ sizes' \in Seq(Sizes) /\ Len(sizes') = frame + 1
        /\ sizes'[frame + 1] = fresh
        /\ \A f \in 1 .. frame : sizes'[f] = paid[f]
    BY <2>1, <2>2, <2>3, AppendProperties
  <2>6. ASSUME NEW f \in 1 .. frame + 1
        PROVE  /\ f < frame => sizes'[f] = sizes[f]
               /\ f = frame => Memory(sizes'[f]) - Memory(sizes[f]) <= amount
               /\ f > frame => Memory(sizes'[f]) <= 2 * Max(Stipends)
    <3>1. CASE f \in 1 .. frame
      <4>1. /\ f < frame => paid[f] = sizes[f]
            /\ f = frame => Memory(paid[f]) - Memory(sizes[f]) <= amount
            /\ f > frame => Memory(paid[f]) <= 2 * Max(Stipends)
        BY <2>1, <3>1 DEF PaidFor, frame
      <4> QED
        BY <2>5, <3>1, <4>1
    <3>2. CASE f = frame + 1
      BY <1>3, <2>4, <2>5, <3>2
    <3> QED
      BY <1>3, <3>1, <3>2
  <2> QED
    BY <2>5, <2>6 DEF PaidFor, frame
<1> HIDE DEF resolved
<1>6. /\ resolved.call \in CallRecord
      /\ resolved.call.kind = Top.kind /\ resolved.call.frame = Top.frame
      /\ resolved.call.given = Top.given
      /\ resolved.call.gas + resolved.call.charged = Top.gas + Top.charged
      /\ resolved.call.charged >= Top.charged
  BY <1>4 DEF Pays, Spends
<1>7. mandated \in Nat /\ mandated <= MandatedGas
  BY <1>1
<1>8. /\ c \in CallRecord /\ taken \in Nat /\ taken <= mandated
      /\ c.kind = Top.kind /\ c.frame = Top.frame /\ c.given = Top.given
      /\ c.gas + c.charged + taken = Top.gas + Top.charged
      /\ c.charged >= resolved.call.charged
  <2> DEFINE r == resolved.call
  <2>1. /\ c \in CallRecord /\ taken \in Nat /\ taken <= mandated
        /\ c.kind = r.kind /\ c.frame = r.frame /\ c.given = r.given
        /\ c.gas + c.charged + taken = r.gas + r.charged
        /\ c.charged >= r.charged
    BY <1>6, <1>7, MandatedTaken
  <2> HIDE DEF c, taken
  <2> QED
    BY <1>6, <2>1
<1> HIDE DEF enough, c, taken
<1>9. Spends(c, d) /\ d.charged >= c.charged
  <2>1. CASE runs
    <3>1. decommit \in Nat /\ c.gas >= decommit
      BY <1>1, <2>1 DEF CanPay
    <3>2. c.charged \in Nat /\ sizes[frame] \in Sizes
      BY <1>3, <1>8 DEF CallRecord
    <3>3. Pays(c, sizes[frame], Charge(c, decommit), sizes[frame])
      BY <1>8, <3>1, <3>2, ChargePays
    <3> QED
      BY <2>1, <3>3 DEF Pays
  <2>2. CASE ~runs
    BY <1>8, <2>2 DEF Spends, CallRecord
  <2> QED
    BY <2>1, <2>2
<1>10. /\ d \in CallRecord /\ d.gas \in Nat /\ d.charged \in Nat
       /\ d.kind = Top.kind /\ d.frame = Top.frame /\ d.given = Top.given
       /\ d.gas + d.charged = c.gas + c.charged
       /\ d.charged >= resolved.call.charged
  <2>1. c.charged \in Nat /\ resolved.call.charged \in Nat
    BY <1>6, <1>8 DEF CallRecord
  <2> QED
    BY <1>8, <1>9, <2>1 DEF Spends, CallRecord
<1> HIDE DEF runs, d
<1>11. /\ passed \in Nat /\ passed <= d.gas
       /\ passed <= (Share - 1) * (d.gas - passed)
  <2>1. MaximumGas(d.gas) \in Nat
    <3> DEFINE q == d.gas \div Share
    <3>1. q \in Nat /\ Share - 1 \in Nat
      BY <1>10
    <3> HIDE DEF q
    <3>2. q * (Share - 1) \in Nat
      BY <3>1
    <3> QED
      BY <3>2 DEF MaximumGas, q
  <2>2. gas_to_pass \in Nat
    OBVIOUS
  <2>3. passed \in Nat /\ passed <= MaximumGas(d.gas)
    BY <2>1, <2>2, MinOfTwo
  <2> QED
    BY <1>10, <2>3, ShareIsKept
<1> HIDE DEF passed
<1>12. /\ caller \in CallRecord
       /\ caller.kind = Top.kind /\ caller.frame = Top.frame
       /\ caller.given = Top.given
       /\ caller.gas = d.gas - passed /\ caller.charged = d.charged
  <2>1. d.gas - passed \in Nat
    BY <1>10, <1>11
  <2> QED
    BY <1>10, <2>1 DEF CallRecord
<1>13. passed + taken \in Nat /\ frame + 1 \in Nat \ {0}
  BY <1>3, <1>8, <1>11
<1>14. /\ callee \in CallRecord
       /\ callee.kind = "far" /\ callee.frame = frame + 1
       /\ callee.gas = passed + taken /\ callee.given = passed + taken
       /\ callee.charged = 0
  BY <1>13 DEF Call, CallRecord, PCs, Targets
<1> HIDE DEF caller, callee
<1>15. caller.gas + caller.charged + callee.given = Top.gas + Top.charged
  <2>1. c.gas \in Nat /\ c.charged \in Nat
    BY <1>8 DEF CallRecord
  <2>2. d.gas - passed + d.charged + (passed + taken) = c.gas + c.charged + taken
    BY <1>8, <1>10, <1>11, <2>1
  <2> QED
    BY <1>8, <1>12, <1>14, <2>2
<1>16. callee.given <= (Share - 1) * caller.gas + MandatedGas
  <2> DEFINE kept == (Share - 1) * (d.gas - passed)
  <2>1. kept \in Nat
    <3>1. Share - 1 \in Nat /\ d.gas - passed \in Nat
      BY <1>10, <1>11
    <3> QED
      BY <3>1
  <2>2. passed <= kept
    BY <1>11
  <2>3. kept = (Share - 1) * caller.gas
    BY <1>12
  <2> HIDE DEF kept
  <2>4. passed + taken <= kept + MandatedGas
    BY <1>7, <1>8, <1>11, <2>1, <2>2
  <2> QED
    BY <1>14, <2>3, <2>4
<1>17. Top.frame = frame
  BY DEF IInv, GoodStack, Nested, Top
<1>19. /\ caller.charged >= Top.charged
       /\ PaidFor(sizes, sizes', caller.charged - Top.charged)
  <2>1. /\ Top.charged \in Nat /\ resolved.call.charged \in Nat
        /\ d.charged \in Nat
    BY <1>4, <1>6, <1>10 DEF Pays, CallRecord
  <2>2. /\ caller.charged >= Top.charged /\ amount \in Int
        /\ caller.charged - Top.charged \in Int
        /\ amount <= caller.charged - Top.charged
    BY <1>6, <1>10, <1>12, <2>1
  <2> HIDE DEF amount
  <2>3. PaidFor(sizes, sizes', caller.charged - Top.charged)
    BY <1>3, <1>5, <2>2, MorePaid
  <2> QED
    BY <2>2, <2>3
<1> HIDE DEF frame, amount
<1>18. callee.frame = caller.frame + (IF callee.kind = "far" THEN 1 ELSE 0)
  BY <1>12, <1>14, <1>17
<1> QED
  BY <1>2, <1>5, <1>12, <1>14, <1>15, <1>16, <1>18, <1>19, EnterCallKeeps

\* Two ways to replace the last element of a sequence
LEMMA LastReplaced ==
  ASSUME NEW S, NEW s \in Seq(S), s # << >>, NEW d \in S
  PROVE  [s EXCEPT ![Len(s)] = d] = Append(SubSeq(s, 1, Len(s) - 1), d)
<1> DEFINE n == Len(s)
           front == SubSeq(s, 1, n - 1)
           a == [s EXCEPT ![n] = d]
           b == Append(front, d)
<1>1. /\ n \in Nat \ {0} /\ front \in Seq(S) /\ Len(front) = n - 1
      /\ \A i \in 1 .. n - 1 : front[i] = s[i]
  BY Pop
<1>2. n \in 1 .. Len(s)
  BY <1>1
<1>3. /\ a \in Seq(S) /\ Len(a) = n
      /\ \A j \in 1 .. n : a[j] = IF j = n THEN d ELSE s[j]
  BY <1>2, ExceptSeq
<1> HIDE DEF front
<1>4. /\ b \in Seq(S) /\ Len(b) = Len(front) + 1
      /\ b[Len(front) + 1] = d
      /\ \A i \in 1 .. Len(front) : b[i] = front[i]
  BY <1>1, AppendProperties
<1> HIDE DEF a, b, n
<1>5. Len(b) = n /\ b[n] = d /\ \A i \in 1 .. n - 1 : b[i] = s[i]
  BY <1>1, <1>4
<1>6. ASSUME NEW i \in 1 .. n PROVE a[i] = b[i]
  <2>1. i = n \/ i \in 1 .. n - 1
    BY <1>1
  <2> QED
    BY <1>1, <1>3, <1>5, <2>1
<1>7. a = b
  BY <1>3, <1>4, <1>5, <1>6, SeqEqual
<1> QED
  BY <1>7 DEF a, b, n, front

\* VirtualMachine::rollback
LEMMA HostRollbackKeeps == IInv /\ HostRollback => IInv'
<1> SUFFICES ASSUME IInv, HostRollback PROVE IInv'
  OBVIOUS
<1> DEFINE cs == snapshot[1].calls
           ss == snapshot[1].sizes
           top == cs[Len(cs)]
<1>1. GoodStack(cs, ss)
  BY DEF IInv, HostOK, HostRollback
<1>2. PICK pc \in Targets : calls' = [cs EXCEPT ![Len(cs)] = Resumed(top, pc)]
  BY DEF HostRollback, FrameRollback
<1>3. sizes' = ss
  BY DEF HostRollback, FrameRollback
<1> HIDE DEF cs, ss
<1>4. top \in CallRecord
  BY <1>1, GoodStackTypes
<1> HIDE DEF top
<1> DEFINE amount == Resumed(top, pc).charged - top.charged
<1>5. /\ Spends(top, Resumed(top, pc))
      /\ Resumed(top, pc).charged >= top.charged /\ amount = 0
  <2>1. Spends(top, top) /\ pc \in PCs
    BY <1>4 DEF Spends, PCs
  <2>2. Resumed(top, pc).charged = top.charged /\ top.charged \in Nat
    BY <1>4 DEF Resumed, CallRecord
  <2> QED
    BY <1>4, <2>1, <2>2, SpendsAtPc DEF Resumed
<1>6. Resumed(top, pc) \in CallRecord
  BY <1>5 DEF Spends
<1>7. cs \in Seq(CallRecord) /\ cs # << >> /\ ss \in Seq(Sizes)
  BY <1>1 DEF GoodStack
<1>8. calls' = Append(SubSeq(cs, 1, Len(cs) - 1), Resumed(top, pc))
  BY <1>2, <1>6, <1>7, LastReplaced
<1>a. PaidFor(ss, ss, amount)
  <2>1. ASSUME NEW f \in 1 .. Len(ss)
        PROVE  Memory(ss[f]) - Memory(ss[f]) <= amount /\ ~(f > Len(ss))
    <3>1. Memory(ss[f]) \in Nat /\ Len(ss) \in Nat
      BY <1>7, ElementOfSeq, MemoryType, LenProperties
    <3> HIDE DEF amount
    <3> QED
      BY <1>5, <3>1
  <2> QED
    BY <2>1 DEF PaidFor
<1>9. GoodStack(Append(SubSeq(cs, 1, Len(cs) - 1), Resumed(top, pc)), ss)
  BY <1>1, <1>5, <1>7, <1>a, TopSpends DEF top
<1>10. GoodStack(calls', sizes')
  BY <1>3, <1>8, <1>9
<1>11. HostOK' /\ limit' = << >>
  <2>1. snapshot' = << >> /\ limit' = << >> /\ answer'.outcome = "none"
    BY DEF HostRollback, NoAnswer
  <2>2. UNCHANGED << status, snapshots >>
    BY DEF HostRollback
  <2> QED
    BY <2>1, <2>2 DEF IInv, HostOK
<1> QED
  BY <1>10, <1>11 DEF IInv

\* resume_with_additional_gas_limit, before its loop
LEMMA ResumeKeeps == IInv /\ Resume => IInv'
<1> SUFFICES ASSUME IInv, Resume PROVE IInv'
  OBVIOUS
<1> DEFINE T == TotalUnspentGas(calls)
<1>1. PICK gas_limit \in GasLimits :
        limit' = << [gas_limit   |-> gas_limit,
                     minimum_gas |-> Max({0, T - gas_limit}),
                     started     |-> ContainedGas(calls),
                     unspent     |-> T] >>
  BY DEF Resume
<1>2. /\ status' = "running" /\ answer' = NoAnswer
      /\ UNCHANGED << calls, sizes, host >>
  BY DEF Resume
<1>3. T \in Nat /\ ContainedGas(calls) \in Nat /\ gas_limit \in Nat
  BY GasAssumption, TotalsType DEF GasAssumption, IInv, GoodStack
<1> DEFINE least == Max({0, T - gas_limit})
<1>4. least \in Nat /\ least >= T - gas_limit /\ least <= T
  <2> DEFINE d == T - gas_limit
  <2>0. d \in Int /\ d <= T
    BY <1>3
  <2> HIDE DEF d
  <2>1. \E x \in {0, d} : \A y \in {0, d} : x >= y
    BY <2>0
  <2>2. Max({0, d}) \in {0, d} /\ \A y \in {0, d} : Max({0, d}) >= y
    BY <2>1 DEF Max
  <2>3. Max({0, d}) \in Nat /\ Max({0, d}) >= d /\ Max({0, d}) <= T
    BY <1>3, <2>0, <2>2
  <2> QED
    BY <2>3 DEF d
<1>5. /\ Len(limit') = 1
      /\ limit'[1].gas_limit = gas_limit /\ limit'[1].minimum_gas = least
      /\ limit'[1].started = ContainedGas(calls) /\ limit'[1].unspent = T
  BY <1>1
<1> HIDE DEF T, least
<1>6. WithinLimit(calls', limit'[1], answer')
  <2>1. NoAnswer.outcome # "left"
    BY DEF NoAnswer
  <2> QED
    BY <1>2, <1>3, <1>4, <1>5, <2>1 DEF WithinLimit, T
<1>7. HostOK'
  BY <1>2, <1>5 DEF IInv, HostOK, host, NoAnswer
<1> QED
  BY <1>2, <1>6, <1>7 DEF IInv

\* Whatever an instruction or the host does, the invariant survives.
LEMMA NextKeeps == IInv /\ [Next]_vars => IInv'
<1> SUFFICES ASSUME IInv, [Next]_vars PROVE IInv'
  OBVIOUS
<1> USE GasAssumption DEF GasAssumption
<1>0. /\ Top \in CallRecord
      /\ sizes \in Seq(Sizes)
  BY GoodStackTypes DEF IInv, GoodStack, Top
<1> DEFINE s == sizes[Len(sizes)]
<1>a. Top.gas \in Nat /\ s \in Sizes
  BY <1>0, SizesThere DEF CallRecord
<1>b. Targets \subseteq PCs /\ "panic" \in PCs
  BY DEF PCs
<1>1. CASE PanicForFree
  <2>1. PICK cost \in StaticCosts : FreePanic(UseGas(Top, cost))
    BY <1>1 DEF PanicForFree
  <2>2. Pays(Top, s, UseGas(Top, cost), s)
    BY <1>0, <1>a, UseGasPays
  <2> QED
    BY <2>1, <2>2, FreePanicKeeps
<1>2. CASE SpontaneousPanic
  <2>1. Pays(Top, s, UseGas(Top, RETURN_COST), s)
    BY <1>0, <1>a, UseGasPays
  <2> QED
    BY <1>2, <2>1, FreePanicKeeps DEF SpontaneousPanic
<1>3. CASE InvalidInstruction
  <2>1. Pays(Top, s, UseGas(Top, Top.gas), s)
    BY <1>0, <1>a, UseGasPays
  <2> QED
    BY <1>3, <2>1, FreePanicKeeps DEF InvalidInstruction
<1>4. CASE Compute
  <2>1. PICK cost \in StaticCosts, pc \in PCs :
          /\ Executes(cost)
          /\ Continue(Charge(Top, cost), pc)
          /\ UNCHANGED sizes
    BY <1>4 DEF Compute
  <2>2. Pays(Top, s, Charge(Top, cost), s)
    BY <2>1, StaticCostPaid
  <2> QED
    BY <2>1, <2>2, ContinueSameSizesKeeps
<1>5. CASE AccessStorage
  <2>1. PICK cost \in StaticCosts, refund \in Amounts, pc \in Targets :
          /\ Executes(cost) /\ refund < cost
          /\ Continue(Charge(Charge(Top, cost), -refund), pc)
          /\ UNCHANGED sizes
    BY <1>5 DEF AccessStorage
  <2> DEFINE c == Charge(Top, cost)
  <2>2. /\ c \in CallRecord /\ Pays(Top, s, c, s) /\ cost \in Nat
        /\ c.charged = Top.charged + cost
    BY <2>1, StaticCostPaid
  <2> HIDE DEF c
  <2>3. refund \in Nat /\ refund < cost
    BY <2>1
  <2>4. Pays(Top, s, Charge(c, -refund), s)
    BY <1>0, <1>a, <2>2, <2>3, Refunded
  <2> QED
    BY <1>b, <2>1, <2>4, ContinueSameSizesKeeps DEF c
<1>6. CASE BurnGas
  <2>1. PICK cost \in StaticCosts, amount \in Amounts, pc \in Targets :
          /\ Executes(cost)
          /\ Continue(UseGas(Charge(Top, cost), amount), pc)
          /\ UNCHANGED sizes
    BY <1>6 DEF BurnGas
  <2>2. Charge(Top, cost) \in CallRecord /\ Pays(Top, s, Charge(Top, cost), s)
    BY <2>1, StaticCostPaid
  <2>3. Pays(Top, s, UseGas(Charge(Top, cost), amount), s)
    BY <1>a, <2>2, UseGasPays, PaysTransitive
  <2> QED
    BY <1>b, <2>1, <2>3, ContinueSameSizesKeeps
<1>7. CASE RepeatDecommit
  <2>1. PICK cost \in StaticCosts, extra_cost \in Amounts, pc \in Targets :
          /\ Executes(cost) /\ CanPay(Charge(Top, cost), extra_cost)
          /\ Continue(Charge(UseGas(Charge(Top, cost), extra_cost), -extra_cost), pc)
          /\ UNCHANGED sizes
    BY <1>7 DEF RepeatDecommit
  <2> DEFINE c == Charge(Top, cost)
             d == UseGas(c, extra_cost)
  <2>2. /\ c \in CallRecord /\ Pays(Top, s, c, s) /\ cost \in Nat
        /\ c.charged = Top.charged + cost
    BY <2>1, StaticCostPaid
  <2>3. extra_cost \in Nat /\ CanPay(c, extra_cost)
    BY <2>1
  <2> HIDE DEF c
  <2>4. Pays(c, s, d, s) /\ d.charged = c.charged + extra_cost
    BY <1>a, <2>2, <2>3, UseGasPays
  <2> HIDE DEF d
  <2>5. Pays(Top, s, d, s)
    BY <2>2, <2>4, PaysTransitive
  <2>6. d \in CallRecord /\ d.charged = Top.charged + (cost + extra_cost)
    <3>1. Top.charged \in Nat
      BY <1>0 DEF CallRecord
    <3> QED
      BY <2>2, <2>3, <2>4, <3>1 DEF Pays, Spends
  <2>7. cost + extra_cost \in Nat /\ extra_cost <= cost + extra_cost
    BY <2>2, <2>3
  <2>8. Pays(Top, s, Charge(d, -extra_cost), s)
    BY <1>0, <1>a, <2>3, <2>5, <2>6, <2>7, Refunded
  <2> QED
    BY <1>b, <2>1, <2>8, ContinueSameSizesKeeps DEF c, d
<1>8. CASE AccessHeap
  <2>1. PICK cost \in StaticCosts, h \in Heaps, bound \in Bounds, pc \in Targets :
          LET frame == Len(sizes)
              grown == GrowHeap(Charge(Top, cost), sizes[frame], h, bound)
          IN /\ Executes(cost)
             /\ Continue(grown.call, IF grown.ok THEN pc ELSE "panic")
             /\ sizes' = [sizes EXCEPT ![frame] = grown.sizes]
    BY <1>8 DEF AccessHeap
  <2> DEFINE grown == GrowHeap(Charge(Top, cost), sizes[Len(sizes)], h, bound)
             to == IF grown.ok THEN pc ELSE "panic"
  <2>2. /\ Executes(cost) /\ Continue(grown.call, to)
        /\ sizes' = [sizes EXCEPT ![Len(sizes)] = grown.sizes]
    BY <2>1
  <2>3. Charge(Top, cost) \in CallRecord /\ Pays(Top, s, Charge(Top, cost), s)
    BY <2>2, StaticCostPaid
  <2>4. Pays(Charge(Top, cost), s, grown.call, grown.sizes)
    <3>1. bound \in 0..U32_MAX
      <4>1. Bounds \subseteq 0..U32_MAX
        OBVIOUS
      <4> QED
        BY <4>1
    <3> QED
      BY <1>a, <2>3, <3>1, GrowHeapPays
  <2> HIDE DEF grown
  <2>5. Pays(Top, s, grown.call, grown.sizes) /\ to \in PCs
    BY <1>b, <2>3, <2>4, PaysTransitive
  <2> QED
    BY <2>2, <2>5, ContinueKeeps
<1>9. CASE AccessOutOfRange
  <2>1. PICK cost \in StaticCosts :
          /\ Executes(cost)
          /\ Continue(UseGas(Charge(Top, cost), U32_MAX), "panic")
          /\ UNCHANGED sizes
    BY <1>9 DEF AccessOutOfRange
  <2>2. Charge(Top, cost) \in CallRecord /\ Pays(Top, s, Charge(Top, cost), s)
    BY <2>1, StaticCostPaid
  <2>3. Pays(Top, s, UseGas(Charge(Top, cost), U32_MAX), s)
    BY <1>a, <2>2, UseGasPays, PaysTransitive
  <2> QED
    BY <1>b, <2>1, <2>3, ContinueSameSizesKeeps
<1>10. CASE NearCall
  BY <1>10, NearCallKeeps
<1>11. CASE FarCall
  BY <1>11, FarCallKeeps
<1>12. CASE Ret
  <2>1. PICK cost \in StaticCosts, p \in Pointers, panics \in BOOLEAN :
          Executes(cost) /\ NakedRet(Charge(Top, cost), p, panics)
    BY <1>12 DEF Ret
  <2>2. Pays(Top, s, Charge(Top, cost), s)
    BY <2>1, StaticCostPaid
  <2> QED
    BY <2>1, <2>2, NakedRetKeeps
<1>13. CASE Run
  BY <1>13 DEF Run, IInv, HostOK, host, NoAnswer
<1>14. CASE Resume
  BY <1>14, ResumeKeeps
<1>15. CASE MakeSnapshot
  <2>1. /\ snapshot' = << [calls |-> calls, sizes |-> sizes] >>
        /\ snapshots < MaxSnapshots /\ snapshots' = snapshots + 1
        /\ UNCHANGED << calls, sizes, status, limit, answer >>
    BY <1>15 DEF MakeSnapshot
  <2>2. /\ Len(snapshot') = 1 /\ snapshots' \in 0..MaxSnapshots
        /\ snapshot'[1].calls = calls /\ snapshot'[1].sizes = sizes
    BY <2>1 DEF IInv, HostOK
  <2> QED
    BY <2>1, <2>2 DEF IInv, HostOK
<1>16. CASE HostRollback
  BY <1>16, HostRollbackKeeps
<1>17. CASE PopSnapshot
  <2>1. snapshot' = << >> /\ UNCHANGED << calls, sizes, status, limit, answer, snapshots >>
    BY <1>17 DEF PopSnapshot
  <2> QED
    BY <2>1 DEF IInv, HostOK
<1>18. CASE UNCHANGED vars
  BY <1>18 DEF vars, IInv, HostOK
<1> QED
  BY <1>1, <1>2, <1>3, <1>4, <1>5, <1>6, <1>7, <1>8, <1>9, <1>10, <1>11, <1>12,
     <1>13, <1>14, <1>15, <1>16, <1>17, <1>18 DEF Next, Instruction, Host

-----------------------------------------------------------------------------
(* The theorems *)

\* Every reachable state satisfies the inductive invariant.
THEOREM GasInvariant == Spec => []IInv
<1>1. Init => IInv
  BY InitHolds
<1>2. IInv /\ [Next]_vars => IInv'
  BY NextKeeps
<1> QED
  BY <1>1, <1>2, PTL DEF Spec

\* Gas and charges never go negative, paid sizes fit 32 bits, and there is
\* always a call to execute.
THEOREM CallTypes == Spec => []TypeOK
<1>1. IInv => TypeOK
  <2> SUFFICES ASSUME IInv PROVE TypeOK
    OBVIOUS
  <2>1. sizes # << >>
    <3>1. Len(sizes) \in Nat \ {0}
      <4>1. Len(sizes) = Top.frame
        BY DEF IInv, GoodStack, Nested, Top
      <4> QED
        BY <4>1, GoodStackTypes DEF IInv, Top
    <3> QED
      BY <3>1
  <2> QED
    BY <2>1 DEF IInv, GoodStack, HostOK, TypeOK
<1> QED
  BY <1>1, GasInvariant, PTL

\* Gas is moved between calls and used up, never made: not by a refund, a
\* return, a burned remainder, or a rollback of the host.
THEOREM GasIsMoved == Spec => []EveryCallBalances
<1>1. IInv => EveryCallBalances
  BY DEF IInv, GoodStack, EveryCallBalances
<1> QED
  BY <1>1, GasInvariant, PTL

\* Whatever a far call asks for, its caller keeps one part in Share of what it
\* had when the call was entered, and has it while the callee runs.
THEOREM SharesAreKept == Spec => []CallerKeepsItsShare
<1>1. IInv => CallerKeepsItsShare
  BY DEF IInv, GoodStack, CallerKeepsItsShare
<1> QED
  BY <1>1, GasInvariant, PTL

\* Whatever the host takes back, memory was paid for: a frame's heaps have not
\* grown by more than what its calls were charged.
THEOREM MemoryIsPaid == Spec => []GrowthIsCharged
<1>1. IInv => GrowthIsCharged
  BY DEF IInv, GoodStack, GrowthIsCharged
<1> QED
  BY <1>1, GasInvariant, PTL

\* The additional gas limit of resume_with_additional_gas_limit bounds what the
\* program spends, on the way and at the end.
THEOREM LimitHolds == Spec => []LimitIsEnforced
<1>1. IInv => LimitIsEnforced
  <2> SUFFICES ASSUME IInv, limit # << >>, limit[1].started = limit[1].unspent
               PROVE  LET spent == limit[1].started - ContainedGas(calls)
                      IN /\ answer # Exceeded => spent <= limit[1].gas_limit
                         /\ answer.outcome = "left" => answer.gas <= limit[1].gas_limit
    BY DEF LimitIsEnforced
  <2> DEFINE l == limit[1]
             T == TotalUnspentGas(calls)
             C == ContainedGas(calls)
  <2>1. WithinLimit(calls, l, answer)
    BY DEF IInv
  <2>2. T \in Nat /\ C \in Nat /\ T <= C
    BY TotalsType DEF IInv, GoodStack
  <2>3. /\ l.gas_limit \in Nat /\ l.unspent \in Nat /\ l.started = l.unspent
        /\ l.minimum_gas \in Nat /\ l.minimum_gas >= l.unspent - l.gas_limit
        /\ C <= l.started
        /\ answer # Exceeded => T >= l.minimum_gas
        /\ answer.outcome = "left" => answer.gas = T - l.minimum_gas
    BY <2>1 DEF WithinLimit
  <2> HIDE DEF T, C, l
  <2>4. answer # Exceeded => l.started - C <= l.gas_limit
    BY <2>2, <2>3
  <2>5. answer.outcome = "left" => answer.gas <= l.gas_limit
    BY <2>2, <2>3
  <2> QED
    BY <2>4, <2>5 DEF l, C
<1> QED
  BY <1>1, GasInvariant, PTL

=============================================================================
