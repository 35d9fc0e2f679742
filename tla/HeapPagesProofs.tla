---------------------------- MODULE HeapPagesProofs ----------------------------
(***************************************************************************)
(* No page is freed, emptied or shrunk that anybody may still read, and    *)
(* none is leaked, for any number of pages, chunks and bytecodes and any   *)
(* depth of calls, as long as kernel contracts do not return pages older   *)
(* than they are.                                                          *)
(***************************************************************************)
EXTENDS HeapPages, SequenceTheorems, WellFoundedInduction, TLAPS

-----------------------------------------------------------------------------
(* The inductive invariant, of frames fs, memory dyn, the next group nx and *)
(* decommitted code codes                                                   *)

Frames == [group : 0..MaxGroups, calldata : Pages, keeping : Seq(Pages),
           held : SUBSET Pointers]
Dynamics == Seq([Kinds -> Memory])
Codes == [Hashes -> {<< >>} \cup {<< p >> : p \in Pages}]

\* The pages that die with a frame
Has(f) == Owned(f) \cup ToSet(f.keeping)

HoldsIn(dyn, page, chunks) ==
  page.group = 0 \/ (At(dyn, page) # << >> /\ chunks \subseteq At(dyn, page)[1])

Typed(fs, dyn, nx, codes) ==
  /\ fs \in Seq(Frames) /\ Len(fs) >= 1
  /\ dyn \in Dynamics
  /\ nx \in 1..(MaxGroups + 1) /\ Len(dyn) < nx
  /\ codes \in Codes
  /\ fs[1].group = 0
  /\ \A i \in DOMAIN fs : i # 1 => fs[i].group \in 1..(nx - 1)

\* Who would miss what
Intact(fs, dyn, codes) ==
  /\ \A i \in DOMAIN fs : \A page \in Owned(fs[i]) : HoldsIn(dyn, page, Chunks)
  /\ \A i \in DOMAIN fs : \A p \in fs[i].held : HoldsIn(dyn, p.page, p.window)
  /\ \A page \in PagesOf(codes) : HoldsIn(dyn, page, Chunks)

\* A page that is not pinned dies once: with one frame, which lists it once.
Unique(fs, codes) ==
  /\ \A i \in DOMAIN fs : \A k \in DOMAIN fs[i].keeping :
       fs[i].keeping[k] \notin PagesOf(codes) =>
         /\ fs[i].keeping[k] \notin Owned(fs[i])
         /\ \A l \in DOMAIN fs[i].keeping :
              fs[i].keeping[l] = fs[i].keeping[k] => l = k
  /\ \A i \in DOMAIN fs, j \in DOMAIN fs :
       i # j => Has(fs[i]) \cap Has(fs[j]) \subseteq PagesOf(codes)

\* What is kept alive is there.
Kept(fs, dyn) ==
  \A i \in DOMAIN fs : \A page \in ToSet(fs[i].keeping) :
    page.group >= 1 /\ At(dyn, page) # << >>

\* A pointer is to the calldata, to a pinned page or to one that lives as long
\* as the frame; the calldata live as long as some frame below.
Reached(fs, codes) ==
  /\ \A i \in DOMAIN fs : \A p \in fs[i].held :
       p.page = fs[i].calldata \/ p.page \in PagesOf(codes) \cup Has(fs[i])
  /\ \A i \in DOMAIN fs :
       \/ fs[i].calldata.group = 0
       \/ fs[i].calldata \in PagesOf(codes)
       \/ \E j \in DOMAIN fs : j < i /\ fs[i].calldata \in Has(fs[j])

NoLeak(fs, dyn, codes) ==
  \A page \in Pages :
    At(dyn, page) # << >> =>
      page \in PagesOf(codes) \/ \E i \in DOMAIN fs : page \in Has(fs[i])

Good(fs, dyn, nx, codes) ==
  /\ Typed(fs, dyn, nx, codes)
  /\ Intact(fs, dyn, codes)
  /\ Unique(fs, codes)
  /\ Kept(fs, dyn)
  /\ Reached(fs, codes)
  /\ NoLeak(fs, dyn, codes)

\* The frames after a rollback
Relisted(f, list, held) == [f EXCEPT !.keeping = list, !.held = held]
Restored(fs, back) ==
  << Relisted(fs[1], SubSeq(fs[1].keeping, 1, back.keeping), back.held) >>

Snapshots ==
  [keeping : Nat, held : SUBSET Pointers, groups : Nat, next : 1..(MaxGroups + 1),
   decommitted : Codes, pages : Dynamics]

\* Nothing of what there was at the snapshot has changed: whatever can be
\* freed or written since belongs to later groups.
Newer(fs, dyn, nx, back) ==
  /\ back.next <= nx
  /\ back.groups = Len(back.pages) /\ back.groups <= Len(dyn)
  /\ \A g \in 1..back.groups : dyn[g] = back.pages[g]
  /\ back.keeping <= Len(fs[1].keeping)
  /\ \A k \in DOMAIN fs[1].keeping :
       k > back.keeping => fs[1].keeping[k].group >= back.next
  /\ \A i \in DOMAIN fs : i # 1 =>
       \A page \in Has(fs[i]) : page.group >= back.next

CanGoBack(fs, dyn, nx, back) ==
  /\ Newer(fs, dyn, nx, back)
  /\ Good(Restored(fs, back), back.pages, back.next, back.decommitted)

IInv ==
  /\ Good(frames, dynamic, next, decommitted)
  /\ snapshot # << >> =>
       /\ snapshot = << snapshot[1] >> /\ snapshot[1] \in Snapshots
       /\ CanGoBack(frames, dynamic, next, snapshot[1])
  /\ panic \in {"none", "rollback"}

-----------------------------------------------------------------------------
(* Pages and memory *)

LEMMA Bounds == MaxGroups \in Nat /\ MaxDepth \in Nat
  BY PageAssumption DEF PageAssumption

LEMMA SamePage ==
  ASSUME NEW p \in Pages, NEW q \in Pages
  PROVE  /\ p = q <=> p.group = q.group /\ p.kind = q.kind
         /\ p.group \in Nat /\ p.group <= MaxGroups
  BY Bounds DEF Pages

LEMMA MakePage ==
  ASSUME NEW g \in 0..MaxGroups, NEW kind \in Kinds
  PROVE  Page(g, kind) \in Pages /\ Page(g, kind).group = g /\ Page(g, kind).kind = kind
  BY DEF Page, Pages

LEMMA FramePages ==
  ASSUME NEW f \in Frames
  PROVE  /\ Heap(f) \in Pages /\ AuxHeap(f) \in Pages
         /\ Heap(f).group = f.group /\ AuxHeap(f).group = f.group
         /\ Heap(f).kind = "heap" /\ AuxHeap(f).kind = "aux" /\ Heap(f) # AuxHeap(f)
         /\ Owned(f) \subseteq Pages /\ Has(f) \subseteq Pages
         /\ f.group \in Nat /\ f.group <= MaxGroups /\ f.calldata \in Pages
         /\ f.keeping \in Seq(Pages) /\ f.held \subseteq Pointers
<1>1. /\ f.group \in 0..MaxGroups /\ f.calldata \in Pages
      /\ f.keeping \in Seq(Pages) /\ f.held \subseteq Pointers
  BY DEF Frames
<1>2. "heap" \in Kinds /\ "aux" \in Kinds
  BY DEF Kinds
<1>3. /\ Heap(f) \in Pages /\ AuxHeap(f) \in Pages
      /\ Heap(f).group = f.group /\ AuxHeap(f).group = f.group
      /\ Heap(f).kind = "heap" /\ AuxHeap(f).kind = "aux"
  BY <1>1, <1>2, MakePage DEF Heap, AuxHeap
<1>4. ToSet(f.keeping) \subseteq Pages
  BY <1>1 DEF ToSet
<1> QED
  BY <1>1, <1>3, <1>4, Bounds DEF Owned, Has

LEMMA EmptyGroupType == EmptyGroup \in [Kinds -> Memory]
  BY DEF EmptyGroup, Memory

LEMMA AtFacts ==
  ASSUME NEW dyn \in Dynamics, NEW page \in Pages
  PROVE  /\ At(dyn, page) \in Memory
         /\ At(dyn, page) = IF page.group \in 1..Len(dyn) /\ page.kind \in Kinds
                            THEN dyn[page.group][page.kind] ELSE << >>
<1>1. DOMAIN dyn = 1..Len(dyn) /\ \A g \in 1..Len(dyn) : dyn[g] \in [Kinds -> Memory]
  BY DEF Dynamics
<1> QED
  BY <1>1 DEF At, Memory

LEMMA PutFacts ==
  ASSUME NEW dyn \in Dynamics, NEW page \in Pages, page.group >= 1,
         page.kind \in Kinds, NEW m \in Memory
  PROVE  LET after == Put(dyn, page, m)
         IN /\ after \in Dynamics
            /\ Len(after) = IF page.group > Len(dyn) THEN page.group ELSE Len(dyn)
            /\ \A q \in Pages : At(after, q) = IF q = page THEN m ELSE At(dyn, q)
            /\ \A g \in 1..Len(dyn) : g # page.group => after[g] = dyn[g]
<1> DEFINE g0 == page.group
           missing == [i \in 1..(g0 - Len(dyn)) |-> EmptyGroup]
           base == IF g0 > Len(dyn) THEN dyn \o missing ELSE dyn
           len == IF g0 > Len(dyn) THEN g0 ELSE Len(dyn)
           after == Put(dyn, page, m)
<1>1. g0 \in Nat /\ g0 >= 1 /\ Len(dyn) \in Nat
  BY SamePage DEF Dynamics
<1>2. /\ base \in Dynamics /\ Len(base) = len
      /\ \A g \in 1..len : base[g] = IF g <= Len(dyn) THEN dyn[g] ELSE EmptyGroup
  <2>1. CASE g0 > Len(dyn)
    <3>1. missing \in Dynamics /\ Len(missing) = g0 - Len(dyn)
      BY <1>1, <2>1, EmptyGroupType DEF Dynamics
    <3> HIDE DEF missing
    <3>2. /\ dyn \o missing \in Dynamics /\ Len(dyn \o missing) = g0
          /\ \A g \in 1..g0 : (dyn \o missing)[g]
               = IF g <= Len(dyn) THEN dyn[g] ELSE missing[g - Len(dyn)]
      <4> DEFINE m0 == missing
      <4> HIDE DEF m0
      <4>1. m0 \in Seq([Kinds -> Memory]) /\ dyn \in Seq([Kinds -> Memory])
        BY <3>1 DEF Dynamics, m0
      <4>2. /\ dyn \o m0 \in Seq([Kinds -> Memory])
            /\ Len(dyn \o m0) = Len(dyn) + Len(m0)
            /\ \A g \in 1..(Len(dyn) + Len(m0)) : (dyn \o m0)[g]
                 = IF g <= Len(dyn) THEN dyn[g] ELSE m0[g - Len(dyn)]
        BY <4>1, ConcatProperties
      <4>3. Len(dyn) + Len(m0) = g0
        BY <1>1, <3>1 DEF m0
      <4> QED
        BY <4>2, <4>3 DEF Dynamics, m0
    <3>3. \A g \in 1..g0 : ~ g <= Len(dyn) => missing[g - Len(dyn)] = EmptyGroup
      BY <1>1 DEF missing
    <3> QED
      BY <2>1, <3>2, <3>3
  <2>2. CASE ~ g0 > Len(dyn)
    BY <1>1, <2>2
  <2> QED
    BY <2>1, <2>2
<1>3. after = [base EXCEPT ![g0][page.kind] = m]
  <2>1. g0 # 0
    BY <1>1
  <2> QED
    BY <2>1 DEF Put
<1> HIDE DEF base, after
<1>4. g0 \in 1..len /\ len \in Nat
  BY <1>1
<1>5. base[g0] \in [Kinds -> Memory] /\ \A g \in 1..len : base[g] \in [Kinds -> Memory]
  BY <1>2, <1>4 DEF Dynamics
<1>6. /\ after \in Dynamics /\ Len(after) = len
      /\ \A g \in 1..len : g # g0 => after[g] = base[g]
      /\ \A kind \in Kinds :
           after[g0][kind] = IF kind = page.kind THEN m ELSE base[g0][kind]
  <2> DEFINE group == [base[g0] EXCEPT ![page.kind] = m]
  <2>1. group \in [Kinds -> Memory]
    BY <1>5
  <2>2. \A kind \in Kinds : group[kind] = IF kind = page.kind THEN m ELSE base[g0][kind]
    BY <1>5
  <2>3. after = [base EXCEPT ![g0] = group]
    BY <1>3
  <2> HIDE DEF group, len, g0
  <2>4. base \in Dynamics /\ Len(base) = len
    BY <1>2
  <2>5. after \in Dynamics /\ Len(after) = len /\ after[g0] = group
        /\ \A g \in 1..len : g # g0 => after[g] = base[g]
    BY <1>4, <2>1, <2>3, <2>4 DEF Dynamics
  <2> QED
    BY <2>2, <2>5
<1>7. ASSUME NEW q \in Pages
      PROVE  At(after, q) = IF q = page THEN m ELSE At(dyn, q)
  <2>1. At(after, q) = IF q.group \in 1..len /\ q.kind \in Kinds
                       THEN after[q.group][q.kind] ELSE << >>
    BY <1>6, AtFacts
  <2>2. At(dyn, q) = IF q.group \in 1..Len(dyn) /\ q.kind \in Kinds
                     THEN dyn[q.group][q.kind] ELSE << >>
    BY AtFacts
  <2>3. q = page <=> q.group = g0 /\ q.kind = page.kind
    BY SamePage
  <2>4. \A kind \in Kinds : EmptyGroup[kind] = << >>
    BY DEF EmptyGroup
  <2>5. ASSUME q.group \in 1..len, q.kind \in Kinds, q # page
        PROVE  after[q.group][q.kind]
                 = IF q.group <= Len(dyn) THEN dyn[q.group][q.kind] ELSE << >>
    <3>1. after[q.group][q.kind] = base[q.group][q.kind]
      BY <1>6, <2>3, <2>5
    <3> QED
      BY <1>2, <2>4, <2>5, <3>1
  <2>6. q.group \in Nat
    BY SamePage
  <2> HIDE DEF g0
  <2>7. CASE q = page
    BY <1>4, <1>6, <2>1, <2>3, <2>7 DEF g0
  <2>8. CASE q # page
    BY <1>1, <1>4, <2>1, <2>2, <2>5, <2>6, <2>8
  <2> QED
    BY <2>7, <2>8
<1> QED
  BY <1>1, <1>2, <1>6, <1>7 DEF after

LEMMA DeallocateFacts ==
  ASSUME NEW dyn \in Dynamics, NEW doomed, NEW spared
  PROVE  LET after == Deallocate(dyn, doomed, spared)
         IN /\ after \in Dynamics /\ Len(after) = Len(dyn)
            /\ \A q \in Pages :
                 At(after, q) = IF q \in ToSet(doomed) \ spared THEN << >>
                                ELSE At(dyn, q)
            /\ \A g \in 1..Len(dyn) :
                 (\A page \in ToSet(doomed) \ spared : page.group # g)
                   => after[g] = dyn[g]
<1> DEFINE freed == ToSet(doomed) \ spared
           after == Deallocate(dyn, doomed, spared)
<1>1. after = [g \in 1..Len(dyn) |->
                 [kind \in Kinds |->
                    IF Page(g, kind) \in freed THEN << >> ELSE dyn[g][kind]]]
  BY DEF Deallocate, Dynamics
<1> HIDE DEF freed, after
<1>2. Len(dyn) \in Nat /\ \A g \in 1..Len(dyn) : dyn[g] \in [Kinds -> Memory]
  BY DEF Dynamics
<1>3. << >> \in Memory
  BY DEF Memory
<1>4. after \in Dynamics /\ Len(after) = Len(dyn)
  <2>1. \A g \in 1..Len(dyn) : after[g] \in [Kinds -> Memory]
    BY <1>1, <1>2, <1>3
  <2> QED
    BY <1>1, <1>2, <2>1 DEF Dynamics
<1>5. ASSUME NEW q \in Pages
      PROVE  At(after, q) = IF q \in freed THEN << >> ELSE At(dyn, q)
  <2>1. q = Page(q.group, q.kind)
    BY DEF Pages, Page
  <2>2. /\ At(after, q) = IF q.group \in 1..Len(dyn) /\ q.kind \in Kinds
                          THEN after[q.group][q.kind] ELSE << >>
        /\ At(dyn, q) = IF q.group \in 1..Len(dyn) /\ q.kind \in Kinds
                        THEN dyn[q.group][q.kind] ELSE << >>
    BY <1>4, AtFacts
  <2> QED
    BY <1>1, <2>1, <2>2
<1>6. ASSUME NEW g \in 1..Len(dyn), \A page \in freed : page.group # g
      PROVE  after[g] = dyn[g]
  <2>1. \A kind \in Kinds : Page(g, kind) \notin freed
    BY <1>6 DEF Page
  <2>2. after[g] = [kind \in Kinds |-> dyn[g][kind]]
    BY <1>1, <2>1
  <2> QED
    BY <1>2, <2>2
<1> QED
  BY <1>4, <1>5, <1>6 DEF after, freed

LEMMA MemoryFacts ==
  /\ << Chunks >> \in Memory /\ << >> \in Memory /\ << {} >> \in Memory
  /\ \A m \in Memory : m # << >> => m = << m[1] >> /\ m[1] \subseteq Chunks
  /\ \A m \in Memory, w \in SUBSET Chunks : m # << >> => << m[1] \cap w >> \in Memory
<1>1. << Chunks >> \in Memory /\ << >> \in Memory /\ << {} >> \in Memory
  <2>1. Chunks \in SUBSET Chunks /\ {} \in SUBSET Chunks
    OBVIOUS
  <2> QED
    BY <2>1 DEF Memory
<1>2. ASSUME NEW m \in Memory, m # << >>
      PROVE  m = << m[1] >> /\ m[1] \subseteq Chunks
  BY <1>2 DEF Memory
<1>3. ASSUME NEW m \in Memory, NEW w \in SUBSET Chunks, m # << >>
      PROVE  << m[1] \cap w >> \in Memory
  <2>1. m[1] \cap w \in SUBSET Chunks
    BY <1>2, <1>3
  <2> QED
    BY <2>1 DEF Memory
<1> QED
  BY <1>1, <1>2, <1>3

LEMMA WriteAllFacts ==
  ASSUME NEW dyn \in Dynamics, NEW page \in Pages, page.group >= 1, page.kind \in Kinds
  PROVE  LET after == WriteAll(dyn, page)
         IN /\ after \in Dynamics
            /\ Len(after) = IF page.group > Len(dyn) THEN page.group ELSE Len(dyn)
            /\ \A q \in Pages : At(after, q) = IF q = page THEN << Chunks >> ELSE At(dyn, q)
            /\ \A g \in 1..Len(dyn) : g # page.group => after[g] = dyn[g]
  BY PutFacts, MemoryFacts DEF WriteAll

\* A page that is owned is there, so that touching it changes nothing.
LEMMA TouchOwned ==
  ASSUME NEW dyn \in Dynamics, NEW page \in Pages, HoldsIn(dyn, page, Chunks)
  PROVE  Touch(dyn, page) = dyn
  BY DEF Touch, Put, HoldsIn

LEMMA CompactFacts ==
  ASSUME NEW dyn \in Dynamics, NEW page \in Pages, NEW w \in SUBSET Chunks
  PROVE  LET after == CompactToWindow(dyn, page, w)
         IN /\ after \in Dynamics /\ Len(after) = Len(dyn)
            /\ \A q \in Pages :
                 At(after, q) = IF q = page /\ At(dyn, q) # << >>
                                THEN << At(dyn, q)[1] \cap w >> ELSE At(dyn, q)
            /\ \A g \in 1..Len(dyn) : g # page.group => after[g] = dyn[g]
<1>1. CASE At(dyn, page) = << >>
  BY <1>1 DEF CompactToWindow
<1>2. CASE At(dyn, page) # << >>
  <2> DEFINE m == << At(dyn, page)[1] \cap w >>
  <2>1. At(dyn, page) \in Memory /\ page.group \in 1..Len(dyn) /\ page.kind \in Kinds
    BY <1>2, AtFacts
  <2>2. m \in Memory /\ Len(dyn) \in Nat
    <3>1. m \in Memory
      BY <1>2, <2>1, MemoryFacts, Zenon
    <3> QED
      BY <3>1 DEF Dynamics
  <2>3. CompactToWindow(dyn, page, w) = Put(dyn, page, m)
    BY <1>2 DEF CompactToWindow
  <2>4. page.group >= 1 /\ ~ page.group > Len(dyn)
    BY <2>1, <2>2
  <2> HIDE DEF m
  <2>5. LET after == Put(dyn, page, m)
        IN /\ after \in Dynamics /\ Len(after) = Len(dyn)
           /\ \A q \in Pages : At(after, q) = IF q = page THEN m ELSE At(dyn, q)
           /\ \A g \in 1..Len(dyn) : g # page.group => after[g] = dyn[g]
    BY <2>1, <2>2, <2>4, PutFacts
  <2> QED
    BY <1>2, <2>3, <2>5 DEF m
<1> QED
  BY <1>1, <1>2

LEMMA HoldFacts ==
  ASSUME NEW held, NEW p
  PROVE  Hold(held, p) \subseteq held \cup {p}
  BY DEF Hold

LEMMA Least ==
  ASSUME NEW T, T \subseteq Nat, T # {}
  PROVE  \E m \in T : \A j \in T : m <= j
<1>1. PICK m \in T : \A j \in T : ~ (<< j, m >> \in OpToRel(<, Nat))
  BY NatLessThanWellFounded, WFMin
<1>2. ASSUME NEW j \in T
      PROVE  m <= j
  <2>1. j \in Nat /\ m \in Nat
    OBVIOUS
  <2>2. j < m => << j, m >> \in OpToRel(<, Nat)
    BY <2>1, Zenon DEF OpToRel
  <2>3. ~ (j < m)
    BY <1>1, <2>2
  <2> QED
    BY <2>1, <2>3
<1> QED
  BY <1>2

\* What is retained is of the list and among the pages to retain.
LEMMA RetainFacts ==
  ASSUME NEW seq \in Seq(Pages), NEW pages
  PROVE  Retain(seq, pages) \in Seq(pages \cap ToSet(seq))
<1> DEFINE Fits(f, n) ==
             f = [i \in 0..n |->
                    IF i = 0 THEN << >>
                    ELSE IF seq[i] \in pages THEN Append(f[i - 1], seq[i])
                    ELSE f[i - 1]]
           S == pages \cap ToSet(seq)
           retained == CHOOSE f : Fits(f, Len(seq))
<1>1. Retain(seq, pages) = retained[Len(seq)]
  BY DEF Retain
<1>2. Len(seq) \in Nat
  OBVIOUS
<1>3. ASSUME NEW m \in Nat, m # 0, NEW f, Fits(f, m - 1)
      PROVE  \E g : Fits(g, m)
  <2> DEFINE last == IF seq[m] \in pages THEN Append(f[m - 1], seq[m]) ELSE f[m - 1]
             g == [i \in 0..m |-> IF i = m THEN last ELSE f[i]]
  <2>1. \A i \in 0..(m - 1) : g[i] = f[i]
    OBVIOUS
  <2>2. g[m] = last
    BY <1>3
  <2> HIDE DEF g, last
  <2>3. ASSUME NEW i \in 0..m
        PROVE  g[i] = IF i = 0 THEN << >>
                      ELSE IF seq[i] \in pages THEN Append(g[i - 1], seq[i])
                      ELSE g[i - 1]
    <3>1. CASE i = m
      <4>1. m - 1 \in 0..(m - 1)
        BY <1>3
      <4>2. g[m - 1] = f[m - 1]
        BY <2>1, <4>1
      <4> QED
        BY <1>3, <2>2, <3>1, <4>2 DEF last
    <3>2. CASE i # m
      <4>1. i \in 0..(m - 1) /\ (i # 0 => i - 1 \in 0..(m - 1))
        BY <3>2
      <4>2. f[i] = IF i = 0 THEN << >>
                   ELSE IF seq[i] \in pages THEN Append(f[i - 1], seq[i])
                   ELSE f[i - 1]
        BY <1>3, <4>1
      <4> QED
        BY <2>1, <4>1, <4>2
    <3> QED
      BY <3>1, <3>2
  <2>4. g = [i \in 0..m |-> g[i]]
    BY DEF g
  <2> QED
    BY <2>3, <2>4
<1>4. \A n \in Nat : \E f : Fits(f, n)
  <2> SUFFICES ASSUME \E n \in Nat : ~ \E f : Fits(f, n)
               PROVE  FALSE
    OBVIOUS
  <2> DEFINE T == {n \in Nat : ~ \E f : Fits(f, n)}
  <2>1. T \subseteq Nat /\ T # {}
    OBVIOUS
  <2>2. PICK m \in T : \A j \in T : m <= j
    <3> HIDE DEF T
    <3> QED
      BY <2>1, Least
  <2>3. m \in Nat /\ ~ \E f : Fits(f, m)
    BY <2>2
  <2>4. CASE m = 0
    <3> DEFINE f == [i \in 0..0 |-> << >>]
    <3>1. Fits(f, 0)
      OBVIOUS
    <3> QED
      BY <2>3, <2>4, <3>1
  <2>5. CASE m # 0
    <3> HIDE DEF Fits
    <3>1. m - 1 \in Nat /\ m - 1 < m
      BY <2>3, <2>5
    <3>2. PICK f : Fits(f, m - 1)
      <4>1. m - 1 \in T => m <= m - 1
        BY <2>2
      <4> QED
        BY <2>3, <3>1, <4>1
    <3> QED
      BY <1>3, <2>3, <2>5, <3>2
  <2> QED
    BY <2>4, <2>5
<1>5. Fits(retained, Len(seq))
  <2> HIDE DEF Fits
  <2> QED
    BY <1>2, <1>4
<1> HIDE DEF retained
<1>6. \A i \in 0..Len(seq) : retained[i] \in Seq(S)
  <2> SUFFICES ASSUME \E i \in 0..Len(seq) : retained[i] \notin Seq(S)
               PROVE  FALSE
    OBVIOUS
  <2> DEFINE T == {i \in 0..Len(seq) : retained[i] \notin Seq(S)}
  <2>1. T \subseteq Nat /\ T # {}
    OBVIOUS
  <2>2. PICK m \in T : \A j \in T : m <= j
    <3> HIDE DEF T
    <3> QED
      BY <2>1, Least
  <2>3. m \in 0..Len(seq) /\ retained[m] \notin Seq(S)
    BY <2>2
  <2>4. m # 0
    BY <1>2, <1>5, <2>3
  <2>5. m - 1 \in 0..Len(seq) /\ m - 1 \notin T
    BY <2>2, <2>3, <2>4
  <2>6. retained[m - 1] \in Seq(S)
    BY <2>5
  <2>7. retained[m] = IF seq[m] \in pages THEN Append(retained[m - 1], seq[m])
                      ELSE retained[m - 1]
    BY <1>5, <2>3, <2>4
  <2>8. seq[m] \in pages => seq[m] \in S
    BY <2>3, <2>4 DEF ToSet
  <2> HIDE DEF S
  <2> QED
    BY <2>3, <2>6, <2>7, <2>8
<1> QED
  BY <1>1, <1>2, <1>6

-----------------------------------------------------------------------------
(* Pins, frames and lists of pages *)

LEMMA PinType ==
  ASSUME NEW codes \in Codes
  PROVE  /\ PagesOf(codes) \subseteq Pages
         /\ \A h \in Hashes : codes[h] # << >> =>
              codes[h] = << codes[h][1] >> /\ codes[h][1] \in PagesOf(codes)
  BY DEF PagesOf, Codes

LEMMA PinOne ==
  ASSUME NEW codes \in Codes, NEW h \in Hashes, codes[h] = << >>, NEW page \in Pages
  PROVE  LET after == [codes EXCEPT ![h] = << page >>]
         IN after \in Codes /\ PagesOf(after) = PagesOf(codes) \cup {page}
<1> DEFINE after == [codes EXCEPT ![h] = << page >>]
<1>1. after \in Codes
  BY DEF Codes
<1>2. \A g \in Hashes : after[g] = IF g = h THEN << page >> ELSE codes[g]
  BY DEF Codes
<1> HIDE DEF after
<1>3. PagesOf(after) = PagesOf(codes) \cup {page}
  BY <1>2 DEF PagesOf
<1> QED
  BY <1>1, <1>3 DEF after

LEMMA PinAgain ==
  ASSUME NEW codes \in Codes, NEW h \in Hashes, codes[h] # << >>
  PROVE  [codes EXCEPT ![h] = << codes[h][1] >>] = codes
<1>1. codes[h] = << codes[h][1] >>
  BY PinType
<1> QED
  BY <1>1 DEF Codes

LEMMA AppendToList ==
  ASSUME NEW seq \in Seq(Pages), NEW page \in Pages
  PROVE  LET after == Append(seq, page)
         IN /\ after \in Seq(Pages) /\ ToSet(after) = ToSet(seq) \cup {page}
            /\ DOMAIN seq = 1..Len(seq) /\ Len(seq) \in Nat
            /\ DOMAIN after = 1..(Len(seq) + 1)
            /\ \A k \in 1..Len(seq) : after[k] = seq[k]
            /\ after[Len(seq) + 1] = page
<1> DEFINE after == Append(seq, page)
<1>1. /\ after \in Seq(Pages) /\ Len(seq) \in Nat
      /\ DOMAIN seq = 1..Len(seq) /\ DOMAIN after = 1..(Len(seq) + 1)
      /\ \A k \in 1..Len(seq) : after[k] = seq[k]
      /\ after[Len(seq) + 1] = page
  OBVIOUS
<1> HIDE DEF after
<1>2. ToSet(after) = ToSet(seq) \cup {page}
  BY <1>1 DEF ToSet
<1> QED
  BY <1>1, <1>2 DEF after

\* A frame that keeps one more page and has other pointers
LEMMA KeepFrame ==
  ASSUME NEW f \in Frames, NEW page \in Pages, NEW held \in SUBSET Pointers
  PROVE  LET g == [f EXCEPT !.keeping = Append(@, page), !.held = held]
         IN /\ g \in Frames /\ g.group = f.group /\ g.calldata = f.calldata
            /\ g.held = held /\ g.keeping = Append(f.keeping, page)
            /\ Owned(g) = Owned(f) /\ Has(g) = Has(f) \cup {page}
<1> DEFINE g == [f EXCEPT !.keeping = Append(@, page), !.held = held]
<1>1. f.keeping \in Seq(Pages)
  BY DEF Frames
<1>2. Append(f.keeping, page) \in Seq(Pages)
      /\ ToSet(Append(f.keeping, page)) = ToSet(f.keeping) \cup {page}
  BY <1>1, AppendToList
<1>3. /\ g \in Frames /\ g.group = f.group /\ g.calldata = f.calldata
      /\ g.held = held /\ g.keeping = Append(f.keeping, page)
  BY <1>2 DEF Frames
<1> HIDE DEF g
<1>4. Owned(g) = Owned(f)
  BY <1>3 DEF Owned, Heap, AuxHeap
<1> QED
  BY <1>2, <1>3, <1>4 DEF Has, g

\* A frame that only has other pointers
LEMMA HoldFrame ==
  ASSUME NEW f \in Frames, NEW held \in SUBSET Pointers
  PROVE  LET g == [f EXCEPT !.held = held]
         IN /\ g \in Frames /\ g.group = f.group /\ g.calldata = f.calldata
            /\ g.held = held /\ g.keeping = f.keeping
            /\ Owned(g) = Owned(f) /\ Has(g) = Has(f)
  BY DEF Frames, Owned, Has, Heap, AuxHeap

LEMMA GoodFrames ==
  ASSUME NEW fs, NEW dyn, NEW nx, NEW codes, Typed(fs, dyn, nx, codes)
  PROVE  /\ DOMAIN fs = 1..Len(fs) /\ Len(fs) \in Nat /\ Len(fs) >= 1
         /\ \A i \in DOMAIN fs : fs[i] \in Frames /\ Has(fs[i]) \subseteq Pages
                                 /\ Owned(fs[i]) \subseteq Has(fs[i])
                                 /\ ToSet(fs[i].keeping) \subseteq Has(fs[i])
                                 /\ fs[i].calldata \in Pages
                                 /\ fs[i].keeping \in Seq(Pages)
                                 /\ \A p \in fs[i].held : p.page \in Pages
                                                          /\ p.window \in SUBSET Chunks
         /\ dyn \in Dynamics /\ nx \in Nat /\ nx >= 1 /\ nx <= MaxGroups + 1
         /\ Len(dyn) \in Nat /\ Len(dyn) < nx
         /\ codes \in Codes /\ PagesOf(codes) \subseteq Pages
<1>1. fs \in Seq(Frames) /\ Len(fs) >= 1
  BY DEF Typed
<1>2. DOMAIN fs = 1..Len(fs) /\ Len(fs) \in Nat /\ \A i \in DOMAIN fs : fs[i] \in Frames
  BY <1>1
<1>3. ASSUME NEW f \in Frames
      PROVE  /\ Has(f) \subseteq Pages /\ Owned(f) \subseteq Has(f)
             /\ ToSet(f.keeping) \subseteq Has(f)
             /\ f.calldata \in Pages /\ f.keeping \in Seq(Pages)
             /\ \A p \in f.held : p.page \in Pages /\ p.window \in SUBSET Chunks
  <2>1. f.held \subseteq Pointers
    BY FramePages
  <2>2. \A p \in f.held : p.page \in Pages /\ p.window \in SUBSET Chunks
    BY <2>1 DEF Pointers
  <2> QED
    BY <2>2, FramePages DEF Has
<1>4. /\ dyn \in Dynamics /\ nx \in Nat /\ nx >= 1 /\ nx <= MaxGroups + 1
      /\ Len(dyn) \in Nat /\ Len(dyn) < nx
  <2>1. dyn \in Dynamics /\ nx \in 1..(MaxGroups + 1) /\ Len(dyn) < nx
    BY DEF Typed
  <2>2. Len(dyn) \in Nat
    BY <2>1 DEF Dynamics
  <2> QED
    BY <2>1, <2>2, Bounds
<1>5. codes \in Codes /\ PagesOf(codes) \subseteq Pages
  <2>1. codes \in Codes
    BY DEF Typed
  <2> QED
    BY <2>1, PinType
<1> QED
  BY <1>1, <1>2, <1>3, <1>4, <1>5

\* Memory in which every page is as it was or more complete
LEMMA HoldsMore ==
  ASSUME NEW dyn, NEW after, NEW page, NEW chunks \in SUBSET Chunks,
         HoldsIn(dyn, page, chunks),
         At(after, page) = At(dyn, page) \/ At(after, page) = << Chunks >>
  PROVE  HoldsIn(after, page, chunks)
<1>1. << Chunks >> # << >> /\ << Chunks >>[1] = Chunks
  OBVIOUS
<1> QED
  BY <1>1 DEF HoldsIn

\* Groups that are not allocated have no pages.
LEMMA NewGroupAbsent ==
  ASSUME NEW dyn \in Dynamics, NEW page \in Pages, page.group > Len(dyn)
  PROVE  At(dyn, page) = << >>
<1>1. Len(dyn) \in Nat /\ page.group \in Nat
  BY SamePage DEF Dynamics
<1> QED
  BY <1>1, AtFacts

-----------------------------------------------------------------------------
(* Decommitments and calls *)

LEMMA GoodLater ==
  ASSUME NEW fs, NEW dyn, NEW nx, NEW codes, Good(fs, dyn, nx, codes), nx <= MaxGroups
  PROVE  Good(fs, dyn, nx + 1, codes)
<1>1. Typed(fs, dyn, nx + 1, codes)
  <2>1. Typed(fs, dyn, nx, codes) /\ nx \in Nat /\ nx >= 1 /\ Len(dyn) \in Nat
    BY GoodFrames DEF Good
  <2>2. nx + 1 \in 1..(MaxGroups + 1) /\ Len(dyn) < nx + 1
    BY <2>1, Bounds DEF Typed
  <2>3. \A i \in DOMAIN fs : i # 1 => fs[i].group \in 1..(nx + 1 - 1)
    BY <2>1 DEF Typed
  <2> QED
    BY <2>1, <2>2, <2>3 DEF Typed
<1> QED
  BY <1>1 DEF Good

LEMMA KeptInBootloader ==
  ASSUME NEW fs, NEW dyn, NEW nx, NEW codes, Typed(fs, dyn, nx, codes),
         NEW page \in Pages
  PROVE  LET fs1 == KeepInBootloader(fs, page)
         IN /\ fs1 \in Seq(Frames) /\ Len(fs1) = Len(fs) /\ DOMAIN fs1 = DOMAIN fs
            /\ \A i \in DOMAIN fs : i # 1 => fs1[i] = fs[i]
            /\ fs1[1] \in Frames /\ fs1[1].group = fs[1].group
            /\ fs1[1].calldata = fs[1].calldata /\ fs1[1].held = fs[1].held
            /\ fs1[1].keeping = Append(fs[1].keeping, page)
            /\ Owned(fs1[1]) = Owned(fs[1]) /\ Has(fs1[1]) = Has(fs[1]) \cup {page}
<1> DEFINE fs1 == KeepInBootloader(fs, page)
           g == [fs[1] EXCEPT !.keeping = Append(@, page), !.held = fs[1].held]
<1>1. /\ 1 \in DOMAIN fs /\ fs[1] \in Frames /\ fs[1].held \in SUBSET Pointers
      /\ fs[1].keeping \in Seq(Pages) /\ fs \in Seq(Frames)
  <2>1. fs \in Seq(Frames)
    BY DEF Typed
  <2> QED
    BY <2>1, GoodFrames, FramePages
<1>2. /\ g \in Frames /\ g.group = fs[1].group /\ g.calldata = fs[1].calldata
      /\ g.held = fs[1].held /\ g.keeping = Append(fs[1].keeping, page)
      /\ Owned(g) = Owned(fs[1]) /\ Has(g) = Has(fs[1]) \cup {page}
  BY <1>1, KeepFrame
<1>3. g = [fs[1] EXCEPT !.keeping = Append(@, page)]
  BY <1>1 DEF Frames
<1> HIDE DEF g
<1>4. fs1 = [fs EXCEPT ![1] = g]
  BY <1>3 DEF KeepInBootloader
<1> HIDE DEF fs1
<1>5. /\ fs1 \in Seq(Frames) /\ Len(fs1) = Len(fs) /\ DOMAIN fs1 = DOMAIN fs
      /\ \A i \in DOMAIN fs : i # 1 => fs1[i] = fs[i]
      /\ fs1[1] = g
  BY <1>1, <1>2, <1>4
<1>6. /\ fs1 \in Seq(Frames) /\ Len(fs1) = Len(fs) /\ DOMAIN fs1 = DOMAIN fs
      /\ \A i \in DOMAIN fs : i # 1 => fs1[i] = fs[i]
      /\ fs1[1] \in Frames /\ fs1[1].group = fs[1].group
      /\ fs1[1].calldata = fs[1].calldata /\ fs1[1].held = fs[1].held
      /\ fs1[1].keeping = Append(fs[1].keeping, page)
      /\ Owned(fs1[1]) = Owned(fs[1]) /\ Has(fs1[1]) = Has(fs[1]) \cup {page}
  BY <1>2, <1>5
<1> QED
  BY <1>6, Zenon DEF fs1

\* Fresh code is written to a page of a new group, which the bootloader keeps.
Materialized(fs, dyn, nx, codes, h) ==
  LET page == Page(nx, "code")
      fs1 == KeepInBootloader(fs, page)
      dyn1 == WriteAll(dyn, page)
      codes1 == [codes EXCEPT ![h] = << page >>]
  IN /\ Good(fs1, dyn1, nx + 1, codes1)
     /\ At(dyn1, Page(nx, "heap")) = << >> /\ At(dyn1, Page(nx, "aux")) = << >>
     /\ \A g \in 1..Len(dyn) : dyn1[g] = dyn[g]
     /\ Len(dyn) <= Len(dyn1)
     /\ PagesOf(codes) \subseteq PagesOf(codes1)
     /\ Len(fs1) = Len(fs)
     /\ \A i \in DOMAIN fs : Has(fs[i]) \subseteq Has(fs1[i]) /\ fs1[i].held = fs[i].held

LEMMA GoodMaterialize ==
  ASSUME NEW fs, NEW dyn, NEW nx, NEW codes, Good(fs, dyn, nx, codes),
         nx <= MaxGroups, NEW h \in Hashes, codes[h] = << >>
  PROVE  Materialized(fs, dyn, nx, codes, h)
<1> DEFINE page == Page(nx, "code")
           fs1 == KeepInBootloader(fs, page)
           dyn1 == WriteAll(dyn, page)
           codes1 == [codes EXCEPT ![h] = << page >>]
<1>1. /\ Typed(fs, dyn, nx, codes) /\ Intact(fs, dyn, codes) /\ Unique(fs, codes)
      /\ Kept(fs, dyn) /\ Reached(fs, codes) /\ NoLeak(fs, dyn, codes)
  BY DEF Good
<1>2. /\ DOMAIN fs = 1..Len(fs) /\ Len(fs) \in Nat /\ Len(fs) >= 1
      /\ \A i \in DOMAIN fs : fs[i] \in Frames /\ Has(fs[i]) \subseteq Pages
                              /\ Owned(fs[i]) \subseteq Has(fs[i])
                              /\ ToSet(fs[i].keeping) \subseteq Has(fs[i])
                              /\ fs[i].calldata \in Pages
                              /\ fs[i].keeping \in Seq(Pages)
                              /\ \A p \in fs[i].held : p.page \in Pages
                                                       /\ p.window \in SUBSET Chunks
      /\ dyn \in Dynamics /\ nx \in Nat /\ nx >= 1 /\ Len(dyn) \in Nat /\ Len(dyn) < nx
      /\ codes \in Codes /\ PagesOf(codes) \subseteq Pages
  BY <1>1, GoodFrames
<1>3. /\ page \in Pages /\ page.group = nx /\ page.kind = "code" /\ page.kind \in Kinds
  <2>1. nx \in 0..MaxGroups /\ "code" \in Kinds
    BY <1>2, Bounds DEF Kinds
  <2> QED
    BY <2>1, MakePage
<1> HIDE DEF page
<1>4. /\ dyn1 \in Dynamics /\ Len(dyn1) = nx
      /\ \A q \in Pages : At(dyn1, q) = IF q = page THEN << Chunks >> ELSE At(dyn, q)
      /\ \A g \in 1..Len(dyn) : dyn1[g] = dyn[g]
  <2>1. page.group > Len(dyn) /\ \A g \in 1..Len(dyn) : g # page.group
    BY <1>2, <1>3
  <2> QED
    BY <1>2, <1>3, <2>1, WriteAllFacts
<1>5. codes1 \in Codes /\ PagesOf(codes1) = PagesOf(codes) \cup {page}
  BY <1>2, <1>3, PinOne
<1>6. /\ fs1 \in Seq(Frames) /\ Len(fs1) = Len(fs) /\ DOMAIN fs1 = DOMAIN fs
      /\ \A i \in DOMAIN fs : i # 1 => fs1[i] = fs[i]
      /\ fs1[1] \in Frames /\ fs1[1].group = fs[1].group
      /\ fs1[1].calldata = fs[1].calldata /\ fs1[1].held = fs[1].held
      /\ fs1[1].keeping = Append(fs[1].keeping, page)
      /\ Owned(fs1[1]) = Owned(fs[1]) /\ Has(fs1[1]) = Has(fs[1]) \cup {page}
  BY <1>1, <1>3, KeptInBootloader
<1> HIDE DEF fs1, dyn1, codes1
<1>7. \A i \in DOMAIN fs : /\ fs1[i].group = fs[i].group /\ fs1[i].calldata = fs[i].calldata
                           /\ fs1[i].held = fs[i].held /\ Owned(fs1[i]) = Owned(fs[i])
                           /\ Has(fs1[i]) \subseteq Has(fs[i]) \cup {page}
                           /\ Has(fs[i]) \subseteq Has(fs1[i])
  BY <1>6
<1>8. Typed(fs1, dyn1, nx + 1, codes1)
  <2>1. nx + 1 \in 1..(MaxGroups + 1)
    BY <1>2, Bounds
  <2>2. \A i \in DOMAIN fs1 : i # 1 => fs1[i].group \in 1..(nx + 1 - 1)
    BY <1>1, <1>2, <1>6 DEF Typed
  <2>3. fs1[1].group = 0
    BY <1>1, <1>6 DEF Typed
  <2> QED
    BY <1>2, <1>4, <1>5, <1>6, <2>1, <2>2, <2>3 DEF Typed
<1>9. \A q \in Pages, chunks \in SUBSET Chunks :
        HoldsIn(dyn, q, chunks) => HoldsIn(dyn1, q, chunks)
  BY <1>4, HoldsMore
<1>10. Intact(fs1, dyn1, codes1)
  <2>1. HoldsIn(dyn1, page, Chunks)
    BY <1>3, <1>4 DEF HoldsIn
  <2>2. ASSUME NEW i \in DOMAIN fs1, NEW q \in Owned(fs1[i])
        PROVE  HoldsIn(dyn1, q, Chunks)
    BY <1>1, <1>2, <1>6, <1>7, <1>9 DEF Intact
  <2>3. ASSUME NEW i \in DOMAIN fs1, NEW p \in fs1[i].held
        PROVE  HoldsIn(dyn1, p.page, p.window)
    BY <1>1, <1>2, <1>6, <1>7, <1>9 DEF Intact
  <2>4. ASSUME NEW q \in PagesOf(codes1)
        PROVE  HoldsIn(dyn1, q, Chunks)
    BY <1>1, <1>2, <1>5, <1>9, <2>1 DEF Intact
  <2> QED
    BY <2>2, <2>3, <2>4 DEF Intact
<1>11. Unique(fs1, codes1)
  <2>1. ASSUME NEW i \in DOMAIN fs1, NEW k \in DOMAIN fs1[i].keeping,
               fs1[i].keeping[k] \notin PagesOf(codes1)
        PROVE  /\ fs1[i].keeping[k] \notin Owned(fs1[i])
               /\ \A l \in DOMAIN fs1[i].keeping :
                    fs1[i].keeping[l] = fs1[i].keeping[k] => l = k
    <3>1. CASE i # 1
      BY <1>1, <1>5, <1>6, <2>1, <3>1 DEF Unique
    <3>2. CASE i = 1
      <4>1. /\ DOMAIN fs[1].keeping = 1..Len(fs[1].keeping)
            /\ Len(fs[1].keeping) \in Nat
            /\ DOMAIN fs1[1].keeping = 1..(Len(fs[1].keeping) + 1)
            /\ \A m \in 1..Len(fs[1].keeping) : fs1[1].keeping[m] = fs[1].keeping[m]
            /\ fs1[1].keeping[Len(fs[1].keeping) + 1] = page
        BY <1>2, <1>3, <1>6, AppendToList
      <4>2. \A l \in DOMAIN fs1[1].keeping :
              fs1[1].keeping[l] = fs1[1].keeping[k] => l \in DOMAIN fs[1].keeping
        BY <1>5, <2>1, <3>2, <4>1
      <4>3. k \in DOMAIN fs[1].keeping /\ fs1[1].keeping[k] = fs[1].keeping[k]
        BY <3>2, <4>1, <4>2
      <4>4. fs[1].keeping[k] \notin PagesOf(codes) /\ 1 \in DOMAIN fs
        BY <1>2, <1>5, <2>1, <3>2, <4>3
      <4>5. /\ fs[1].keeping[k] \notin Owned(fs[1])
            /\ \A l \in DOMAIN fs[1].keeping :
                 fs[1].keeping[l] = fs[1].keeping[k] => l = k
        BY <1>1, <4>3, <4>4 DEF Unique
      <4>6. \A l \in DOMAIN fs1[1].keeping :
              fs1[1].keeping[l] = fs1[1].keeping[k] => l = k
        BY <4>1, <4>2, <4>3, <4>5
      <4> QED
        BY <1>6, <3>2, <4>3, <4>5, <4>6
    <3> QED
      BY <3>1, <3>2
  <2>2. ASSUME NEW i \in DOMAIN fs1, NEW j \in DOMAIN fs1, i # j
        PROVE  Has(fs1[i]) \cap Has(fs1[j]) \subseteq PagesOf(codes1)
    <3>1. Has(fs[i]) \cap Has(fs[j]) \subseteq PagesOf(codes)
      BY <1>1, <1>6, <2>2 DEF Unique
    <3> QED
      BY <1>5, <1>6, <1>7, <3>1
  <2> QED
    BY <2>1, <2>2 DEF Unique
<1>12. Kept(fs1, dyn1)
  <2>1. ASSUME NEW i \in DOMAIN fs1, NEW q \in ToSet(fs1[i].keeping)
        PROVE  q.group >= 1 /\ At(dyn1, q) # << >>
    <3>1. CASE q = page
      <4>1. At(dyn1, q) = << Chunks >> /\ << Chunks >> # << >>
        BY <1>3, <1>4, <3>1
      <4> QED
        BY <1>2, <1>3, <3>1, <4>1
    <3>2. CASE q # page
      <4>1. q \in ToSet(fs[i].keeping)
        <5>1. ToSet(fs1[1].keeping) = ToSet(fs[1].keeping) \cup {page}
          BY <1>2, <1>3, <1>6, AppendToList
        <5> QED
          BY <1>6, <2>1, <3>2, <5>1
      <4> QED
        BY <1>1, <1>2, <1>4, <1>6, <3>2, <4>1 DEF Kept
    <3> QED
      BY <3>1, <3>2
  <2> QED
    BY <2>1 DEF Kept
<1>13. Reached(fs1, codes1)
  <2>1. ASSUME NEW i \in DOMAIN fs1, NEW p \in fs1[i].held
        PROVE  p.page = fs1[i].calldata \/ p.page \in PagesOf(codes1) \cup Has(fs1[i])
    BY <1>1, <1>5, <1>6, <1>7 DEF Reached
  <2>2. ASSUME NEW i \in DOMAIN fs1
        PROVE  \/ fs1[i].calldata.group = 0
               \/ fs1[i].calldata \in PagesOf(codes1)
               \/ \E j \in DOMAIN fs1 : j < i /\ fs1[i].calldata \in Has(fs1[j])
    BY <1>1, <1>5, <1>6, <1>7 DEF Reached
  <2> QED
    BY <2>1, <2>2 DEF Reached
<1>14. NoLeak(fs1, dyn1, codes1)
  BY <1>1, <1>4, <1>5, <1>6, <1>7 DEF NoLeak
<1>15. At(dyn1, Page(nx, "heap")) = << >> /\ At(dyn1, Page(nx, "aux")) = << >>
  <2>1. ASSUME NEW kind \in {"heap", "aux"}
        PROVE  At(dyn1, Page(nx, kind)) = << >>
    <3>1. kind \in Kinds /\ nx \in 0..MaxGroups /\ kind # "code"
      BY <1>2, Bounds DEF Kinds
    <3>2. /\ Page(nx, kind) \in Pages /\ Page(nx, kind).group = nx
          /\ Page(nx, kind).kind = kind
      BY <3>1, MakePage
    <3>3. At(dyn, Page(nx, kind)) = << >>
      BY <1>2, <3>2, NewGroupAbsent
    <3> QED
      BY <1>3, <1>4, <3>1, <3>2, <3>3
  <2> QED
    BY <2>1
<1>16. Good(fs1, dyn1, nx + 1, codes1)
  BY <1>8, <1>10, <1>11, <1>12, <1>13, <1>14 DEF Good
<1>17. /\ Good(fs1, dyn1, nx + 1, codes1)
       /\ At(dyn1, Page(nx, "heap")) = << >> /\ At(dyn1, Page(nx, "aux")) = << >>
       /\ \A g \in 1..Len(dyn) : dyn1[g] = dyn[g]
       /\ Len(dyn) <= Len(dyn1)
       /\ PagesOf(codes) \subseteq PagesOf(codes1)
       /\ Len(fs1) = Len(fs)
       /\ \A i \in DOMAIN fs : Has(fs[i]) \subseteq Has(fs1[i]) /\ fs1[i].held = fs[i].held
  BY <1>2, <1>4, <1>5, <1>6, <1>7, <1>15, <1>16
<1> QED
  BY <1>17, Zenon DEF Materialized, page, fs1, dyn1, codes1

\* A new frame has two new heaps, and at most pointers to its calldata.
Pushed(fs, dyn, nx, codes, c, held) ==
  LET fs1 == Append(fs, Frame(nx, c, held))
      dyn1 == Allocate(dyn, nx)
  IN /\ CanAllocate(dyn, nx)
     /\ Good(fs1, dyn1, nx + 1, codes)
     /\ Len(dyn) <= Len(dyn1)
     /\ \A g \in 1..Len(dyn) : g # nx => dyn1[g] = dyn[g]
     /\ \A page \in Has(fs1[Len(fs) + 1]) : page.group = nx

LEMMA GoodPush ==
  ASSUME NEW fs, NEW dyn, NEW nx, NEW codes, Good(fs, dyn, nx + 1, codes),
         nx \in 1..MaxGroups,
         At(dyn, Page(nx, "heap")) = << >>, At(dyn, Page(nx, "aux")) = << >>,
         NEW c \in Pages, NEW held \in SUBSET Pointers,
         \/ c.group = 0
         \/ c \in PagesOf(codes)
         \/ \E i \in DOMAIN fs : c \in Has(fs[i]),
         \A p \in held : p.page = c /\ HoldsIn(dyn, p.page, p.window)
  PROVE  Pushed(fs, dyn, nx, codes, c, held)
<1> DEFINE n == Len(fs) + 1
           f == Frame(nx, c, held)
           fs1 == Append(fs, f)
           dyn1 == Allocate(dyn, nx)
           heap == Page(nx, "heap")
           aux == Page(nx, "aux")
<1>1. /\ Typed(fs, dyn, nx + 1, codes) /\ Intact(fs, dyn, codes) /\ Unique(fs, codes)
      /\ Kept(fs, dyn) /\ Reached(fs, codes) /\ NoLeak(fs, dyn, codes)
  BY DEF Good
<1>2. /\ DOMAIN fs = 1..Len(fs) /\ Len(fs) \in Nat /\ Len(fs) >= 1
      /\ \A i \in DOMAIN fs : fs[i] \in Frames /\ Has(fs[i]) \subseteq Pages
                              /\ Owned(fs[i]) \subseteq Has(fs[i])
                              /\ ToSet(fs[i].keeping) \subseteq Has(fs[i])
                              /\ \A p \in fs[i].held : p.page \in Pages
                                                       /\ p.window \in SUBSET Chunks
      /\ dyn \in Dynamics /\ Len(dyn) \in Nat /\ Len(dyn) < nx + 1
      /\ codes \in Codes /\ PagesOf(codes) \subseteq Pages
  BY <1>1, GoodFrames
<1>3. /\ nx \in Nat /\ nx >= 1
      /\ heap \in Pages /\ heap.group = nx /\ heap.kind \in Kinds
      /\ aux \in Pages /\ aux.group = nx /\ aux.kind \in Kinds /\ heap # aux
  <2>1. nx \in 0..MaxGroups /\ "heap" \in Kinds /\ "aux" \in Kinds
    BY Bounds DEF Kinds
  <2> QED
    BY <2>1, MakePage, Bounds
<1>4. CanAllocate(dyn, nx)
  BY DEF CanAllocate
<1>5. dyn1 = WriteAll(WriteAll(dyn, heap), aux)
  BY DEF Allocate
<1> HIDE DEF heap, aux
<1>6. /\ dyn1 \in Dynamics /\ Len(dyn) <= Len(dyn1) /\ Len(dyn1) < nx + 1
      /\ \A q \in Pages : At(dyn1, q) = IF q \in {heap, aux} THEN << Chunks >> ELSE At(dyn, q)
      /\ \A g \in 1..Len(dyn) : g # nx => dyn1[g] = dyn[g]
  <2> DEFINE mid == WriteAll(dyn, heap)
  <2>1. /\ mid \in Dynamics
        /\ Len(mid) = IF nx > Len(dyn) THEN nx ELSE Len(dyn)
        /\ \A q \in Pages : At(mid, q) = IF q = heap THEN << Chunks >> ELSE At(dyn, q)
        /\ \A g \in 1..Len(dyn) : g # nx => mid[g] = dyn[g]
    BY <1>2, <1>3, WriteAllFacts
  <2> HIDE DEF mid
  <2>2. /\ WriteAll(mid, aux) \in Dynamics
        /\ Len(WriteAll(mid, aux)) = IF nx > Len(mid) THEN nx ELSE Len(mid)
        /\ \A q \in Pages : At(WriteAll(mid, aux), q)
                              = IF q = aux THEN << Chunks >> ELSE At(mid, q)
        /\ \A g \in 1..Len(mid) : g # nx => WriteAll(mid, aux)[g] = mid[g]
    BY <1>3, <2>1, WriteAllFacts
  <2>3. dyn1 = WriteAll(mid, aux)
    BY <1>5 DEF mid
  <2> HIDE DEF dyn1
  <2>4. Len(mid) = nx /\ Len(dyn1) = nx
    BY <1>2, <1>3, <2>1, <2>2, <2>3
  <2>5. \A g \in 1..Len(dyn) : g # nx => dyn1[g] = dyn[g]
    BY <1>2, <1>3, <2>1, <2>2, <2>3, <2>4
  <2> QED
    BY <1>2, <1>3, <2>1, <2>2, <2>3, <2>4, <2>5
<1>7. /\ f \in Frames /\ f.group = nx /\ f.calldata = c /\ f.keeping = << >>
      /\ f.held = held /\ Owned(f) = {heap, aux} /\ Has(f) = {heap, aux}
  <2>1. /\ f.group = nx /\ f.calldata = c /\ f.keeping = << >> /\ f.held = held
        /\ f \in Frames
    BY Bounds DEF Frame, Frames
  <2> HIDE DEF f
  <2>2. Owned(f) = {heap, aux}
    BY <2>1 DEF Owned, Heap, AuxHeap, heap, aux
  <2>3. ToSet(f.keeping) = {}
    BY <2>1 DEF ToSet
  <2> QED
    BY <2>1, <2>2, <2>3 DEF Has
<1> HIDE DEF f, dyn1
<1>8. /\ fs1 \in Seq(Frames) /\ Len(fs1) = n /\ DOMAIN fs1 = 1..n /\ fs1[n] = f
      /\ n \notin DOMAIN fs /\ DOMAIN fs1 = DOMAIN fs \cup {n}
      /\ \A i \in DOMAIN fs : fs1[i] = fs[i]
  BY <1>1, <1>2, <1>7 DEF Typed
<1> HIDE DEF n, fs1
<1>9. \A q \in Pages, chunks \in SUBSET Chunks :
        HoldsIn(dyn, q, chunks) => HoldsIn(dyn1, q, chunks)
  BY <1>6, HoldsMore
<1>10. /\ heap \notin PagesOf(codes) /\ aux \notin PagesOf(codes)
       /\ \A i \in DOMAIN fs : heap \notin Has(fs[i]) /\ aux \notin Has(fs[i])
  <2>1. ASSUME NEW q \in {heap, aux}
        PROVE  q \notin PagesOf(codes) /\ \A i \in DOMAIN fs : q \notin Has(fs[i])
    <3>1. At(dyn, q) = << >> /\ q.group # 0
      BY <1>3 DEF heap, aux
    <3>2. q \notin PagesOf(codes)
      BY <1>1, <3>1 DEF Intact, HoldsIn
    <3>3. \A i \in DOMAIN fs : q \notin Owned(fs[i])
      BY <1>1, <3>1 DEF Intact, HoldsIn
    <3>4. \A i \in DOMAIN fs : q \notin ToSet(fs[i].keeping)
      BY <1>1, <3>1 DEF Kept
    <3> QED
      BY <3>2, <3>3, <3>4 DEF Has
  <2> QED
    BY <2>1
<1>11. Typed(fs1, dyn1, nx + 1, codes)
  <2>1. ASSUME NEW i \in DOMAIN fs1, i # 1
        PROVE  fs1[i].group \in 1..(nx + 1 - 1)
    <3>1. CASE i = n
      BY <1>3, <1>7, <1>8, <3>1
    <3>2. CASE i # n
      <4>1. i \in DOMAIN fs /\ fs1[i] = fs[i]
        BY <1>8, <3>2
      <4>2. \A j \in DOMAIN fs : j # 1 => fs[j].group \in 1..(nx + 1 - 1)
        BY <1>1 DEF Typed
      <4> QED
        BY <2>1, <4>1, <4>2
    <3> QED
      BY <3>1, <3>2
  <2>2. 1 \in DOMAIN fs /\ Len(fs1) >= 1
    BY <1>2, <1>8 DEF n
  <2> QED
    BY <1>1, <1>2, <1>6, <1>8, <2>1, <2>2 DEF Typed
<1>12. Intact(fs1, dyn1, codes)
  <2>1. ASSUME NEW i \in DOMAIN fs1, NEW q \in Owned(fs1[i])
        PROVE  HoldsIn(dyn1, q, Chunks)
    <3>1. CASE i = n
      <4>1. At(dyn1, q) = << Chunks >> /\ << Chunks >> # << >>
        BY <1>3, <1>6, <1>7, <1>8, <3>1
      <4> QED
        BY <4>1 DEF HoldsIn
    <3>2. CASE i # n
      BY <1>1, <1>2, <1>8, <1>9, <3>2 DEF Intact
    <3> QED
      BY <3>1, <3>2
  <2>2. ASSUME NEW i \in DOMAIN fs1, NEW p \in fs1[i].held
        PROVE  HoldsIn(dyn1, p.page, p.window)
    <3>1. CASE i = n
      <4>1. p \in held /\ p.window \in SUBSET Chunks
        BY <1>7, <1>8, <3>1 DEF Pointers
      <4> QED
        BY <1>9, <4>1
    <3>2. CASE i # n
      BY <1>1, <1>2, <1>8, <1>9, <3>2 DEF Intact
    <3> QED
      BY <3>1, <3>2
  <2>3. ASSUME NEW q \in PagesOf(codes)
        PROVE  HoldsIn(dyn1, q, Chunks)
    BY <1>1, <1>2, <1>9 DEF Intact
  <2> QED
    BY <2>1, <2>2, <2>3 DEF Intact
<1>13. Unique(fs1, codes)
  <2>1. ASSUME NEW i \in DOMAIN fs1, NEW k \in DOMAIN fs1[i].keeping,
               fs1[i].keeping[k] \notin PagesOf(codes)
        PROVE  /\ fs1[i].keeping[k] \notin Owned(fs1[i])
               /\ \A l \in DOMAIN fs1[i].keeping :
                    fs1[i].keeping[l] = fs1[i].keeping[k] => l = k
    <3>1. i # n
      BY <1>7, <1>8, <2>1
    <3> QED
      BY <1>1, <1>8, <2>1, <3>1 DEF Unique
  <2>2. ASSUME NEW i \in DOMAIN fs1, NEW j \in DOMAIN fs1, i # j
        PROVE  Has(fs1[i]) \cap Has(fs1[j]) \subseteq PagesOf(codes)
    <3>1. CASE i = n \/ j = n
      BY <1>7, <1>8, <1>10, <2>2, <3>1
    <3>2. CASE i # n /\ j # n
      BY <1>1, <1>8, <2>2, <3>2 DEF Unique
    <3> QED
      BY <3>1, <3>2
  <2> QED
    BY <2>1, <2>2 DEF Unique
<1>14. Kept(fs1, dyn1)
  <2>1. ASSUME NEW i \in DOMAIN fs1, NEW q \in ToSet(fs1[i].keeping)
        PROVE  q.group >= 1 /\ At(dyn1, q) # << >>
    <3>1. i # n
      BY <1>7, <1>8 DEF ToSet
    <3>2. q \in Pages /\ q.group >= 1 /\ At(dyn, q) # << >> /\ << Chunks >> # << >>
      BY <1>1, <1>2, <1>8, <3>1 DEF Kept
    <3> QED
      BY <1>6, <3>2
  <2> QED
    BY <2>1 DEF Kept
<1>15. Reached(fs1, codes)
  <2>1. ASSUME NEW i \in DOMAIN fs1, NEW p \in fs1[i].held
        PROVE  p.page = fs1[i].calldata \/ p.page \in PagesOf(codes) \cup Has(fs1[i])
    BY <1>1, <1>7, <1>8 DEF Reached
  <2>2. ASSUME NEW i \in DOMAIN fs1
        PROVE  \/ fs1[i].calldata.group = 0
               \/ fs1[i].calldata \in PagesOf(codes)
               \/ \E j \in DOMAIN fs1 : j < i /\ fs1[i].calldata \in Has(fs1[j])
    <3>1. CASE i = n
      <4>1. \A j \in DOMAIN fs : j < n
        BY <1>2 DEF n
      <4> QED
        BY <1>7, <1>8, <3>1, <4>1
    <3>2. CASE i # n
      BY <1>1, <1>8, <3>2 DEF Reached
    <3> QED
      BY <3>1, <3>2
  <2> QED
    BY <2>1, <2>2 DEF Reached
<1>16. NoLeak(fs1, dyn1, codes)
  <2>1. ASSUME NEW q \in Pages, At(dyn1, q) # << >>
        PROVE  q \in PagesOf(codes) \/ \E i \in DOMAIN fs1 : q \in Has(fs1[i])
    BY <1>1, <1>6, <1>7, <1>8, <2>1 DEF NoLeak
  <2> QED
    BY <2>1 DEF NoLeak
<1>17. Good(fs1, dyn1, nx + 1, codes)
  BY <1>11, <1>12, <1>13, <1>14, <1>15, <1>16 DEF Good
<1>18. \A page \in Has(fs1[n]) : page.group = nx
  BY <1>3, <1>7, <1>8
<1>19. /\ CanAllocate(dyn, nx)
       /\ Good(fs1, dyn1, nx + 1, codes)
       /\ Len(dyn) <= Len(dyn1)
       /\ \A g \in 1..Len(dyn) : g # nx => dyn1[g] = dyn[g]
       /\ \A page \in Has(fs1[n]) : page.group = nx
  BY <1>4, <1>6, <1>17, <1>18
<1> QED
  BY <1>19, Zenon DEF Pushed, n, f, fs1, dyn1

-----------------------------------------------------------------------------
(* Returns *)

\* As good as Good, but for a page nobody may answer for
GoodBut(fs, dyn, nx, codes, loose) ==
  /\ Typed(fs, dyn, nx, codes)
  /\ Intact(fs, dyn, codes)
  /\ Unique(fs, codes)
  /\ Kept(fs, dyn)
  /\ Reached(fs, codes)
  /\ \A page \in Pages :
       At(dyn, page) # << >> =>
         \/ page = loose \/ page \in PagesOf(codes)
         \/ \E i \in DOMAIN fs : page \in Has(fs[i])

\* What a frame lists once it dies
LEMMA DoomedList ==
  ASSUME NEW f \in Frames
  PROVE  /\ Doomed(f) \in Seq(Pages) /\ ToSet(Doomed(f)) = Has(f)
         /\ Len(f.keeping) \in Nat /\ DOMAIN f.keeping = 1..Len(f.keeping)
         /\ DOMAIN Doomed(f) = 1..(Len(f.keeping) + 2)
         /\ Doomed(f)[1] = Heap(f) /\ Doomed(f)[2] = AuxHeap(f)
         /\ \A k \in DOMAIN Doomed(f) :
              k > 2 => k - 2 \in DOMAIN f.keeping /\ Doomed(f)[k] = f.keeping[k - 2]
<1> DEFINE own == << Heap(f), AuxHeap(f) >>
           seq == own \o f.keeping
<1>1. Heap(f) \in Pages /\ AuxHeap(f) \in Pages /\ f.keeping \in Seq(Pages)
  BY FramePages
<1>2. own \in Seq(Pages) /\ Len(own) = 2 /\ own[1] = Heap(f) /\ own[2] = AuxHeap(f)
  BY <1>1
<1> HIDE DEF own
<1>3. /\ seq \in Seq(Pages) /\ Len(seq) = 2 + Len(f.keeping)
      /\ \A k \in 1..(2 + Len(f.keeping)) :
           seq[k] = IF k <= 2 THEN own[k] ELSE f.keeping[k - 2]
  <2>1. /\ seq \in Seq(Pages) /\ Len(seq) = Len(own) + Len(f.keeping)
        /\ \A k \in 1..(Len(own) + Len(f.keeping)) :
             seq[k] = IF k <= Len(own) THEN own[k] ELSE f.keeping[k - Len(own)]
    BY <1>1, <1>2, ConcatProperties
  <2> HIDE DEF seq
  <2> QED
    BY <1>2, <2>1
<1> HIDE DEF seq
<1>4. Len(f.keeping) \in Nat /\ DOMAIN f.keeping = 1..Len(f.keeping)
  BY <1>1
<1>5. /\ DOMAIN seq = 1..(Len(f.keeping) + 2)
      /\ seq[1] = Heap(f) /\ seq[2] = AuxHeap(f)
  BY <1>2, <1>3, <1>4
<1>6. \A k \in DOMAIN seq : k > 2 => k - 2 \in DOMAIN f.keeping /\ seq[k] = f.keeping[k - 2]
  BY <1>3, <1>4, <1>5
<1>7. ToSet(seq) = Has(f)
  <2>1. ASSUME NEW page \in ToSet(seq)
        PROVE  page \in Has(f)
    <3>1. PICK k \in DOMAIN seq : page = seq[k]
      BY DEF ToSet
    <3>2. k = 1 \/ k = 2 \/ k > 2
      BY <1>4, <1>5
    <3> QED
      BY <1>5, <1>6, <3>1, <3>2 DEF Has, Owned, ToSet
  <2>2. ASSUME NEW page \in ToSet(f.keeping)
        PROVE  page \in ToSet(seq)
    <3>1. PICK k \in DOMAIN f.keeping : page = f.keeping[k]
      BY DEF ToSet
    <3> DEFINE m == k + 2
    <3>2. m \in DOMAIN seq /\ m > 2 /\ m - 2 = k
      BY <1>4, <1>5
    <3> HIDE DEF m
    <3>3. seq[m] = f.keeping[m - 2]
      BY <1>6, <3>2
    <3>4. seq[m] = page
      BY <3>1, <3>2, <3>3
    <3> QED
      BY <3>2, <3>4 DEF ToSet
  <2>3. Heap(f) \in ToSet(seq) /\ AuxHeap(f) \in ToSet(seq)
    <3>1. 1 \in DOMAIN seq /\ 2 \in DOMAIN seq
      BY <1>4, <1>5
    <3> QED
      BY <1>5, <3>1 DEF ToSet
  <2> QED
    BY <2>1, <2>2, <2>3 DEF Has, Owned
<1>8. seq = Doomed(f)
  BY DEF seq, own, Doomed
<1> QED
  BY <1>3, <1>4, <1>5, <1>6, <1>7, <1>8, Zenon

\* When a frame dies, deallocate meets no page that is not there, or twice.
LEMMA CanPop ==
  ASSUME NEW fs, NEW dyn, NEW nx, NEW codes, Good(fs, dyn, nx, codes),
         NEW i \in DOMAIN fs, i # 1, NEW kept
  PROVE  CanDeallocate(dyn, Doomed(fs[i]), PagesOf(codes) \cup {kept})
<1> DEFINE f == fs[i]
           doomed == Doomed(f)
<1>1. f \in Frames /\ f.group >= 1 /\ f.group \in Nat
  <2>1. Typed(fs, dyn, nx, codes)
    BY DEF Good
  <2>2. f \in Frames /\ nx \in Nat
    BY <2>1, GoodFrames
  <2> QED
    BY <2>1, <2>2, FramePages DEF Typed
<1>2. /\ doomed \in Seq(Pages) /\ DOMAIN f.keeping = 1..Len(f.keeping)
      /\ DOMAIN doomed = 1..(Len(f.keeping) + 2) /\ Len(f.keeping) \in Nat
      /\ doomed[1] = Heap(f) /\ doomed[2] = AuxHeap(f)
      /\ \A k \in DOMAIN doomed :
           k > 2 => k - 2 \in DOMAIN f.keeping /\ doomed[k] = f.keeping[k - 2]
  BY <1>1, DoomedList
<1>3. /\ Heap(f) # AuxHeap(f) /\ Heap(f).group # 0 /\ AuxHeap(f).group # 0
      /\ Owned(f) = {Heap(f), AuxHeap(f)}
  BY <1>1, FramePages DEF Owned
<1>4. /\ At(dyn, Heap(f)) # << >> /\ At(dyn, AuxHeap(f)) # << >>
      /\ \A k \in DOMAIN f.keeping : At(dyn, f.keeping[k]) # << >>
  <2>1. Intact(fs, dyn, codes) /\ Kept(fs, dyn)
    BY DEF Good
  <2>2. HoldsIn(dyn, Heap(f), Chunks) /\ HoldsIn(dyn, AuxHeap(f), Chunks)
    BY <1>3, <2>1 DEF Intact
  <2> QED
    BY <1>3, <2>1, <2>2 DEF HoldsIn, Kept, ToSet
<1>5. \A k \in DOMAIN f.keeping : f.keeping[k] \notin PagesOf(codes) =>
        /\ f.keeping[k] \notin Owned(f)
        /\ \A l \in DOMAIN f.keeping : f.keeping[l] = f.keeping[k] => l = k
  BY DEF Good, Unique
<1> HIDE DEF doomed, f
<1>6. ASSUME NEW k \in DOMAIN doomed, doomed[k] \notin PagesOf(codes)
      PROVE  /\ At(dyn, doomed[k]) # << >>
             /\ \A l \in DOMAIN doomed : doomed[l] = doomed[k] => l = k
  <2>1. \A l \in DOMAIN doomed : l \in Nat /\ (l = 1 \/ l = 2 \/ l > 2)
    BY <1>2
  <2>2. At(dyn, doomed[k]) # << >>
    BY <1>2, <1>4, <2>1
  <2>3. ASSUME NEW l \in DOMAIN doomed, doomed[l] = doomed[k]
        PROVE  l = k
    <3>1. CASE k > 2 /\ l > 2
      <4>1. k - 2 = l - 2
        BY <1>2, <1>5, <1>6, <2>3, <3>1
      <4> QED
        BY <2>1, <4>1
    <3>2. CASE ~(k > 2) /\ l > 2
      BY <1>2, <1>3, <1>5, <1>6, <2>1, <2>3, <3>2
    <3>3. CASE k > 2 /\ ~(l > 2)
      BY <1>2, <1>3, <1>5, <1>6, <2>1, <2>3, <3>3
    <3>4. CASE ~(k > 2) /\ ~(l > 2)
      BY <1>2, <1>3, <2>1, <2>3, <3>4
    <3> QED
      BY <3>1, <3>2, <3>3, <3>4
  <2> QED
    BY <2>2, <2>3
<1> QED
  BY <1>6 DEF CanDeallocate, doomed, f

LEMMA FrontFrames ==
  ASSUME NEW fs \in Seq(Frames), Len(fs) > 1
  PROVE  /\ Front(fs) \in Seq(Frames) /\ Len(Front(fs)) = Len(fs) - 1
         /\ Len(fs) \in DOMAIN fs
         /\ DOMAIN Front(fs) = DOMAIN fs \ {Len(fs)} /\ 1 \in DOMAIN Front(fs)
         /\ \A i \in DOMAIN Front(fs) : Front(fs)[i] = fs[i]
<1> DEFINE n == Len(fs) - 1
           front == SubSeq(fs, 1, n)
<1>1. n \in Nat /\ n >= 1 /\ n + 1 = Len(fs) /\ DOMAIN fs = 1..(n + 1)
  OBVIOUS
<1>2. \A i \in 1..n : fs[i] \in Frames
  BY <1>1
<1> HIDE DEF n
<1>3. /\ front \in Seq(Frames) /\ Len(front) = n
      /\ \A i \in 1..n : front[i] = fs[i]
  <2>1. front = [i \in 1..n |-> fs[i]]
    BY <1>1
  <2> QED
    BY <1>1, <1>2, <2>1
<1> HIDE DEF front
<1>4. DOMAIN front = 1..n
  BY <1>3
<1>5. Front(fs) = front
  BY DEF Front, front, n
<1>6. Len(fs) \in DOMAIN fs /\ 1..n = (1..(n + 1)) \ {n + 1} /\ 1 \in 1..n
  BY <1>1
<1>7. DOMAIN front = DOMAIN fs \ {Len(fs)} /\ 1 \in DOMAIN front
  BY <1>1, <1>4, <1>6
<1>8. \A i \in DOMAIN front : front[i] = fs[i]
  BY <1>3, <1>4
<1>9. Len(front) = Len(fs) - 1
  BY <1>1, <1>3
<1> QED
  BY <1>3, <1>5, <1>6, <1>7, <1>8, <1>9, Zenon

PopsTo(fs, dyn, nx, codes, kept) ==
  LET dyn1 == Deallocate(dyn, Doomed(fs[Len(fs)]), PagesOf(codes) \cup {kept})
  IN /\ GoodBut(Front(fs), dyn1, nx, codes, kept)
     /\ Len(dyn1) = Len(dyn)
     /\ kept \in Pages => At(dyn1, kept) = At(dyn, kept)
     /\ \A g \in 1..Len(dyn) :
          (\A page \in Has(fs[Len(fs)]) : page.group # g) => dyn1[g] = dyn[g]

LEMMA GoodPop ==
  ASSUME NEW fs, NEW dyn, NEW nx, NEW codes, Good(fs, dyn, nx, codes), Len(fs) > 1,
         NEW kept
  PROVE  PopsTo(fs, dyn, nx, codes, kept)
<1> DEFINE n == Len(fs)
           f == fs[n]
           spared == PagesOf(codes) \cup {kept}
           dyn1 == Deallocate(dyn, Doomed(f), spared)
           fs1 == Front(fs)
<1>1. /\ Typed(fs, dyn, nx, codes) /\ Intact(fs, dyn, codes) /\ Unique(fs, codes)
      /\ Kept(fs, dyn) /\ Reached(fs, codes) /\ NoLeak(fs, dyn, codes)
  BY DEF Good
<1>2. /\ DOMAIN fs = 1..Len(fs) /\ Len(fs) \in Nat
      /\ \A i \in DOMAIN fs : fs[i] \in Frames /\ Has(fs[i]) \subseteq Pages
                              /\ Owned(fs[i]) \subseteq Has(fs[i])
                              /\ ToSet(fs[i].keeping) \subseteq Has(fs[i])
                              /\ fs[i].calldata \in Pages
                              /\ \A p \in fs[i].held : p.page \in Pages
                                                       /\ p.window \in SUBSET Chunks
      /\ dyn \in Dynamics /\ Len(dyn) \in Nat
      /\ codes \in Codes /\ PagesOf(codes) \subseteq Pages
  BY <1>1, GoodFrames
<1>3. /\ fs1 \in Seq(Frames) /\ Len(fs1) = n - 1 /\ n \in DOMAIN fs
      /\ DOMAIN fs1 = DOMAIN fs \ {n} /\ 1 \in DOMAIN fs1
      /\ \A i \in DOMAIN fs1 : fs1[i] = fs[i] /\ i \in DOMAIN fs
  BY <1>1, FrontFrames DEF Typed
<1>4. ToSet(Doomed(f)) = Has(f)
  BY <1>2, <1>3, DoomedList
<1>5. /\ dyn1 \in Dynamics /\ Len(dyn1) = Len(dyn)
      /\ \A q \in Pages : At(dyn1, q) = IF q \in Has(f) \ spared THEN << >> ELSE At(dyn, q)
      /\ \A g \in 1..Len(dyn) :
           (\A page \in Has(f) \ spared : page.group # g) => dyn1[g] = dyn[g]
  BY <1>2, <1>4, DeallocateFacts
<1> HIDE DEF fs1, dyn1, n
<1>6. ASSUME NEW i \in DOMAIN fs1, NEW q \in Pages, q \in Has(fs[i]) \cup PagesOf(codes)
      PROVE  At(dyn1, q) = At(dyn, q)
  <2>1. i \in DOMAIN fs /\ i # n
    BY <1>3
  <2>2. q \in Has(f) => q \in PagesOf(codes)
    BY <1>1, <1>3, <1>6, <2>1 DEF Unique
  <2> QED
    BY <1>5, <2>2
<1>7. \A q \in Pages : \A chunks : At(dyn1, q) = At(dyn, q) /\ HoldsIn(dyn, q, chunks)
                                 => HoldsIn(dyn1, q, chunks)
  BY DEF HoldsIn
<1>8. Typed(fs1, dyn1, nx, codes)
  BY <1>1, <1>2, <1>3, <1>5 DEF Typed
<1>9. Intact(fs1, dyn1, codes)
  <2>1. ASSUME NEW i \in DOMAIN fs1, NEW q \in Owned(fs1[i])
        PROVE  HoldsIn(dyn1, q, Chunks)
    <3>1. q \in Pages /\ q \in Has(fs[i]) /\ HoldsIn(dyn, q, Chunks)
      BY <1>1, <1>2, <1>3 DEF Intact
    <3> QED
      BY <1>6, <1>7, <3>1
  <2>2. ASSUME NEW i \in DOMAIN fs1, NEW p \in fs1[i].held
        PROVE  HoldsIn(dyn1, p.page, p.window)
    <3>1. p.page \in Pages /\ HoldsIn(dyn, p.page, p.window) /\ fs1[i] = fs[i]
      BY <1>1, <1>2, <1>3 DEF Intact
    <3>2. CASE p.page \in PagesOf(codes) \cup Has(fs[i])
      BY <1>6, <1>7, <3>1, <3>2
    <3>3. CASE p.page = fs[i].calldata
      <4>1. \/ p.page.group = 0 \/ p.page \in PagesOf(codes)
            \/ \E j \in DOMAIN fs : j < i /\ p.page \in Has(fs[j])
        BY <1>1, <1>3, <3>3 DEF Reached
      <4>2. \A j \in DOMAIN fs : j < i => j \in DOMAIN fs1
        BY <1>2, <1>3 DEF n
      <4> QED
        BY <1>6, <1>7, <3>1, <4>1, <4>2 DEF HoldsIn
    <3>4. p.page = fs[i].calldata \/ p.page \in PagesOf(codes) \cup Has(fs[i])
      BY <1>1, <1>3 DEF Reached
    <3> QED
      BY <3>2, <3>3, <3>4
  <2>3. ASSUME NEW q \in PagesOf(codes)
        PROVE  HoldsIn(dyn1, q, Chunks)
    BY <1>1, <1>2, <1>3, <1>6, <1>7 DEF Intact
  <2> QED
    BY <2>1, <2>2, <2>3 DEF Intact
<1>10. Unique(fs1, codes)
  BY <1>1, <1>3 DEF Unique
<1>11. Kept(fs1, dyn1)
  <2>1. ASSUME NEW i \in DOMAIN fs1, NEW q \in ToSet(fs1[i].keeping)
        PROVE  q.group >= 1 /\ At(dyn1, q) # << >>
    <3>1. /\ q \in Pages /\ q \in Has(fs[i])
          /\ q.group >= 1 /\ At(dyn, q) # << >>
      BY <1>1, <1>2, <1>3 DEF Kept
    <3> QED
      BY <1>6, <3>1
  <2> QED
    BY <2>1 DEF Kept
<1>12. Reached(fs1, codes)
  <2>1. ASSUME NEW i \in DOMAIN fs1, NEW p \in fs1[i].held
        PROVE  p.page = fs1[i].calldata \/ p.page \in PagesOf(codes) \cup Has(fs1[i])
    BY <1>1, <1>3 DEF Reached
  <2>2. ASSUME NEW i \in DOMAIN fs1
        PROVE  \/ fs1[i].calldata.group = 0
               \/ fs1[i].calldata \in PagesOf(codes)
               \/ \E j \in DOMAIN fs1 : j < i /\ fs1[i].calldata \in Has(fs1[j])
    <3>1. \/ fs[i].calldata.group = 0
          \/ fs[i].calldata \in PagesOf(codes)
          \/ \E j \in DOMAIN fs : j < i /\ fs[i].calldata \in Has(fs[j])
      BY <1>1, <1>3 DEF Reached
    <3>2. \A j \in DOMAIN fs : j < i => j \in DOMAIN fs1
      BY <1>2, <1>3 DEF n
    <3> QED
      BY <1>3, <3>1, <3>2
  <2> QED
    BY <2>1, <2>2 DEF Reached
<1>13. ASSUME NEW q \in Pages, At(dyn1, q) # << >>
       PROVE  \/ q = kept \/ q \in PagesOf(codes)
              \/ \E i \in DOMAIN fs1 : q \in Has(fs1[i])
  <2>1. At(dyn, q) # << >> /\ q \notin Has(f) \ spared
    BY <1>5, <1>13
  <2>2. q \in PagesOf(codes) \/ \E i \in DOMAIN fs : q \in Has(fs[i])
    BY <1>1, <2>1 DEF NoLeak
  <2> QED
    BY <1>3, <2>1, <2>2
<1>14. GoodBut(fs1, dyn1, nx, codes, kept)
  BY <1>8, <1>9, <1>10, <1>11, <1>12, <1>13 DEF GoodBut
<1>15. /\ GoodBut(fs1, dyn1, nx, codes, kept)
       /\ Len(dyn1) = Len(dyn)
       /\ kept \in Pages => At(dyn1, kept) = At(dyn, kept)
       /\ \A g \in 1..Len(dyn) :
            (\A page \in Has(f) : page.group # g) => dyn1[g] = dyn[g]
  BY <1>5, <1>14
<1> QED
  BY <1>15, Zenon DEF PopsTo, fs1, dyn1, n

\* A page nobody answers for can be shrunk,
LEMMA GoodCompact ==
  ASSUME NEW fs, NEW dyn, NEW nx, NEW codes, NEW page \in Pages, NEW w \in SUBSET Chunks,
         GoodBut(fs, dyn, nx, codes, page), page.group >= 1,
         page \notin PagesOf(codes), \A i \in DOMAIN fs : page \notin Has(fs[i])
  PROVE  LET dyn1 == CompactToWindow(dyn, page, w)
         IN /\ GoodBut(fs, dyn1, nx, codes, page)
            /\ Len(dyn1) = Len(dyn)
            /\ HoldsIn(dyn, page, w) => HoldsIn(dyn1, page, w)
            /\ At(dyn, page) # << >> => At(dyn1, page) # << >>
            /\ \A g \in 1..Len(dyn) : g # page.group => dyn1[g] = dyn[g]
<1> DEFINE dyn1 == CompactToWindow(dyn, page, w)
<1>1. /\ Typed(fs, dyn, nx, codes) /\ Intact(fs, dyn, codes) /\ Unique(fs, codes)
      /\ Kept(fs, dyn) /\ Reached(fs, codes)
      /\ \A q \in Pages :
           At(dyn, q) # << >> =>
             \/ q = page \/ q \in PagesOf(codes)
             \/ \E i \in DOMAIN fs : q \in Has(fs[i])
  BY DEF GoodBut
<1>2. /\ \A i \in DOMAIN fs : /\ Has(fs[i]) \subseteq Pages
                              /\ Owned(fs[i]) \subseteq Has(fs[i])
                              /\ ToSet(fs[i].keeping) \subseteq Has(fs[i])
                              /\ \A p \in fs[i].held : p.page \in Pages
      /\ dyn \in Dynamics /\ PagesOf(codes) \subseteq Pages
  BY <1>1, GoodFrames
<1>3. /\ dyn1 \in Dynamics /\ Len(dyn1) = Len(dyn)
      /\ \A q \in Pages : q # page => At(dyn1, q) = At(dyn, q)
      /\ At(dyn, page) # << >> => At(dyn1, page) = << At(dyn, page)[1] \cap w >>
      /\ \A g \in 1..Len(dyn) : g # page.group => dyn1[g] = dyn[g]
  BY <1>2, CompactFacts
<1> HIDE DEF dyn1
<1>4. \A i \in DOMAIN fs : \A p \in fs[i].held : p.page # page
  <2>1. \A i \in DOMAIN fs : fs[i].calldata # page
    BY <1>1 DEF Reached
  <2> QED
    BY <1>1, <2>1 DEF Reached
<1>5. \A q \in Pages : \A chunks :
        q # page /\ HoldsIn(dyn, q, chunks) => HoldsIn(dyn1, q, chunks)
  BY <1>3 DEF HoldsIn
<1>6. Typed(fs, dyn1, nx, codes)
  BY <1>1, <1>3 DEF Typed
<1>7. Intact(fs, dyn1, codes)
  BY <1>1, <1>2, <1>4, <1>5 DEF Intact
<1>8. Kept(fs, dyn1)
  BY <1>1, <1>2, <1>3 DEF Kept
<1>9. \A q \in Pages :
        At(dyn1, q) # << >> =>
          \/ q = page \/ q \in PagesOf(codes)
          \/ \E i \in DOMAIN fs : q \in Has(fs[i])
  BY <1>1, <1>3
<1>10. GoodBut(fs, dyn1, nx, codes, page)
  BY <1>1, <1>6, <1>7, <1>8, <1>9 DEF GoodBut
<1>11. At(dyn, page) # << >> => At(dyn1, page) # << >>
  BY <1>3
<1>12. HoldsIn(dyn, page, w) => HoldsIn(dyn1, page, w)
  BY <1>3, <1>11 DEF HoldsIn
<1> QED
  BY <1>3, <1>10, <1>11, <1>12 DEF dyn1

\* and kept alive by the last frame, which gets a pointer to it.
Keeping(fs, p) ==
  [fs EXCEPT ![Len(fs)].keeping = Append(@, p.page), ![Len(fs)].held = Hold(@, p)]

KeepsIn(fs, dyn, nx, codes, p) ==
  LET n == Len(fs)
      fs1 == Keeping(fs, p)
  IN /\ Good(fs1, dyn, nx, codes)
     /\ fs1[n].group = fs[n].group /\ fs1[n].calldata = fs[n].calldata
     /\ Has(fs1[n]) = Has(fs[n]) \cup {p.page}
     /\ fs1[n].keeping = Append(fs[n].keeping, p.page)
     /\ DOMAIN fs1 = DOMAIN fs
     /\ \A i \in DOMAIN fs : i # n => fs1[i] = fs[i]

LEMMA GoodKeep ==
  ASSUME NEW fs, NEW dyn, NEW nx, NEW codes, NEW p \in Pointers,
         GoodBut(fs, dyn, nx, codes, p.page), p.page.group >= 1,
         At(dyn, p.page) # << >>, HoldsIn(dyn, p.page, p.window),
         p.page \in PagesOf(codes) \/ \A i \in DOMAIN fs : p.page \notin Has(fs[i])
  PROVE  KeepsIn(fs, dyn, nx, codes, p)
<1> DEFINE n == Len(fs)
           page == p.page
           held == Hold(fs[n].held, p)
           f == [fs[n] EXCEPT !.keeping = Append(@, page), !.held = held]
           fs1 == Keeping(fs, p)
<1>1. /\ Typed(fs, dyn, nx, codes) /\ Intact(fs, dyn, codes) /\ Unique(fs, codes)
      /\ Kept(fs, dyn) /\ Reached(fs, codes)
      /\ \A q \in Pages :
           At(dyn, q) # << >> =>
             \/ q = page \/ q \in PagesOf(codes)
             \/ \E i \in DOMAIN fs : q \in Has(fs[i])
  BY DEF GoodBut
<1>2. /\ DOMAIN fs = 1..Len(fs) /\ Len(fs) \in Nat /\ Len(fs) >= 1 /\ n \in DOMAIN fs
      /\ fs \in Seq(Frames)
      /\ \A i \in DOMAIN fs : fs[i] \in Frames /\ fs[i].keeping \in Seq(Pages)
      /\ page \in Pages
  <2>1. page \in Pages
    BY DEF Pointers
  <2> HIDE DEF page, f, fs1, held
  <2>2. fs \in Seq(Frames)
    BY <1>1 DEF Typed
  <2>3. /\ DOMAIN fs = 1..Len(fs) /\ Len(fs) \in Nat /\ Len(fs) >= 1
        /\ \A i \in DOMAIN fs : fs[i] \in Frames /\ fs[i].keeping \in Seq(Pages)
    BY <1>1, GoodFrames
  <2> QED
    BY <2>1, <2>2, <2>3
<1>3. /\ f \in Frames /\ f.group = fs[n].group /\ f.calldata = fs[n].calldata
      /\ f.held = held /\ f.keeping = Append(fs[n].keeping, page)
      /\ Owned(f) = Owned(fs[n]) /\ Has(f) = Has(fs[n]) \cup {page}
      /\ held \subseteq fs[n].held \cup {p}
  <2>1. held \subseteq fs[n].held \cup {p}
    BY HoldFacts
  <2>2. held \in SUBSET Pointers
    BY <1>2, <2>1, FramePages
  <2>3. fs[n] \in Frames /\ page \in Pages
    BY <1>2
  <2> HIDE DEF held, page, fs1, n
  <2>4. /\ f \in Frames /\ f.group = fs[n].group /\ f.calldata = fs[n].calldata
        /\ f.held = held /\ f.keeping = Append(fs[n].keeping, page)
        /\ Owned(f) = Owned(fs[n]) /\ Has(f) = Has(fs[n]) \cup {page}
    BY <2>2, <2>3, KeepFrame
  <2> QED
    BY <2>1, <2>4
<1>4. /\ fs1 \in Seq(Frames) /\ Len(fs1) = n /\ DOMAIN fs1 = DOMAIN fs /\ fs1[n] = f
      /\ \A i \in DOMAIN fs : i # n => fs1[i] = fs[i]
  <2>1. fs1 = [fs EXCEPT ![n] = f]
    BY <1>2, Zenon DEF Keeping
  <2>2. n = Len(fs)
    OBVIOUS
  <2> HIDE DEF f, fs1, n, held, page
  <2>3. fs \in Seq(Frames) /\ f \in Frames /\ n \in DOMAIN fs
    BY <1>2, <1>3
  <2> QED
    BY <2>1, <2>2, <2>3
<1> HIDE DEF f, fs1, n, held, page
<1>5. \A i \in DOMAIN fs : /\ fs1[i].group = fs[i].group /\ fs1[i].calldata = fs[i].calldata
                           /\ fs1[i].held \subseteq fs[i].held \cup (IF i = n THEN {p} ELSE {})
                           /\ Owned(fs1[i]) = Owned(fs[i])
                           /\ Has(fs1[i]) = Has(fs[i]) \cup (IF i = n THEN {page} ELSE {})
  BY <1>3, <1>4
<1>6. Typed(fs1, dyn, nx, codes)
  <2>1. 1 \in DOMAIN fs /\ Len(fs1) >= 1
    BY <1>2, <1>4 DEF n
  <2>2. fs1[1].group = 0
    BY <1>1, <1>5, <2>1 DEF Typed
  <2>3. \A i \in DOMAIN fs1 : i # 1 => fs1[i].group \in 1..(nx - 1)
    BY <1>1, <1>4, <1>5 DEF Typed
  <2> QED
    BY <1>1, <1>4, <2>1, <2>2, <2>3 DEF Typed
<1>7. Intact(fs1, dyn, codes)
  <2>1. ASSUME NEW i \in DOMAIN fs1, NEW q \in fs1[i].held
        PROVE  HoldsIn(dyn, q.page, q.window)
    BY <1>1, <1>4, <1>5 DEF Intact, page
  <2>2. ASSUME NEW i \in DOMAIN fs1, NEW q \in Owned(fs1[i])
        PROVE  HoldsIn(dyn, q, Chunks)
    BY <1>1, <1>4, <1>5 DEF Intact
  <2> QED
    BY <1>1, <2>1, <2>2 DEF Intact
<1>8. Unique(fs1, codes)
  <2>1. ASSUME NEW i \in DOMAIN fs1, NEW k \in DOMAIN fs1[i].keeping,
               fs1[i].keeping[k] \notin PagesOf(codes)
        PROVE  /\ fs1[i].keeping[k] \notin Owned(fs1[i])
               /\ \A l \in DOMAIN fs1[i].keeping :
                    fs1[i].keeping[l] = fs1[i].keeping[k] => l = k
    <3>1. CASE i # n
      BY <1>1, <1>4, <2>1, <3>1 DEF Unique
    <3>2. CASE i = n
      <4> DEFINE old == fs[n].keeping
                 new == fs1[n].keeping
      <4>1. /\ DOMAIN old = 1..Len(old) /\ Len(old) \in Nat
            /\ DOMAIN new = 1..(Len(old) + 1)
            /\ \A m \in 1..Len(old) : new[m] = old[m]
            /\ new[Len(old) + 1] = page
        <5>1. old \in Seq(Pages) /\ page \in Pages /\ new = Append(old, page)
          BY <1>2, <1>3, <1>4
        <5> HIDE DEF old, new
        <5> QED
          BY <5>1, AppendToList
      <4> HIDE DEF old, new
      <4>2. new[k] \notin PagesOf(codes) /\ k \in DOMAIN new
        BY <2>1, <3>2 DEF new
      <4>3. \A m \in DOMAIN old : old[m] \in Has(fs[n])
        BY DEF old, Has, ToSet
      <4>4. ASSUME NEW l \in DOMAIN new, new[l] = new[k]
            PROVE  l = k /\ new[k] \notin Owned(fs[n])
        <5>1. CASE l = Len(old) + 1 \/ k = Len(old) + 1
          <6>1. new[k] = page
            BY <4>1, <4>4, <5>1
          <6>2. page \notin Has(fs[n])
            BY <1>2, <4>2, <6>1 DEF page
          <6>3. l = Len(old) + 1 /\ k = Len(old) + 1
            BY <4>1, <4>2, <4>3, <4>4, <6>1, <6>2
          <6> QED
            BY <6>1, <6>2, <6>3 DEF Has
        <5>2. CASE l # Len(old) + 1 /\ k # Len(old) + 1
          <6>1. l \in DOMAIN old /\ k \in DOMAIN old /\ new[l] = old[l] /\ new[k] = old[k]
            BY <4>1, <4>2, <5>2
          <6> QED
            BY <1>1, <1>2, <4>2, <4>4, <6>1 DEF Unique, old
        <5> QED
          BY <5>1, <5>2
      <4> QED
        BY <1>5, <1>2, <3>2, <4>2, <4>4 DEF new
    <3> QED
      BY <3>1, <3>2
  <2>2. ASSUME NEW i \in DOMAIN fs1, NEW j \in DOMAIN fs1, i # j
        PROVE  Has(fs1[i]) \cap Has(fs1[j]) \subseteq PagesOf(codes)
    <3>1. Has(fs[i]) \cap Has(fs[j]) \subseteq PagesOf(codes)
      BY <1>1, <1>4, <2>2 DEF Unique
    <3>2. page \in PagesOf(codes) \/ (page \notin Has(fs[i]) /\ page \notin Has(fs[j]))
      BY <1>4 DEF page
    <3> QED
      BY <1>4, <1>5, <2>2, <3>1, <3>2
  <2> QED
    BY <2>1, <2>2 DEF Unique
<1>9. Kept(fs1, dyn)
  <2>1. ToSet(fs1[n].keeping) = ToSet(fs[n].keeping) \cup {page}
    <3>1. /\ fs[n].keeping \in Seq(Pages) /\ page \in Pages
          /\ fs1[n].keeping = Append(fs[n].keeping, page)
      BY <1>2, <1>3, <1>4
    <3> QED
      BY <3>1, AppendToList
  <2>2. ASSUME NEW i \in DOMAIN fs1, NEW q \in ToSet(fs1[i].keeping)
        PROVE  q.group >= 1 /\ At(dyn, q) # << >>
    BY <1>1, <1>2, <1>4, <2>1 DEF Kept, page
  <2> QED
    BY <2>2 DEF Kept
<1>10. Reached(fs1, codes)
  <2>1. ASSUME NEW i \in DOMAIN fs1, NEW q \in fs1[i].held
        PROVE  q.page = fs1[i].calldata \/ q.page \in PagesOf(codes) \cup Has(fs1[i])
    BY <1>1, <1>4, <1>5 DEF Reached, page
  <2>2. ASSUME NEW i \in DOMAIN fs1
        PROVE  \/ fs1[i].calldata.group = 0
               \/ fs1[i].calldata \in PagesOf(codes)
               \/ \E j \in DOMAIN fs1 : j < i /\ fs1[i].calldata \in Has(fs1[j])
    BY <1>1, <1>4, <1>5 DEF Reached
  <2> QED
    BY <2>1, <2>2 DEF Reached
<1>11. NoLeak(fs1, dyn, codes)
  BY <1>1, <1>2, <1>4, <1>5 DEF NoLeak
<1>12. /\ Good(fs1, dyn, nx, codes)
       /\ fs1[n].group = fs[n].group /\ fs1[n].calldata = fs[n].calldata
       /\ Has(fs1[n]) = Has(fs[n]) \cup {page}
       /\ fs1[n].keeping = Append(fs[n].keeping, page)
       /\ DOMAIN fs1 = DOMAIN fs
       /\ \A i \in DOMAIN fs : i # n => fs1[i] = fs[i]
  BY <1>1, <1>3, <1>4, <1>6, <1>7, <1>8, <1>9, <1>10, <1>11 DEF Good
<1> QED
  BY <1>12, Zenon DEF KeepsIn, n, fs1, page

-----------------------------------------------------------------------------
(* Going back to the snapshot *)

LEMMA Prefix ==
  ASSUME NEW seq \in Seq(Pages), NEW x \in Pages, NEW k \in Nat, k <= Len(seq)
  PROVE  SubSeq(Append(seq, x), 1, k) = SubSeq(seq, 1, k)
<1>1. Append(seq, x) \in Seq(Pages) /\ k <= Len(Append(seq, x))
      /\ \A i \in 1..Len(seq) : Append(seq, x)[i] = seq[i]
  BY AppendToList
<1>2. SubSeq(Append(seq, x), 1, k) = [i \in 1..k |-> Append(seq, x)[i]]
  BY <1>1
<1>3. SubSeq(seq, 1, k) = [i \in 1..k |-> seq[i]]
  OBVIOUS
<1>4. Len(seq) \in Nat /\ \A i \in 1..k : i \in 1..Len(seq)
  OBVIOUS
<1> QED
  BY <1>1, <1>2, <1>3, <1>4

LEMMA SameFrame ==
  ASSUME NEW f \in Frames, NEW g \in Frames, f.group = g.group,
         f.calldata = g.calldata, f.keeping = g.keeping, f.held = g.held
  PROVE  f = g
  BY DEF Frames

\* A frame with another list and other pointers
LEMMA BackFrame ==
  ASSUME NEW f \in Frames, NEW list \in Seq(Pages), NEW held \in SUBSET Pointers
  PROVE  /\ Relisted(f, list, held) \in Frames
         /\ Relisted(f, list, held).group = f.group
         /\ Relisted(f, list, held).calldata = f.calldata
         /\ Relisted(f, list, held).keeping = list
         /\ Relisted(f, list, held).held = held
         /\ Owned(Relisted(f, list, held)) = Owned(f)
  BY DEF Frames, Owned, Heap, AuxHeap, Relisted

LEMMA SameRestored ==
  ASSUME NEW fs, NEW fs1, NEW back, fs[1] \in Frames, fs1[1] \in Frames,
         fs1[1].group = fs[1].group, fs1[1].calldata = fs[1].calldata,
         NEW list \in Seq(Pages), back.held \in SUBSET Pointers,
         SubSeq(fs1[1].keeping, 1, back.keeping) = list,
         SubSeq(fs[1].keeping, 1, back.keeping) = list
  PROVE  Restored(fs1, back) = Restored(fs, back)
<1>1. /\ Restored(fs, back) = << Relisted(fs[1], list, back.held) >>
      /\ Restored(fs1, back) = << Relisted(fs1[1], list, back.held) >>
  BY DEF Restored
<1>2. Relisted(fs1[1], list, back.held) = Relisted(fs[1], list, back.held)
  BY BackFrame, SameFrame
<1> QED
  BY <1>1, <1>2

LEMMA SnapshotFacts ==
  ASSUME NEW back \in Snapshots, NEW fs, NEW dyn, NEW nx, CanGoBack(fs, dyn, nx, back)
  PROVE  /\ back.next \in Nat /\ back.groups \in Nat /\ back.groups < back.next
         /\ back.groups = Len(back.pages) /\ back.keeping \in Nat
         /\ back.pages \in Dynamics /\ back.held \in SUBSET Pointers
<1>1. /\ back.next \in Nat /\ back.groups \in Nat /\ back.keeping \in Nat
      /\ back.pages \in Dynamics /\ back.held \in SUBSET Pointers
  BY Bounds DEF Snapshots
<1>2. Len(back.pages) < back.next
  BY DEF CanGoBack, Good, Typed
<1>3. back.groups = Len(back.pages)
  BY DEF CanGoBack, Newer
<1> QED
  BY <1>1, <1>2, <1>3

\* What later groups have done does not matter.
LEMMA StillBack ==
  ASSUME NEW fs, NEW dyn, NEW nx, NEW codes, NEW fs1, NEW dyn1, NEW nx1, NEW codes1,
         Typed(fs, dyn, nx, codes), Typed(fs1, dyn1, nx1, codes1),
         NEW back \in Snapshots, CanGoBack(fs, dyn, nx, back),
         nx <= nx1, back.groups <= Len(dyn1),
         \A g \in 1..back.groups : dyn1[g] = dyn[g],
         fs1[1].group = fs[1].group, fs1[1].calldata = fs[1].calldata,
         \/ fs1[1].keeping = fs[1].keeping
         \/ \E x \in Pages : /\ x.group >= back.next
                             /\ fs1[1].keeping = Append(fs[1].keeping, x),
         \A i \in DOMAIN fs1 : i # 1 =>
           \A page \in Has(fs1[i]) : page.group >= back.next
  PROVE  CanGoBack(fs1, dyn1, nx1, back)
<1>1. /\ fs[1] \in Frames /\ fs[1].keeping \in Seq(Pages) /\ fs1[1] \in Frames
      /\ nx \in Nat /\ nx1 \in Nat
  BY GoodFrames
<1>2. back.next \in Nat /\ back.keeping \in Nat /\ Newer(fs, dyn, nx, back)
  BY SnapshotFacts DEF CanGoBack
<1>3. back.keeping <= Len(fs[1].keeping) /\ back.next <= nx
  BY <1>2 DEF Newer
<1>4. /\ SubSeq(fs1[1].keeping, 1, back.keeping) = SubSeq(fs[1].keeping, 1, back.keeping)
      /\ back.keeping <= Len(fs1[1].keeping)
      /\ \A k \in DOMAIN fs1[1].keeping :
           k > back.keeping => fs1[1].keeping[k].group >= back.next
  <2>1. CASE fs1[1].keeping = fs[1].keeping
    BY <1>2, <2>1 DEF Newer
  <2>2. ASSUME NEW x \in Pages, x.group >= back.next,
               fs1[1].keeping = Append(fs[1].keeping, x)
        PROVE  /\ SubSeq(fs1[1].keeping, 1, back.keeping)
                    = SubSeq(fs[1].keeping, 1, back.keeping)
               /\ back.keeping <= Len(fs1[1].keeping)
               /\ \A k \in DOMAIN fs1[1].keeping :
                    k > back.keeping => fs1[1].keeping[k].group >= back.next
    <3>1. SubSeq(fs1[1].keeping, 1, back.keeping) = SubSeq(fs[1].keeping, 1, back.keeping)
      BY <1>1, <1>2, <1>3, <2>2, Prefix
    <3>2. /\ Len(fs[1].keeping) \in Nat /\ DOMAIN fs[1].keeping = 1..Len(fs[1].keeping)
          /\ DOMAIN fs1[1].keeping = 1..(Len(fs[1].keeping) + 1)
          /\ Len(fs1[1].keeping) = Len(fs[1].keeping) + 1
          /\ \A k \in 1..Len(fs[1].keeping) : fs1[1].keeping[k] = fs[1].keeping[k]
          /\ fs1[1].keeping[Len(fs[1].keeping) + 1] = x
      BY <1>1, <2>2, AppendToList
    <3>3. ASSUME NEW k \in DOMAIN fs1[1].keeping, k > back.keeping
          PROVE  fs1[1].keeping[k].group >= back.next
      <4>1. CASE k \in 1..Len(fs[1].keeping)
        BY <1>2, <3>2, <3>3, <4>1 DEF Newer
      <4>2. CASE k = Len(fs[1].keeping) + 1
        BY <2>2, <3>2, <4>2
      <4> QED
        BY <3>2, <4>1, <4>2
    <3> QED
      BY <1>2, <1>3, <3>1, <3>2, <3>3
  <2> QED
    BY <2>1, <2>2
<1>5. Newer(fs1, dyn1, nx1, back)
  <2>1. back.next <= nx1
    BY <1>1, <1>2, <1>3
  <2>2. \A g \in 1..back.groups : dyn1[g] = back.pages[g]
    BY <1>2 DEF Newer
  <2>3. back.groups = Len(back.pages)
    BY <1>2 DEF Newer
  <2> QED
    BY <1>4, <2>1, <2>2, <2>3 DEF Newer
<1>6. Restored(fs1, back) = Restored(fs, back)
  <2>1. SubSeq(fs[1].keeping, 1, back.keeping) \in Seq(Pages)
    BY <1>1, <1>2, <1>3
  <2> QED
    BY <1>1, <1>4, <2>1, SnapshotFacts, SameRestored
<1> QED
  BY <1>5, <1>6 DEF CanGoBack
LEMMA SnapshotStays ==
  ASSUME IInv, UNCHANGED << snapshot, panic >>,
         Good(frames', dynamic', next', decommitted'),
         snapshot # << >> => CanGoBack(frames', dynamic', next', snapshot[1])
  PROVE  IInv'
  BY DEF IInv

LEMMA BackMaterialize ==
  ASSUME NEW fs, NEW dyn, NEW nx, NEW codes, Good(fs, dyn, nx, codes),
         nx <= MaxGroups, NEW h \in Hashes, codes[h] = << >>,
         NEW back \in Snapshots, CanGoBack(fs, dyn, nx, back)
  PROVE  CanGoBack(KeepInBootloader(fs, Page(nx, "code")),
                   WriteAll(dyn, Page(nx, "code")), nx + 1, back)
<1> DEFINE page == Page(nx, "code")
           fs1 == KeepInBootloader(fs, page)
           dyn1 == WriteAll(dyn, page)
           codes1 == [codes EXCEPT ![h] = << page >>]
<1>1. Typed(fs, dyn, nx, codes)
  BY DEF Good
<1>2. /\ Good(fs1, dyn1, nx + 1, codes1)
      /\ \A g \in 1..Len(dyn) : dyn1[g] = dyn[g]
      /\ Len(dyn) <= Len(dyn1)
  <2>1. Materialized(fs, dyn, nx, codes, h)
    BY GoodMaterialize
  <2> QED
    BY <2>1 DEF Materialized
<1>3. /\ nx \in Nat /\ nx >= 1 /\ Len(dyn) \in Nat /\ Len(dyn) < nx
      /\ 1 \in DOMAIN fs
  BY <1>1, GoodFrames
<1>4. page \in Pages /\ page.group = nx
  <2>1. nx \in 0..MaxGroups /\ "code" \in Kinds
    BY <1>3, Bounds DEF Kinds
  <2> QED
    BY <2>1, MakePage
<1>5. /\ DOMAIN fs1 = DOMAIN fs
      /\ \A i \in DOMAIN fs : i # 1 => fs1[i] = fs[i]
      /\ fs1[1].group = fs[1].group
      /\ fs1[1].calldata = fs[1].calldata
      /\ fs1[1].keeping = Append(fs[1].keeping, page)
  BY <1>1, <1>4, KeptInBootloader
<1> HIDE DEF page, fs1, dyn1, codes1
<1>6. /\ back.next \in Nat /\ back.groups \in Nat /\ back.groups < back.next
      /\ Newer(fs, dyn, nx, back)
  BY SnapshotFacts DEF CanGoBack
<1>7. Typed(fs1, dyn1, nx + 1, codes1) /\ Len(dyn1) \in Nat
  BY <1>2, GoodFrames DEF Good
<1>8. nx <= nx + 1 /\ back.groups <= Len(dyn1)
  BY <1>2, <1>3, <1>6, <1>7 DEF Newer
<1>9. \A g \in 1..back.groups : dyn1[g] = dyn[g]
  BY <1>2, <1>3, <1>6 DEF Newer
<1>10. page.group >= back.next
  BY <1>4, <1>6 DEF Newer
<1>11. \A i \in DOMAIN fs1 : i # 1 =>
         \A q \in Has(fs1[i]) : q.group >= back.next
  BY <1>5, <1>6 DEF Newer
<1>12. CanGoBack(fs1, dyn1, nx + 1, back)
  BY <1>1, <1>4, <1>5, <1>7, <1>8, <1>9, <1>10, <1>11, StillBack
<1> QED
  BY <1>12 DEF fs1, dyn1, page

-----------------------------------------------------------------------------
(* Decommitments preserve the invariant. *)

LEMMA StepManuallyDecommit ==
  ASSUME IInv, ManuallyDecommit
  PROVE  IInv'
<1>1. PICK h \in Hashes :
        /\ next <= MaxGroups /\ decommitted[h] = << >>
        /\ decommitted' = [decommitted EXCEPT ![h] = << Page(next, "code") >>]
        /\ dynamic' = WriteAll(dynamic, Page(next, "code"))
        /\ frames' = KeepInBootloader(frames, Page(next, "code"))
        /\ next' = next + 1
        /\ UNCHANGED << snapshot, panic >>
  BY DEF ManuallyDecommit, IsFresh, MaterializeNewPage
<1>2. Good(frames, dynamic, next, decommitted)
  BY DEF IInv
<1>3. Good(frames', dynamic', next', decommitted')
  <2>1. Materialized(frames, dynamic, next, decommitted, h)
    BY <1>1, <1>2, GoodMaterialize
  <2> QED
    BY <1>1, <2>1 DEF Materialized
<1>4. snapshot # << >> => CanGoBack(frames', dynamic', next', snapshot[1])
  BY <1>1, <1>2, BackMaterialize DEF IInv
<1> QED
  BY <1>1, <1>3, <1>4, SnapshotStays

LEMMA GoodPin ==
  ASSUME NEW fs, NEW dyn, NEW nx, NEW codes, Good(fs, dyn, nx, codes),
         NEW i \in DOMAIN fs, NEW h \in Hashes, codes[h] = << >>
  PROVE  LET codes1 == [codes EXCEPT ![h] = << Heap(fs[i]) >>]
         IN /\ Good(fs, dyn, nx, codes1)
            /\ Heap(fs[i]) \in PagesOf(codes1)
<1> DEFINE page == Heap(fs[i])
           codes1 == [codes EXCEPT ![h] = << page >>]
<1>1. /\ Typed(fs, dyn, nx, codes) /\ Intact(fs, dyn, codes) /\ Unique(fs, codes)
      /\ Kept(fs, dyn) /\ Reached(fs, codes) /\ NoLeak(fs, dyn, codes)
  BY DEF Good
<1>2. codes \in Codes /\ fs[i] \in Frames
  BY <1>1, GoodFrames
<1>3. page \in Pages /\ page \in Owned(fs[i])
  BY <1>2, FramePages DEF Owned
<1> HIDE DEF page
<1>4. codes1 \in Codes /\ PagesOf(codes1) = PagesOf(codes) \cup {page}
  BY <1>2, <1>3, PinOne
<1> HIDE DEF codes1
<1>5. Typed(fs, dyn, nx, codes1)
  BY <1>1, <1>4 DEF Typed
<1>6. Intact(fs, dyn, codes1)
  BY <1>1, <1>3, <1>4 DEF Intact
<1>7. Unique(fs, codes1)
  BY <1>1, <1>4 DEF Unique
<1>8. Reached(fs, codes1)
  BY <1>1, <1>4 DEF Reached
<1>9. NoLeak(fs, dyn, codes1)
  BY <1>1, <1>4 DEF NoLeak
<1>10. Good(fs, dyn, nx, codes1) /\ page \in PagesOf(codes1)
  BY <1>1, <1>4, <1>5, <1>6, <1>7, <1>8, <1>9 DEF Good
<1> QED
  BY <1>10, Zenon DEF codes1, page

\* A pointer to a pinned page
Holding(fs, page) == [fs EXCEPT ![Len(fs)].held = Hold(@, Pointer(page, Chunks))]

LEMMA GoodHold ==
  ASSUME NEW fs, NEW dyn, NEW nx, NEW codes, Good(fs, dyn, nx, codes),
         NEW page \in PagesOf(codes)
  PROVE  LET fs1 == Holding(fs, page)
         IN /\ Good(fs1, dyn, nx, codes)
            /\ DOMAIN fs1 = DOMAIN fs
            /\ \A i \in DOMAIN fs : /\ fs1[i].group = fs[i].group
                                    /\ fs1[i].calldata = fs[i].calldata
                                    /\ fs1[i].keeping = fs[i].keeping
                                    /\ Has(fs1[i]) = Has(fs[i])
<1> DEFINE n == Len(fs)
           p == Pointer(page, Chunks)
           held == Hold(fs[n].held, p)
           f == [fs[n] EXCEPT !.held = held]
           fs1 == Holding(fs, page)
<1>1. /\ Typed(fs, dyn, nx, codes) /\ Intact(fs, dyn, codes) /\ Unique(fs, codes)
      /\ Kept(fs, dyn) /\ Reached(fs, codes) /\ NoLeak(fs, dyn, codes)
  BY DEF Good
<1>2. /\ n \in DOMAIN fs /\ 1 \in DOMAIN fs /\ fs \in Seq(Frames)
      /\ \A i \in DOMAIN fs : fs[i] \in Frames
      /\ PagesOf(codes) \subseteq Pages
  <2>1. fs \in Seq(Frames)
    BY <1>1 DEF Typed
  <2> QED
    BY <1>1, <2>1, GoodFrames
<1>3. p \in Pointers /\ p.page = page /\ p.window = Chunks
  BY <1>2 DEF Pointer, Pointers
<1>4. held \subseteq fs[n].held \cup {p} /\ held \in SUBSET Pointers
  <2>1. held \subseteq fs[n].held \cup {p}
    BY HoldFacts
  <2>2. n \in DOMAIN fs /\ fs[n] \in Frames
    BY <1>2
  <2> HIDE DEF p, held, n
  <2> QED
    BY <1>3, <2>1, <2>2, FramePages
<1>5. fs1 = [fs EXCEPT ![n] = f]
  BY <1>2, Zenon DEF Holding, p
<1> HIDE DEF held, p
<1>6. /\ f \in Frames /\ f.group = fs[n].group /\ f.calldata = fs[n].calldata
      /\ f.held = held /\ f.keeping = fs[n].keeping
      /\ Owned(f) = Owned(fs[n]) /\ Has(f) = Has(fs[n])
  BY <1>2, <1>4, HoldFrame
<1> HIDE DEF f, fs1, n
<1>7. /\ fs1 \in Seq(Frames) /\ Len(fs1) = Len(fs) /\ DOMAIN fs1 = DOMAIN fs
      /\ fs1[n] = f /\ \A i \in DOMAIN fs : i # n => fs1[i] = fs[i]
  BY <1>2, <1>5, <1>6
<1>8. \A i \in DOMAIN fs : /\ fs1[i].group = fs[i].group
                           /\ fs1[i].calldata = fs[i].calldata
                           /\ fs1[i].keeping = fs[i].keeping
                           /\ Owned(fs1[i]) = Owned(fs[i]) /\ Has(fs1[i]) = Has(fs[i])
                           /\ fs1[i].held \subseteq fs[i].held \cup {p}
  BY <1>4, <1>6, <1>7
<1>9. Typed(fs1, dyn, nx, codes)
  BY <1>1, <1>2, <1>7, <1>8 DEF Typed
<1>10. Intact(fs1, dyn, codes)
  <2>1. HoldsIn(dyn, p.page, p.window)
    BY <1>1, <1>3 DEF Intact
  <2> QED
    BY <1>1, <1>7, <1>8, <2>1 DEF Intact
<1>11. Unique(fs1, codes)
  <2>1. \A i \in DOMAIN fs1 : \A k \in DOMAIN fs1[i].keeping :
          fs1[i].keeping[k] \notin PagesOf(codes) =>
            /\ fs1[i].keeping[k] \notin Owned(fs1[i])
            /\ \A l \in DOMAIN fs1[i].keeping :
                 fs1[i].keeping[l] = fs1[i].keeping[k] => l = k
    BY <1>1, <1>7, <1>8 DEF Unique
  <2>2. \A i \in DOMAIN fs1, j \in DOMAIN fs1 :
          i # j => Has(fs1[i]) \cap Has(fs1[j]) \subseteq PagesOf(codes)
    BY <1>1, <1>7, <1>8 DEF Unique
  <2> QED
    BY <2>1, <2>2 DEF Unique
<1>12. Kept(fs1, dyn)
  BY <1>1, <1>7, <1>8 DEF Kept
<1>13. Reached(fs1, codes)
  BY <1>1, <1>3, <1>7, <1>8 DEF Reached
<1>14. NoLeak(fs1, dyn, codes)
  BY <1>1, <1>7, <1>8 DEF NoLeak
<1>15. /\ Good(fs1, dyn, nx, codes)
       /\ DOMAIN fs1 = DOMAIN fs
       /\ \A i \in DOMAIN fs : /\ fs1[i].group = fs[i].group
                               /\ fs1[i].calldata = fs[i].calldata
                               /\ fs1[i].keeping = fs[i].keeping
                               /\ Has(fs1[i]) = Has(fs[i])
  BY <1>7, <1>8, <1>9, <1>10, <1>11, <1>12, <1>13, <1>14 DEF Good
<1> QED
  BY <1>15, Zenon DEF fs1, n, p

LEMMA StepDecommit ==
  ASSUME IInv, Decommit
  PROVE  IInv'
<1> DEFINE n == Len(frames)
<1>1. PICK h \in Hashes :
        LET page == IF IsFresh(h) THEN Heap(Current) ELSE decommitted[h][1]
        IN /\ decommitted' = [decommitted EXCEPT ![h] = << page >>]
           /\ dynamic' = IF IsFresh(h) THEN Touch(dynamic, page) ELSE dynamic
           /\ frames' = [frames EXCEPT ![n].held = Hold(@, Pointer(page, Chunks))]
           /\ UNCHANGED << next, snapshot, panic >>
  BY DEF Decommit
<1> DEFINE page == IF IsFresh(h) THEN Heap(Current) ELSE decommitted[h][1]
<1>2. Good(frames, dynamic, next, decommitted) /\ Typed(frames, dynamic, next, decommitted)
      /\ Intact(frames, dynamic, decommitted)
  BY DEF IInv, Good
<1>3. /\ n \in DOMAIN frames /\ 1 \in DOMAIN frames /\ frames[n] \in Frames
      /\ dynamic \in Dynamics /\ decommitted \in Codes /\ next \in Nat
  BY <1>2, GoodFrames
<1>4. /\ dynamic' = dynamic
      /\ Good(frames, dynamic, next, decommitted')
      /\ page \in PagesOf(decommitted')
  <2>1. CASE decommitted[h] = << >>
    <3>1. page = Heap(frames[n])
      BY <2>1 DEF IsFresh, Current
    <3>2. Heap(frames[n]) \in Pages /\ Heap(frames[n]) \in Owned(frames[n])
      BY <1>3, FramePages DEF Owned
    <3>3. dynamic' = dynamic
      <4>1. HoldsIn(dynamic, Heap(frames[n]), Chunks)
        BY <1>2, <1>3, <3>2 DEF Intact
      <4>2. dynamic' = Touch(dynamic, page)
        BY <1>1, <2>1 DEF IsFresh
      <4> QED
        BY <1>3, <3>1, <3>2, <4>1, <4>2, TouchOwned
    <3>4. decommitted' = [decommitted EXCEPT ![h] = << Heap(frames[n]) >>]
      BY <1>1, <3>1
    <3> DEFINE codes1 == [decommitted EXCEPT ![h] = << Heap(frames[n]) >>]
    <3>5. Good(frames, dynamic, next, codes1) /\ Heap(frames[n]) \in PagesOf(codes1)
      BY <1>2, <1>3, <2>1, GoodPin
    <3>6. decommitted' = codes1
      BY <3>4
    <3> HIDE DEF codes1, page
    <3> QED
      BY <3>1, <3>3, <3>5, <3>6
  <2>2. CASE decommitted[h] # << >>
    <3>1. page = decommitted[h][1] /\ dynamic' = dynamic
      BY <1>1, <2>2 DEF IsFresh
    <3>2. decommitted' = decommitted
      BY <1>1, <1>3, <2>2, <3>1, PinAgain
    <3>3. page \in PagesOf(decommitted)
      BY <1>3, <2>2, <3>1, PinType
    <3> QED
      BY <1>2, <3>1, <3>2, <3>3
  <2> QED
    BY <2>1, <2>2
<1>5. frames' = [frames EXCEPT ![n].held = Hold(@, Pointer(page, Chunks))]
      /\ UNCHANGED << next, snapshot, panic >>
  BY <1>1
<1> HIDE DEF page
<1>6. /\ Good(frames', dynamic', next', decommitted')
      /\ DOMAIN frames' = DOMAIN frames
      /\ \A i \in DOMAIN frames : /\ frames'[i].group = frames[i].group
                                  /\ frames'[i].calldata = frames[i].calldata
                                  /\ frames'[i].keeping = frames[i].keeping
                                  /\ Has(frames'[i]) = Has(frames[i])
  <2> DEFINE codes1 == decommitted'
             fs1 == Holding(frames, page)
  <2>1. Good(frames, dynamic, next, codes1) /\ page \in PagesOf(codes1)
    BY <1>4
  <2> HIDE DEF codes1
  <2>2. /\ Good(fs1, dynamic, next, codes1)
        /\ DOMAIN fs1 = DOMAIN frames
        /\ \A i \in DOMAIN frames : /\ fs1[i].group = frames[i].group
                                    /\ fs1[i].calldata = frames[i].calldata
                                    /\ fs1[i].keeping = frames[i].keeping
                                    /\ Has(fs1[i]) = Has(frames[i])
    BY <2>1, GoodHold
  <2>3. frames' = fs1 /\ dynamic' = dynamic /\ next' = next /\ decommitted' = codes1
    BY <1>4, <1>5 DEF codes1, Holding
  <2> HIDE DEF fs1
  <2> QED
    BY <2>2, <2>3
<1>7. ASSUME snapshot # << >>
      PROVE  CanGoBack(frames', dynamic', next', snapshot[1])
  <2> DEFINE back == snapshot[1]
  <2>1. /\ back \in Snapshots /\ CanGoBack(frames, dynamic, next, back)
        /\ Newer(frames, dynamic, next, back)
    BY <1>7 DEF IInv, CanGoBack
  <2> HIDE DEF back
  <2>2. Typed(frames', dynamic', next', decommitted')
    BY <1>6 DEF Good
  <2>3. /\ next <= next' /\ back.groups <= Len(dynamic')
        /\ \A g \in 1..back.groups : dynamic'[g] = dynamic[g]
    BY <1>3, <1>4, <1>5, <2>1 DEF Newer
  <2>4. /\ frames'[1].group = frames[1].group
        /\ frames'[1].calldata = frames[1].calldata
        /\ frames'[1].keeping = frames[1].keeping
    BY <1>3, <1>6
  <2>5. \A i \in DOMAIN frames' : i # 1 =>
          \A q \in Has(frames'[i]) : q.group >= back.next
    BY <1>6, <2>1 DEF Newer
  <2> QED
    BY <1>2, <2>1, <2>2, <2>3, <2>4, <2>5, StillBack DEF back
<1> QED
  BY <1>5, <1>6, <1>7, SnapshotStays
-----------------------------------------------------------------------------
(* Calls preserve the invariant. *)

LEMMA NameableFacts ==
  ASSUME Good(frames, dynamic, next, decommitted), NEW p \in Nameable
  PROVE  /\ p \in Pointers /\ p.page \in Pages /\ p.window \in SUBSET Chunks
         /\ HoldsIn(dynamic, p.page, p.window)
         /\ p.page = Current.calldata \/ p.page \in Pinned \cup Has(Current)
         /\ \/ p.page.group = 0
            \/ p.page \in Pinned
            \/ \E i \in DOMAIN frames : p.page \in Has(frames[i])
<1> DEFINE n == Len(frames)
<1>1. /\ Typed(frames, dynamic, next, decommitted)
      /\ Intact(frames, dynamic, decommitted) /\ Reached(frames, decommitted)
  BY DEF Good
<1>2. /\ n \in DOMAIN frames /\ frames[n] \in Frames
      /\ Owned(frames[n]) \subseteq Has(frames[n]) /\ Has(frames[n]) \subseteq Pages
      /\ \A q \in frames[n].held : q.page \in Pages /\ q.window \in SUBSET Chunks
  BY <1>1, GoodFrames
<1>3. Current = frames[n] /\ Pinned = PagesOf(decommitted)
  BY DEF Current, Pinned
<1>4. \A q \in Pages : \A c \in SUBSET Chunks : \A w \in SUBSET c :
        HoldsIn(dynamic, q, c) => HoldsIn(dynamic, q, w)
  BY DEF HoldsIn
<1>5. CASE \E page \in Owned(Current), window \in SUBSET Chunks : p = Pointer(page, window)
  <2>1. PICK page \in Owned(frames[n]), window \in SUBSET Chunks :
          p = Pointer(page, window)
    BY <1>3, <1>5
  <2>2. p.page = page /\ p.window = window /\ page \in Pages /\ p \in Pointers
    BY <1>2, <2>1 DEF Pointer, Pointers
  <2>3. HoldsIn(dynamic, page, Chunks) /\ page \in Has(frames[n])
    BY <1>1, <1>2, <2>1 DEF Intact
  <2> QED
    BY <1>2, <1>3, <1>4, <2>2, <2>3
<1>6. CASE \E q \in Current.held : \E window \in SUBSET q.window :
             p = Pointer(q.page, window)
  <2>1. PICK q \in frames[n].held : \E window \in SUBSET q.window :
          p = Pointer(q.page, window)
    BY <1>3, <1>6
  <2>2. PICK window \in SUBSET q.window : p = Pointer(q.page, window)
    BY <2>1
  <2>3. /\ q.page \in Pages /\ q.window \in SUBSET Chunks /\ window \in SUBSET Chunks
    BY <1>2
  <2>4. p.page = q.page /\ p.window = window /\ p \in Pointers
    BY <2>2, <2>3 DEF Pointer, Pointers
  <2>5. HoldsIn(dynamic, q.page, q.window)
    BY <1>1, <1>2 DEF Intact
  <2>6. q.page = frames[n].calldata \/ q.page \in PagesOf(decommitted) \cup Has(frames[n])
    BY <1>1, <1>2 DEF Reached
  <2>7. \/ frames[n].calldata.group = 0
        \/ frames[n].calldata \in PagesOf(decommitted)
        \/ \E j \in DOMAIN frames : frames[n].calldata \in Has(frames[j])
    BY <1>1, <1>2 DEF Reached
  <2>8. HoldsIn(dynamic, p.page, p.window)
    BY <1>4, <2>2, <2>3, <2>4, <2>5
  <2> QED
    BY <1>2, <1>3, <2>3, <2>4, <2>6, <2>7, <2>8
<1> QED
  BY <1>5, <1>6 DEF Nameable

LEMMA BackPush ==
  ASSUME NEW fs, NEW dyn, NEW nx, NEW codes, Good(fs, dyn, nx + 1, codes),
         nx \in 1..MaxGroups,
         At(dyn, Page(nx, "heap")) = << >>, At(dyn, Page(nx, "aux")) = << >>,
         NEW c \in Pages, NEW held \in SUBSET Pointers,
         \/ c.group = 0
         \/ c \in PagesOf(codes)
         \/ \E i \in DOMAIN fs : c \in Has(fs[i]),
         \A p \in held : p.page = c /\ HoldsIn(dyn, p.page, p.window),
         NEW back \in Snapshots, CanGoBack(fs, dyn, nx + 1, back), back.next <= nx
  PROVE  CanGoBack(Append(fs, Frame(nx, c, held)), Allocate(dyn, nx), nx + 1, back)
<1> DEFINE f == Frame(nx, c, held)
           fs1 == Append(fs, f)
           dyn1 == Allocate(dyn, nx)
<1>1. /\ Good(fs1, dyn1, nx + 1, codes)
      /\ Len(dyn) <= Len(dyn1)
      /\ \A g \in 1..Len(dyn) : g # nx => dyn1[g] = dyn[g]
      /\ \A page \in Has(fs1[Len(fs) + 1]) : page.group = nx
  <2>1. Pushed(fs, dyn, nx, codes, c, held)
    BY GoodPush
  <2> QED
    BY <2>1 DEF Pushed
<1> HIDE DEF f, dyn1
<1>2. Typed(fs, dyn, nx + 1, codes) /\ Typed(fs1, dyn1, nx + 1, codes)
  BY <1>1 DEF Good
<1>3. /\ DOMAIN fs = 1..Len(fs) /\ Len(fs) \in Nat /\ Len(fs) >= 1
      /\ Len(dyn) \in Nat /\ nx \in Nat /\ fs \in Seq(Frames)
  <2>1. fs \in Seq(Frames)
    BY <1>2 DEF Typed
  <2> QED
    BY <1>2, <2>1, GoodFrames, Bounds
<1>4. Len(dyn1) \in Nat
  BY <1>2, GoodFrames
<1>5. DOMAIN fs1 = 1..(Len(fs) + 1) /\ \A i \in DOMAIN fs : fs1[i] = fs[i]
  BY <1>3
<1> HIDE DEF fs1
<1>6. /\ back.next \in Nat /\ back.groups \in Nat /\ back.groups < back.next
      /\ Newer(fs, dyn, nx + 1, back)
  BY SnapshotFacts DEF CanGoBack
<1>7. nx + 1 <= nx + 1 /\ back.groups <= Len(dyn1)
  BY <1>1, <1>3, <1>4, <1>6 DEF Newer
<1>8. \A g \in 1..back.groups : dyn1[g] = dyn[g]
  BY <1>1, <1>3, <1>6 DEF Newer
<1>9. \A i \in DOMAIN fs1 : i # 1 =>
        \A q \in Has(fs1[i]) : q.group >= back.next
  <2>1. \A i \in DOMAIN fs : i # 1 => \A q \in Has(fs1[i]) : q.group >= back.next
    BY <1>5, <1>6 DEF Newer
  <2>2. \A q \in Has(fs1[Len(fs) + 1]) : q.group >= back.next
    BY <1>1, <1>3, <1>6
  <2> QED
    BY <1>3, <1>5, <2>1, <2>2
<1>10. /\ fs1[1] = fs[1]
  BY <1>3, <1>5
<1>11. CanGoBack(fs1, dyn1, nx + 1, back)
  BY <1>2, <1>7, <1>8, <1>9, <1>10, StillBack
<1> QED
  BY <1>11 DEF fs1, dyn1, f

\* The snapshot does not mind that a group is left out.
LEMMA BackLater ==
  ASSUME NEW fs, NEW dyn, NEW nx \in Nat, NEW back \in Snapshots,
         CanGoBack(fs, dyn, nx, back)
  PROVE  CanGoBack(fs, dyn, nx + 1, back) /\ back.next <= nx
<1>1. back.next \in Nat
  BY SnapshotFacts
<1> QED
  BY <1>1 DEF CanGoBack, Newer

\* push_frame, in memory dyn and with frames fs that are good
LEMMA StepPush ==
  ASSUME IInv, next \in 1..MaxGroups, UNCHANGED snapshot,
         NEW fs, NEW dyn, NEW codes, decommitted' = codes,
         Good(fs, dyn, next + 1, codes),
         At(dyn, Page(next, "heap")) = << >>, At(dyn, Page(next, "aux")) = << >>,
         NEW c \in Pages, NEW held \in SUBSET Pointers,
         \/ c.group = 0
         \/ c \in PagesOf(codes)
         \/ \E i \in DOMAIN fs : c \in Has(fs[i]),
         \A p \in held : p.page = c /\ HoldsIn(dyn, p.page, p.window),
         snapshot # << >> => /\ CanGoBack(fs, dyn, next + 1, snapshot[1])
                             /\ snapshot[1].next <= next,
         PushFrame(dyn, fs, c, held)
  PROVE  IInv'
<1> DEFINE fs1 == Append(fs, Frame(next, c, held))
           dyn1 == Allocate(dyn, next)
<1>1. CanAllocate(dyn, next) /\ Good(fs1, dyn1, next + 1, codes)
  <2>1. Pushed(fs, dyn, next, codes, c, held)
    BY GoodPush
  <2> QED
    BY <2>1 DEF Pushed
<1>2. /\ frames' = fs1 /\ dynamic' = dyn1 /\ next' = next + 1
      /\ UNCHANGED << snapshot, panic >>
  BY <1>1 DEF PushFrame
<1>3. ASSUME snapshot # << >>
      PROVE  CanGoBack(fs1, dyn1, next + 1, snapshot[1])
  <2> DEFINE back == snapshot[1]
  <2>1. back \in Snapshots /\ CanGoBack(fs, dyn, next + 1, back) /\ back.next <= next
    BY <1>3 DEF IInv
  <2> HIDE DEF back
  <2>2. CanGoBack(fs1, dyn1, next + 1, back)
    BY <2>1, BackPush
  <2> QED
    BY <2>2 DEF back
<1> HIDE DEF fs1, dyn1
<1>4. Good(frames', dynamic', next', decommitted')
  BY <1>1, <1>2
<1>5. snapshot # << >> => CanGoBack(frames', dynamic', next', snapshot[1])
  BY <1>2, <1>3
<1> QED
  BY <1>2, <1>4, <1>5, SnapshotStays

\* The heaps of the next group are not there yet.
LEMMA NextAbsent ==
  ASSUME Good(frames, dynamic, next, decommitted), next <= MaxGroups
  PROVE  /\ next \in 1..MaxGroups
         /\ At(dynamic, Page(next, "heap")) = << >>
         /\ At(dynamic, Page(next, "aux")) = << >>
<1>1. dynamic \in Dynamics /\ next \in Nat /\ next >= 1 /\ Len(dynamic) < next
  BY GoodFrames DEF Good
<1>2. next \in 0..MaxGroups /\ "heap" \in Kinds /\ "aux" \in Kinds
  BY <1>1, Bounds DEF Kinds
<1>3. /\ Page(next, "heap") \in Pages /\ Page(next, "heap").group = next
      /\ Page(next, "aux") \in Pages /\ Page(next, "aux").group = next
  BY <1>2, MakePage
<1>4. Len(dynamic) \in Nat
  BY <1>1 DEF Dynamics
<1> QED
  BY <1>1, <1>3, <1>4, NewGroupAbsent, Bounds

LEMMA StepFarCall ==
  ASSUME IInv, FarCall
  PROVE  IInv'
<1>1. PICK p \in Nameable, h \in Hashes :
        LET code == Page(next, "code")
            fresh == IsFresh(h)
        IN /\ next <= MaxGroups
           /\ decommitted' =
                IF fresh THEN [decommitted EXCEPT ![h] = << code >>]
                ELSE decommitted
           /\ PushFrame(IF fresh THEN WriteAll(dynamic, code) ELSE dynamic,
                        IF fresh THEN KeepInBootloader(frames, code) ELSE frames,
                        p.page, {p})
           /\ UNCHANGED snapshot
  BY DEF FarCall, CanCall
<1>2. Good(frames, dynamic, next, decommitted)
  BY DEF IInv
<1>3. /\ p \in Pointers /\ p.page \in Pages /\ p.window \in SUBSET Chunks
      /\ HoldsIn(dynamic, p.page, p.window)
      /\ \/ p.page.group = 0
         \/ p.page \in PagesOf(decommitted)
         \/ \E i \in DOMAIN frames : p.page \in Has(frames[i])
  BY <1>2, NameableFacts DEF Pinned
<1>4. next \in 1..MaxGroups /\ next <= MaxGroups /\ next \in Nat /\ UNCHANGED snapshot
  BY <1>1, <1>2, NextAbsent, Bounds
<1>5. CASE decommitted[h] = << >>
  <2> DEFINE page == Page(next, "code")
             fs == KeepInBootloader(frames, page)
             dyn == WriteAll(dynamic, page)
             codes == [decommitted EXCEPT ![h] = << page >>]
  <2>1. decommitted' = codes /\ PushFrame(dyn, fs, p.page, {p})
    BY <1>1, <1>5 DEF IsFresh
  <2>2. /\ Good(fs, dyn, next + 1, codes)
        /\ At(dyn, Page(next, "heap")) = << >> /\ At(dyn, Page(next, "aux")) = << >>
        /\ PagesOf(decommitted) \subseteq PagesOf(codes)
        /\ Len(fs) = Len(frames)
        /\ \A i \in DOMAIN frames : Has(frames[i]) \subseteq Has(fs[i])
    <3>1. Materialized(frames, dynamic, next, decommitted, h)
      BY <1>2, <1>4, <1>5, GoodMaterialize
    <3> QED
      BY <3>1 DEF Materialized
  <2>3. DOMAIN frames = 1..Len(frames) /\ DOMAIN fs = 1..Len(fs) /\ dynamic \in Dynamics
    BY <1>2, <2>2, GoodFrames DEF Good
  <2>4. HoldsIn(dyn, p.page, p.window)
    <3>1. next \in 0..MaxGroups /\ "code" \in Kinds
      BY <1>4 DEF Kinds
    <3>2. page \in Pages /\ page.group = next /\ page.kind = "code"
      BY <3>1, MakePage
    <3>3. page.group >= 1 /\ page.kind \in Kinds
      BY <1>4, <3>1, <3>2
    <3>4. At(dyn, p.page) = IF p.page = page THEN << Chunks >> ELSE At(dynamic, p.page)
      BY <1>3, <2>3, <3>2, <3>3, WriteAllFacts
    <3> QED
      BY <1>3, <3>4, HoldsMore
  <2>5. ASSUME snapshot # << >>
        PROVE  CanGoBack(fs, dyn, next + 1, snapshot[1]) /\ snapshot[1].next <= next
    <3> DEFINE back == snapshot[1]
    <3>1. back \in Snapshots /\ CanGoBack(frames, dynamic, next, back)
      BY <2>5 DEF IInv
    <3> HIDE DEF back
    <3>2. CanGoBack(fs, dyn, next + 1, back)
      BY <1>2, <1>4, <1>5, <3>1, BackMaterialize
    <3>3. back.next <= next
      BY <1>4, <3>1, BackLater
    <3> QED
      BY <3>2, <3>3 DEF back
  <2> HIDE DEF fs, dyn, codes
  <2>6. \/ p.page.group = 0
        \/ p.page \in PagesOf(codes)
        \/ \E i \in DOMAIN fs : p.page \in Has(fs[i])
    BY <1>3, <2>2, <2>3
  <2>7. \A q \in {p} : q.page = p.page /\ HoldsIn(dyn, q.page, q.window)
    BY <2>4
  <2>8. {p} \in SUBSET Pointers
    BY <1>3
  <2> DEFINE c == p.page
             held == {p}
  <2>9. /\ c \in Pages /\ held \in SUBSET Pointers
        /\ \A q \in held : q.page = c /\ HoldsIn(dyn, q.page, q.window)
        /\ c.group = 0 \/ c \in PagesOf(codes) \/ \E i \in DOMAIN fs : c \in Has(fs[i])
        /\ PushFrame(dyn, fs, c, held)
    BY <1>3, <2>1, <2>6, <2>7, <2>8
  <2> HIDE DEF c, held
  <2> QED
    BY <1>4, <2>1, <2>2, <2>5, <2>9, StepPush
<1>6. CASE decommitted[h] # << >>
  <2>1. decommitted' = decommitted /\ PushFrame(dynamic, frames, p.page, {p})
    BY <1>1, <1>6 DEF IsFresh
  <2>2. Good(frames, dynamic, next + 1, decommitted)
    BY <1>2, <1>4, GoodLater
  <2>3. ASSUME snapshot # << >>
        PROVE  /\ CanGoBack(frames, dynamic, next + 1, snapshot[1])
               /\ snapshot[1].next <= next
    BY <1>4, <2>3, BackLater DEF IInv
  <2> DEFINE c == p.page
             held == {p}
  <2>4. /\ c \in Pages /\ held \in SUBSET Pointers
        /\ \A q \in held : q.page = c /\ HoldsIn(dynamic, q.page, q.window)
        /\ \/ c.group = 0 \/ c \in PagesOf(decommitted)
           \/ \E i \in DOMAIN frames : c \in Has(frames[i])
        /\ PushFrame(dynamic, frames, c, held)
    BY <1>3, <2>1
  <2> HIDE DEF c, held
  <2> QED
    BY <1>2, <1>4, <2>1, <2>2, <2>3, <2>4, NextAbsent, StepPush
<1> QED
  BY <1>5, <1>6

LEMMA StepFailedFarCall ==
  ASSUME IInv, FailedFarCall
  PROVE  IInv'
<1>1. /\ next <= MaxGroups /\ PushFrame(dynamic, frames, NoPage, {})
      /\ decommitted' = decommitted /\ UNCHANGED snapshot
  BY DEF FailedFarCall, CanCall
<1>2. Good(frames, dynamic, next, decommitted)
  BY DEF IInv
<1>3. next \in 1..MaxGroups /\ next \in Nat
  BY <1>1, <1>2, NextAbsent, Bounds
<1>4. Good(frames, dynamic, next + 1, decommitted)
  BY <1>1, <1>2, GoodLater
<1>5. NoPage \in Pages /\ NoPage.group = 0
  BY Bounds DEF NoPage, Page, Pages
<1>6. ASSUME snapshot # << >>
      PROVE  /\ CanGoBack(frames, dynamic, next + 1, snapshot[1])
             /\ snapshot[1].next <= next
  BY <1>3, <1>6, BackLater DEF IInv
<1> DEFINE held == {}
<1>7. /\ held \in SUBSET Pointers
      /\ \A p \in held : p.page = NoPage /\ HoldsIn(dynamic, p.page, p.window)
      /\ PushFrame(dynamic, frames, NoPage, held)
  BY <1>1
<1> HIDE DEF held
<1> QED
  BY <1>1, <1>2, <1>3, <1>4, <1>5, <1>6, <1>7, NextAbsent, StepPush
-----------------------------------------------------------------------------
(* Returns preserve the invariant. *)

\* The frame that dies
LEMMA Dying ==
  ASSUME IInv, ~InBootloader
  PROVE  LET n == Len(frames)
         IN /\ Good(frames, dynamic, next, decommitted) /\ n > 1
            /\ n \in DOMAIN frames /\ n \in Nat /\ DOMAIN frames = 1..n
            /\ Current = frames[n] /\ Pinned = PagesOf(decommitted)
            /\ frames[n] \in Frames /\ Has(frames[n]) \subseteq Pages
            /\ frames[n].group >= 1 /\ dynamic \in Dynamics /\ next \in Nat
            /\ \A kept : CanDeallocate(dynamic, Doomed(Current), Spared(kept))
<1> DEFINE n == Len(frames)
<1>1. Good(frames, dynamic, next, decommitted) /\ Typed(frames, dynamic, next, decommitted)
  BY DEF IInv, Good
<1>2. /\ n \in DOMAIN frames /\ n \in Nat /\ DOMAIN frames = 1..n /\ n >= 1
      /\ frames[n] \in Frames /\ Has(frames[n]) \subseteq Pages
      /\ dynamic \in Dynamics /\ next \in Nat
  BY <1>1, GoodFrames
<1>3. n > 1
  BY <1>2 DEF InBootloader
<1>4. Current = frames[n] /\ Pinned = PagesOf(decommitted)
  BY DEF Current, Pinned
<1> HIDE DEF n
<1>5. frames[n].group >= 1
  BY <1>1, <1>2, <1>3 DEF Typed
<1>6. ASSUME NEW kept
      PROVE  CanDeallocate(dynamic, Doomed(Current), Spared(kept))
  <2>1. CanDeallocate(dynamic, Doomed(frames[n]), PagesOf(decommitted) \cup {kept})
    <3>1. n # 1
      BY <1>2, <1>3
    <3> QED
      BY <1>1, <1>2, <3>1, CanPop, Zenon
  <2> QED
    BY <1>4, <2>1 DEF Spared
<1>7. /\ Good(frames, dynamic, next, decommitted) /\ n > 1
      /\ n \in DOMAIN frames /\ n \in Nat /\ DOMAIN frames = 1..n
      /\ Current = frames[n] /\ Pinned = PagesOf(decommitted)
      /\ frames[n] \in Frames /\ Has(frames[n]) \subseteq Pages
      /\ frames[n].group >= 1 /\ dynamic \in Dynamics /\ next \in Nat
      /\ \A kept : CanDeallocate(dynamic, Doomed(Current), Spared(kept))
  BY <1>1, <1>2, <1>3, <1>4, <1>5, <1>6
<1> QED
  BY <1>7, Zenon DEF n

\* What is left of memory once it is gone
Popped(kept) == Deallocate(dynamic, Doomed(Current), Spared(kept))

LEMMA PopFacts ==
  ASSUME IInv, ~InBootloader, NEW kept
  PROVE  /\ GoodBut(Front(frames), Popped(kept), next, decommitted, kept)
         /\ Len(Popped(kept)) = Len(dynamic)
         /\ kept \in Pages => At(Popped(kept), kept) = At(dynamic, kept)
         /\ snapshot # << >> =>
              \A g \in 1..snapshot[1].groups : Popped(kept)[g] = dynamic[g]
<1> DEFINE n == Len(frames)
<1>1. /\ Good(frames, dynamic, next, decommitted) /\ n > 1 /\ n \in DOMAIN frames
      /\ Current = frames[n] /\ Pinned = PagesOf(decommitted)
      /\ dynamic \in Dynamics
  BY Dying
<1>2. Popped(kept)
        = Deallocate(dynamic, Doomed(frames[Len(frames)]), PagesOf(decommitted) \cup {kept})
  BY <1>1 DEF Popped, Spared
<1>3. /\ GoodBut(Front(frames), Popped(kept), next, decommitted, kept)
      /\ Len(Popped(kept)) = Len(dynamic)
      /\ kept \in Pages => At(Popped(kept), kept) = At(dynamic, kept)
      /\ \A g \in 1..Len(dynamic) :
           (\A page \in Has(frames[n]) : page.group # g) => Popped(kept)[g] = dynamic[g]
  <2>1. PopsTo(frames, dynamic, next, decommitted, kept)
    BY <1>1, GoodPop
  <2> QED
    BY <1>2, <2>1, Zenon DEF PopsTo
<1>4. ASSUME snapshot # << >>, NEW g \in 1..snapshot[1].groups
      PROVE  Popped(kept)[g] = dynamic[g]
  <2> DEFINE back == snapshot[1]
  <2>1. back \in Snapshots /\ CanGoBack(frames, dynamic, next, back)
    BY <1>4 DEF IInv
  <2>2. g \in 1..back.groups
    BY <1>4
  <2> HIDE DEF back, n
  <2>3. /\ back.next \in Nat /\ back.groups \in Nat /\ back.groups < back.next
        /\ Newer(frames, dynamic, next, back)
    BY <2>1, SnapshotFacts DEF CanGoBack
  <2>4. Len(dynamic) \in Nat
    BY <1>1 DEF Dynamics
  <2>5. g \in 1..Len(dynamic)
    BY <2>2, <2>3, <2>4 DEF Newer
  <2>6. n # 1
    BY <1>1 DEF n
  <2>7. \A page \in Has(frames[n]) : page.group >= back.next
    BY <1>1, <2>3, <2>6 DEF Newer
  <2>8. \A page \in Has(frames[n]) : page.group # g
    BY <2>2, <2>3, <2>7
  <2> QED
    BY <1>3, <2>5, <2>8
<1> QED
  BY <1>3, <1>4

LEMMA StepReturnNothing ==
  ASSUME IInv, ReturnNothing
  PROVE  IInv'
<1>1. ~InBootloader
  BY DEF ReturnNothing
<1>2. CanDeallocate(dynamic, Doomed(Current), Spared(NoPage))
  BY <1>1, Dying
<1>3. /\ dynamic' = Popped(NoPage) /\ frames' = Front(frames)
      /\ UNCHANGED << next, decommitted, snapshot, panic >>
  BY <1>2 DEF ReturnNothing, PopFrame, Popped
<1>4. NoPage \in Pages /\ NoPage.group = 0
  BY Bounds DEF NoPage, Page, Pages
<1>5. /\ Good(frames, dynamic, next, decommitted) /\ Len(frames) > 1
      /\ dynamic \in Dynamics /\ next \in Nat
  BY <1>1, Dying
<1>6. /\ GoodBut(Front(frames), Popped(NoPage), next, decommitted, NoPage)
      /\ Len(Popped(NoPage)) = Len(dynamic)
      /\ At(Popped(NoPage), NoPage) = At(dynamic, NoPage)
      /\ snapshot # << >> =>
           \A g \in 1..snapshot[1].groups : Popped(NoPage)[g] = dynamic[g]
  BY <1>1, <1>4, PopFacts
<1> DEFINE fs1 == Front(frames)
           dyn1 == Popped(NoPage)
<1>7. Good(fs1, dyn1, next, decommitted)
  <2>1. At(dyn1, NoPage) = << >>
    BY <1>4, <1>5, <1>6, AtFacts
  <2> HIDE DEF fs1, dyn1
  <2>2. GoodBut(fs1, dyn1, next, decommitted, NoPage)
    BY <1>6 DEF fs1, dyn1
  <2>3. NoLeak(fs1, dyn1, decommitted)
    BY <2>1, <2>2 DEF GoodBut, NoLeak
  <2> QED
    BY <2>2, <2>3 DEF GoodBut, Good
<1>8. /\ DOMAIN fs1 = DOMAIN frames \ {Len(frames)} /\ 1 \in DOMAIN fs1
      /\ \A i \in DOMAIN fs1 : fs1[i] = frames[i]
  BY <1>5, FrontFrames DEF Good, Typed
<1>9. ASSUME snapshot # << >>
      PROVE  CanGoBack(fs1, dyn1, next, snapshot[1])
  <2> DEFINE back == snapshot[1]
  <2>1. /\ back \in Snapshots /\ CanGoBack(frames, dynamic, next, back)
        /\ Newer(frames, dynamic, next, back)
    BY <1>9 DEF IInv, CanGoBack
  <2>2. \A g \in 1..back.groups : dyn1[g] = dynamic[g]
    BY <1>6, <1>9
  <2> HIDE DEF back, fs1, dyn1
  <2>3. back.groups <= Len(dyn1)
    BY <1>6, <2>1 DEF Newer, dyn1
  <2>4. \A i \in DOMAIN fs1 : i # 1 => \A q \in Has(fs1[i]) : q.group >= back.next
    BY <1>8, <2>1 DEF Newer
  <2>5. Typed(frames, dynamic, next, decommitted) /\ Typed(fs1, dyn1, next, decommitted)
    BY <1>5, <1>7 DEF Good
  <2>6. next <= next /\ fs1[1] = frames[1]
    BY <1>5, <1>8
  <2>7. CanGoBack(fs1, dyn1, next, back)
    BY <2>1, <2>2, <2>3, <2>4, <2>5, <2>6, StillBack
  <2> QED
    BY <2>7 DEF back
<1> HIDE DEF fs1, dyn1
<1>10. frames' = fs1 /\ dynamic' = dyn1 /\ next' = next /\ decommitted' = decommitted
  BY <1>3 DEF fs1, dyn1
<1>11. Good(frames', dynamic', next', decommitted')
  BY <1>7, <1>10
<1>12. snapshot # << >> => CanGoBack(frames', dynamic', next', snapshot[1])
  BY <1>9, <1>10
<1> QED
  BY <1>3, <1>11, <1>12, SnapshotStays

\* A page that may be returned is the dying frame's or pinned, and not older.
LEMMA Returnable ==
  ASSUME IInv, ~InBootloader, NEW p \in Nameable, IsUnidirectional(Current, p.page)
  PROVE  /\ p \in Pointers /\ p.page \in Pages /\ p.window \in SUBSET Chunks
         /\ HoldsIn(dynamic, p.page, p.window) /\ At(dynamic, p.page) # << >>
         /\ p.page.group >= 1
         /\ p.page \in Pinned \cup Has(Current)
         /\ snapshot # << >> => p.page.group >= snapshot[1].next
         /\ p.page \in Pinned \/ \A i \in DOMAIN Front(frames) : p.page \notin Has(frames[i])
<1> DEFINE n == Len(frames)
           page == p.page
<1>1. /\ Good(frames, dynamic, next, decommitted) /\ n > 1 /\ n \in DOMAIN frames
      /\ Current = frames[n] /\ Pinned = PagesOf(decommitted)
      /\ frames[n] \in Frames /\ frames[n].group >= 1
      /\ dynamic \in Dynamics /\ next \in Nat
  BY Dying
<1>2. /\ p \in Pointers /\ page \in Pages /\ p.window \in SUBSET Chunks
      /\ HoldsIn(dynamic, page, p.window)
      /\ page = Current.calldata \/ page \in Pinned \cup Has(Current)
  BY <1>1, NameableFacts
<1>3. page.group >= frames[n].group /\ page # frames[n].calldata
  BY <1>1 DEF IsUnidirectional
<1>4. page \in Pinned \cup Has(Current)
  BY <1>1, <1>2, <1>3
<1>5. page.group \in Nat /\ frames[n].group \in Nat
  BY <1>1, <1>2, SamePage, FramePages
<1>6. page.group >= 1
  BY <1>1, <1>3, <1>5
<1>7. At(dynamic, page) # << >>
  BY <1>2, <1>6 DEF HoldsIn
<1>8. ASSUME snapshot # << >>
      PROVE  page.group >= snapshot[1].next
  <2> DEFINE back == snapshot[1]
  <2>1. back \in Snapshots /\ CanGoBack(frames, dynamic, next, back)
    BY <1>8 DEF IInv
  <2> HIDE DEF back, n
  <2>2. back.next \in Nat /\ Newer(frames, dynamic, next, back)
    BY <2>1, SnapshotFacts DEF CanGoBack
  <2>3. n # 1
    BY <1>1 DEF n
  <2>4. Heap(frames[n]) \in Has(frames[n]) /\ Heap(frames[n]).group = frames[n].group
    BY <1>1, FramePages DEF Has, Owned
  <2>5. frames[n].group >= back.next
    BY <1>1, <2>2, <2>3, <2>4 DEF Newer
  <2>6. page.group >= back.next
    BY <1>3, <1>5, <2>2, <2>5
  <2> QED
    BY <2>6 DEF back
<1>9. ASSUME page \notin Pinned, NEW i \in DOMAIN Front(frames)
      PROVE  page \notin Has(frames[i])
  <2>1. i \in DOMAIN frames /\ i # n
    BY <1>1, FrontFrames DEF Good, Typed
  <2>2. page \in Has(frames[n])
    BY <1>1, <1>4, <1>9
  <2> HIDE DEF n
  <2> QED
    BY <1>1, <1>9, <2>1, <2>2 DEF Good, Unique
<1> QED
  BY <1>2, <1>4, <1>6, <1>7, <1>8, <1>9

\* The returned page may be shrunk.
Shrunk(p) ==
  IF Shrinks(Current, p.page)
  THEN CompactToWindow(Popped(p.page), p.page, p.window) ELSE Popped(p.page)

LEMMA ShrunkFacts ==
  ASSUME IInv, ~InBootloader, NEW p \in Nameable, IsUnidirectional(Current, p.page)
  PROVE  /\ GoodBut(Front(frames), Shrunk(p), next, decommitted, p.page)
         /\ Len(Shrunk(p)) = Len(dynamic)
         /\ At(Shrunk(p), p.page) # << >> /\ HoldsIn(Shrunk(p), p.page, p.window)
         /\ snapshot # << >> =>
              \A g \in 1..snapshot[1].groups : Shrunk(p)[g] = dynamic[g]
<1> DEFINE page == p.page
           fs1 == Front(frames)
           freed == Popped(page)
<1>1. /\ page \in Pages /\ p.window \in SUBSET Chunks
      /\ HoldsIn(dynamic, page, p.window) /\ At(dynamic, page) # << >>
      /\ page.group >= 1
      /\ snapshot # << >> => page.group >= snapshot[1].next
      /\ page \in Pinned \/ \A i \in DOMAIN fs1 : page \notin Has(frames[i])
  BY Returnable
<1>2. /\ GoodBut(fs1, freed, next, decommitted, page)
      /\ Len(freed) = Len(dynamic)
      /\ At(freed, page) = At(dynamic, page)
      /\ snapshot # << >> =>
           \A g \in 1..snapshot[1].groups : freed[g] = dynamic[g]
  BY <1>1, PopFacts
<1>3. HoldsIn(freed, page, p.window) /\ At(freed, page) # << >>
  BY <1>1, <1>2 DEF HoldsIn
<1>4. /\ \A i \in DOMAIN fs1 : fs1[i] = frames[i]
      /\ Pinned = PagesOf(decommitted)
  <2>1. Good(frames, dynamic, next, decommitted) /\ Len(frames) > 1
        /\ Pinned = PagesOf(decommitted)
    BY Dying
  <2> QED
    BY <2>1, FrontFrames DEF Good, Typed
<1> HIDE DEF fs1, freed
<1>5. CASE Shrinks(Current, p.page)
  <2> DEFINE dyn1 == CompactToWindow(freed, page, p.window)
  <2>1. Shrunk(p) = dyn1
    BY <1>5 DEF Shrunk, freed
  <2>2. page \notin PagesOf(decommitted) /\ \A i \in DOMAIN fs1 : page \notin Has(fs1[i])
    BY <1>1, <1>4, <1>5 DEF Shrinks
  <2>3. /\ GoodBut(fs1, dyn1, next, decommitted, page)
        /\ Len(dyn1) = Len(freed)
        /\ HoldsIn(dyn1, page, p.window) /\ At(dyn1, page) # << >>
        /\ \A g \in 1..Len(freed) : g # page.group => dyn1[g] = freed[g]
    BY <1>1, <1>2, <1>3, <2>2, GoodCompact
  <2> HIDE DEF dyn1
  <2>4. ASSUME snapshot # << >>, NEW g \in 1..snapshot[1].groups
        PROVE  dyn1[g] = dynamic[g]
    <3> DEFINE back == snapshot[1]
    <3>1. back \in Snapshots /\ CanGoBack(frames, dynamic, next, back)
      BY <2>4 DEF IInv
    <3>2. g \in 1..back.groups /\ page.group >= back.next /\ freed[g] = dynamic[g]
      BY <1>1, <1>2, <2>4
    <3> HIDE DEF back
    <3>3. /\ back.next \in Nat /\ back.groups \in Nat /\ back.groups < back.next
          /\ Newer(frames, dynamic, next, back)
      BY <3>1, SnapshotFacts DEF CanGoBack
    <3>4. Len(dynamic) \in Nat /\ page.group \in Nat
      BY <1>1, Dying, SamePage DEF Dynamics
    <3>5. g \in 1..Len(freed) /\ g # page.group
      BY <1>2, <3>2, <3>3, <3>4 DEF Newer
    <3> QED
      BY <2>3, <3>2, <3>5
  <2> QED
    BY <1>2, <2>1, <2>3, <2>4 DEF fs1
<1>6. CASE ~Shrinks(Current, p.page)
  <2>1. Shrunk(p) = freed
    BY <1>6 DEF Shrunk, freed
  <2> QED
    BY <1>2, <1>3, <2>1 DEF fs1
<1> QED
  BY <1>5, <1>6

LEMMA StepReturnPointer ==
  ASSUME IInv, ReturnPointer, ~OlderPagesReturned
  PROVE  IInv'
<1>1. PICK p \in Nameable :
        /\ ~InBootloader /\ IsUnidirectional(Current, p.page) /\ PopFrameReturning(p)
  BY DEF ReturnPointer
<1>2. CanDeallocate(dynamic, Doomed(Current), Spared(p.page))
  BY <1>1, Dying
<1> DEFINE page == p.page
           fs == Front(frames)
           dyn1 == Shrunk(p)
           fs1 == Keeping(fs, p)
<1>3. /\ Good(frames, dynamic, next, decommitted) /\ Len(frames) > 1
      /\ dynamic \in Dynamics /\ next \in Nat /\ Pinned = PagesOf(decommitted)
  BY <1>1, Dying
<1>4. /\ Len(fs) = Len(frames) - 1 /\ 1 \in DOMAIN fs
      /\ DOMAIN fs = DOMAIN frames \ {Len(frames)}
      /\ \A i \in DOMAIN fs : fs[i] = frames[i]
  BY <1>3, FrontFrames DEF Good, Typed
<1>5. /\ frames' = fs1 /\ dynamic' = dyn1
      /\ UNCHANGED << next, decommitted, snapshot, panic >>
  <2>1. /\ dynamic' = dyn1
        /\ frames' = [fs EXCEPT ![Len(frames) - 1].keeping = Append(@, p.page),
                                ![Len(frames) - 1].held = Hold(@, p)]
        /\ UNCHANGED << next, decommitted, snapshot, panic >>
    BY <1>1, <1>2 DEF PopFrameReturning, Shrunk, Popped
  <2> HIDE DEF dyn1, fs
  <2> QED
    BY <1>4, <2>1 DEF Keeping
<1>6. /\ p \in Pointers /\ page \in Pages /\ page.group >= 1
      /\ snapshot # << >> => page.group >= snapshot[1].next
      /\ page \in Pinned \/ \A i \in DOMAIN fs : page \notin Has(frames[i])
  BY <1>1, Returnable
<1>7. /\ GoodBut(fs, dyn1, next, decommitted, page)
      /\ Len(dyn1) = Len(dynamic)
      /\ At(dyn1, page) # << >> /\ HoldsIn(dyn1, page, p.window)
      /\ snapshot # << >> =>
           \A g \in 1..snapshot[1].groups : dyn1[g] = dynamic[g]
  BY <1>1, ShrunkFacts
<1> HIDE DEF fs, dyn1
<1>8. page \in PagesOf(decommitted) \/ \A i \in DOMAIN fs : page \notin Has(fs[i])
  BY <1>3, <1>4, <1>6
<1>9. LET n == Len(fs)
      IN /\ Good(fs1, dyn1, next, decommitted)
         /\ fs1[n].group = fs[n].group /\ fs1[n].calldata = fs[n].calldata
         /\ Has(fs1[n]) = Has(fs[n]) \cup {page}
         /\ fs1[n].keeping = Append(fs[n].keeping, page)
         /\ DOMAIN fs1 = DOMAIN fs
         /\ \A i \in DOMAIN fs : i # n => fs1[i] = fs[i]
  <2>1. KeepsIn(fs, dyn1, next, decommitted, p)
    BY <1>6, <1>7, <1>8, GoodKeep
  <2> QED
    BY <2>1, Zenon DEF KeepsIn
<1> HIDE DEF fs1
<1>10. ASSUME snapshot # << >>
       PROVE  CanGoBack(fs1, dyn1, next, snapshot[1])
  <2> DEFINE back == snapshot[1]
             n == Len(fs)
  <2>1. /\ back \in Snapshots /\ CanGoBack(frames, dynamic, next, back)
        /\ Newer(frames, dynamic, next, back)
    BY <1>10 DEF IInv, CanGoBack
  <2>2. (\A g \in 1..back.groups : dyn1[g] = dynamic[g]) /\ page.group >= back.next
    BY <1>6, <1>7, <1>10
  <2>3. /\ fs1[n].group = fs[n].group /\ fs1[n].calldata = fs[n].calldata
        /\ Has(fs1[n]) = Has(fs[n]) \cup {page}
        /\ fs1[n].keeping = Append(fs[n].keeping, page)
        /\ DOMAIN fs1 = DOMAIN fs
        /\ \A i \in DOMAIN fs : i # n => fs1[i] = fs[i]
    BY <1>9
  <2> HIDE DEF back, n
  <2>4. back.groups <= Len(dyn1)
    BY <1>7, <2>1 DEF Newer
  <2>5. \A i \in DOMAIN fs1 : i # 1 => \A q \in Has(fs1[i]) : q.group >= back.next
    <3>1. \A i \in DOMAIN fs : i # 1 => \A q \in Has(fs[i]) : q.group >= back.next
      BY <1>4, <2>1 DEF Newer
    <3> QED
      BY <2>2, <2>3, <3>1
  <2>6. Typed(frames, dynamic, next, decommitted) /\ Typed(fs1, dyn1, next, decommitted)
    BY <1>3, <1>9 DEF Good
  <2>7. next <= next /\ fs1[1].group = frames[1].group
        /\ fs1[1].calldata = frames[1].calldata
    BY <1>3, <1>4, <2>3
  <2>8. \/ fs1[1].keeping = frames[1].keeping
        \/ \E x \in Pages : /\ x.group >= back.next
                            /\ fs1[1].keeping = Append(frames[1].keeping, x)
    BY <1>4, <1>6, <2>2, <2>3
  <2>9. CanGoBack(fs1, dyn1, next, back)
    BY <2>1, <2>2, <2>4, <2>5, <2>6, <2>7, <2>8, StillBack
  <2> QED
    BY <2>9 DEF back
<1>11. Good(frames', dynamic', next', decommitted')
  BY <1>5, <1>9
<1>12. snapshot # << >> => CanGoBack(frames', dynamic', next', snapshot[1])
  BY <1>5, <1>10
<1> QED
  BY <1>5, <1>11, <1>12, SnapshotStays
-----------------------------------------------------------------------------
(* So do stores and what the host does. *)

LEMMA Unchanged ==
  ASSUME IInv, UNCHANGED << frames, dynamic, next, decommitted, snapshot >>,
         panic' \in {"none", "rollback"}
  PROVE  IInv'
<1>1. Good(frames', dynamic', next', decommitted')
  BY DEF IInv
<1>2. snapshot' # << >> =>
        /\ snapshot' = << snapshot'[1] >> /\ snapshot'[1] \in Snapshots
        /\ CanGoBack(frames', dynamic', next', snapshot'[1])
  BY DEF IInv
<1> QED
  BY <1>1, <1>2 DEF IInv

LEMMA StepWriteHeap ==
  ASSUME IInv, WriteHeap
  PROVE  IInv'
<1>1. PICK page \in Owned(Current) :
        /\ dynamic' = Touch(dynamic, page)
        /\ UNCHANGED << frames, next, decommitted, snapshot, panic >>
  BY DEF WriteHeap
<1> DEFINE n == Len(frames)
<1>2. /\ Typed(frames, dynamic, next, decommitted)
      /\ Intact(frames, dynamic, decommitted)
  BY DEF IInv, Good
<1>3. n \in DOMAIN frames /\ frames[n] \in Frames /\ dynamic \in Dynamics
  BY <1>2, GoodFrames
<1>4. page \in Owned(frames[n])
  BY DEF Current
<1> HIDE DEF n
<1>5. HoldsIn(dynamic, page, Chunks) /\ page \in Pages
  BY <1>2, <1>3, <1>4, FramePages DEF Intact
<1>6. dynamic' = dynamic
  BY <1>1, <1>3, <1>5, TouchOwned
<1>7. panic' \in {"none", "rollback"}
  BY <1>1 DEF IInv
<1> QED
  BY <1>1, <1>6, <1>7, Unchanged

LEMMA WholeList ==
  ASSUME NEW seq \in Seq(Pages)
  PROVE  SubSeq(seq, 1, Len(seq)) = seq
  OBVIOUS

LEMMA StepMakeSnapshot ==
  ASSUME IInv, MakeSnapshot
  PROVE  IInv'
<1> DEFINE back == [keeping     |-> Len(frames[1].keeping),
                    held        |-> frames[1].held,
                    groups      |-> Len(dynamic),
                    next        |-> next,
                    decommitted |-> decommitted,
                    pages       |-> dynamic]
<1>1. /\ Len(frames) = 1 /\ snapshot' = << back >>
      /\ UNCHANGED << frames, dynamic, next, decommitted, panic >>
  BY DEF MakeSnapshot, InBootloader
<1>2. Good(frames, dynamic, next, decommitted) /\ Typed(frames, dynamic, next, decommitted)
  BY DEF IInv, Good
<1>3. /\ frames[1] \in Frames /\ DOMAIN frames = 1..1 /\ frames \in Seq(Frames)
      /\ frames[1].keeping \in Seq(Pages) /\ frames[1].held \in SUBSET Pointers
      /\ dynamic \in Dynamics /\ decommitted \in Codes
      /\ Len(dynamic) \in Nat /\ next \in 1..(MaxGroups + 1)
  <2>1. frames \in Seq(Frames) /\ next \in 1..(MaxGroups + 1)
    BY <1>2 DEF Typed
  <2> QED
    BY <1>1, <1>2, <2>1, GoodFrames, FramePages
<1>4. Len(frames[1].keeping) \in Nat
      /\ DOMAIN frames[1].keeping = 1..Len(frames[1].keeping)
  BY <1>3
<1>5. /\ back.keeping = Len(frames[1].keeping) /\ back.held = frames[1].held
      /\ back.groups = Len(dynamic) /\ back.next = next
      /\ back.decommitted = decommitted /\ back.pages = dynamic
      /\ back \in Snapshots
  BY <1>3, <1>4 DEF Snapshots
<1> HIDE DEF back
<1>6. Newer(frames, dynamic, next, back)
  <2>1. /\ back.next <= next /\ back.groups <= Len(dynamic)
        /\ back.keeping <= Len(frames[1].keeping)
    BY <1>3, <1>4, <1>5, Bounds
  <2>2. \A k \in DOMAIN frames[1].keeping : ~ k > back.keeping
    BY <1>4, <1>5
  <2>3. \A i \in DOMAIN frames : i = 1
    BY <1>3
  <2> QED
    BY <1>5, <2>1, <2>2, <2>3 DEF Newer
<1>7. Restored(frames, back) = frames
  <2> DEFINE f == frames[1]
             g == Relisted(f, f.keeping, f.held)
  <2>1. g = f
    BY <1>3, BackFrame, SameFrame
  <2>2. SubSeq(frames[1].keeping, 1, back.keeping) = f.keeping
    BY <1>3, <1>5, WholeList
  <2>3. Restored(frames, back) = << g >>
    BY <1>5, <2>2 DEF Restored
  <2>4. frames = << frames[1] >>
    BY <1>1, <1>3
  <2> HIDE DEF g
  <2> QED
    BY <2>1, <2>3, <2>4
<1>8. CanGoBack(frames, dynamic, next, back)
  BY <1>2, <1>5, <1>6, <1>7 DEF CanGoBack
<1>9. snapshot'[1] = back
  BY <1>1
<1>10. Good(frames', dynamic', next', decommitted')
  BY <1>1, <1>2
<1>11. /\ snapshot' = << snapshot'[1] >> /\ snapshot'[1] \in Snapshots
       /\ CanGoBack(frames', dynamic', next', snapshot'[1])
  BY <1>1, <1>5, <1>8, <1>9
<1>12. panic' \in {"none", "rollback"}
  BY <1>1 DEF IInv
<1> QED
  BY <1>10, <1>11, <1>12 DEF IInv

\* Sweeping and truncating leaves what there was at the snapshot.
LEMMA SweepFacts ==
  ASSUME IInv, snapshot # << >>
  PROVE  TruncateDynamicTo(Deallocate(dynamic, KeptSince(snapshot[1]),
                                      PagesOf(snapshot[1].decommitted)),
                           snapshot[1].groups) = snapshot[1].pages
<1> DEFINE back == snapshot[1]
           doomed == KeptSince(back)
           pins == PagesOf(back.decommitted)
           after == Deallocate(dynamic, doomed, pins)
           keeping == frames[1].keeping
<1>1. /\ back \in Snapshots /\ CanGoBack(frames, dynamic, next, back)
      /\ Typed(frames, dynamic, next, decommitted)
  BY DEF IInv, Good
<1>2. doomed = SubSeq(keeping, back.keeping + 1, Len(keeping))
  BY DEF KeptSince
<1> HIDE DEF back, doomed, pins
<1>3. /\ back.next \in Nat /\ back.groups \in Nat /\ back.groups < back.next
      /\ back.groups = Len(back.pages) /\ back.keeping \in Nat /\ back.pages \in Dynamics
      /\ Newer(frames, dynamic, next, back)
  BY <1>1, SnapshotFacts DEF CanGoBack
<1>4. keeping \in Seq(Pages) /\ dynamic \in Dynamics /\ Len(dynamic) \in Nat
  BY <1>1, GoodFrames
<1>5. \A k \in DOMAIN keeping : k > back.keeping => keeping[k].group >= back.next
  BY <1>3 DEF Newer
<1> HIDE DEF keeping
<1>6. \A x \in ToSet(doomed) : x \in Pages /\ x.group >= back.next
  <2>1. ASSUME NEW k \in DOMAIN doomed
        PROVE  \E l \in DOMAIN keeping : l > back.keeping /\ doomed[k] = keeping[l]
    <3> DEFINE l == back.keeping + k
    <3>1. Len(keeping) \in Nat /\ DOMAIN keeping = 1..Len(keeping)
      BY <1>4
    <3>2. /\ k \in Nat /\ k >= 1 /\ k <= Len(keeping) - back.keeping
          /\ doomed[k] = keeping[back.keeping + 1 + k - 1]
      <4> DEFINE from == back.keeping + 1
                 to == Len(keeping)
      <4>1. back.keeping <= to
        BY <1>3, Zenon DEF Newer, keeping
      <4>2. from \in 1..(to + 1) /\ to \in Nat /\ to \in 0..to
        BY <1>3, <3>1, <4>1
      <4>3. doomed = SubSeq(keeping, from, to)
        BY <1>2
      <4> HIDE DEF from
      <4>4. /\ doomed \in Seq(Pages)
            /\ Len(doomed) = IF from <= to THEN to - from + 1 ELSE 0
            /\ \A i \in 1..(to - from + 1) : doomed[i] = keeping[from + i - 1]
        BY <1>4, <4>2, <4>3, SubSeqProperties
      <4>5. DOMAIN doomed = 1..Len(doomed) /\ Len(doomed) \in Nat
        BY <4>4
      <4>6. k \in 1..(to - from + 1) /\ k \in Nat
        BY <2>1, <4>2, <4>4, <4>5
      <4>7. doomed[k] = keeping[from + k - 1]
        BY <4>4, <4>6
      <4>8. to \in Nat /\ from = back.keeping + 1
        BY <4>2 DEF from
      <4> HIDE DEF to
      <4>9. k \in Nat /\ k >= 1 /\ k <= to - back.keeping
        BY <1>3, <4>6, <4>8
      <4>10. doomed[k] = keeping[back.keeping + 1 + k - 1]
        BY <4>7 DEF from
      <4> QED
        BY <4>9, <4>10 DEF to
    <3>3. back.keeping + 1 + k - 1 = l
      BY <1>3, <3>2
    <3>4. l \in DOMAIN keeping /\ l > back.keeping /\ doomed[k] = keeping[l]
      BY <1>3, <3>1, <3>2, <3>3
    <3> QED
      BY <3>4
  <2>2. \A l \in DOMAIN keeping : keeping[l] \in Pages
    BY <1>4
  <2> QED
    BY <1>5, <2>1, <2>2 DEF ToSet
<1>7. /\ after \in Dynamics /\ Len(after) = Len(dynamic)
      /\ \A g \in 1..Len(dynamic) :
           (\A page \in ToSet(doomed) \ pins : page.group # g) => after[g] = dynamic[g]
  BY <1>4, DeallocateFacts
<1> HIDE DEF after
<1>8. ASSUME NEW g \in 1..back.groups
      PROVE  after[g] = back.pages[g]
  <2>1. g \in 1..Len(dynamic) /\ dynamic[g] = back.pages[g]
    BY <1>3, <1>4 DEF Newer
  <2>2. \A page \in ToSet(doomed) \ pins : page.group # g
    BY <1>3, <1>6
  <2> QED
    BY <1>7, <2>1, <2>2
<1>9. SubSeq(after, 1, back.groups) = back.pages
  <2>1. back.groups <= Len(after)
    BY <1>3, <1>7 DEF Newer
  <2>2. SubSeq(after, 1, back.groups) = [g \in 1..back.groups |-> after[g]]
    BY <1>3, <1>7, <2>1
  <2>3. back.pages = [g \in 1..back.groups |-> back.pages[g]]
    BY <1>3 DEF Dynamics
  <2> QED
    BY <1>8, <2>2, <2>3
<1> QED
  BY <1>9 DEF TruncateDynamicTo, after, pins, doomed, back

LEMMA StepHostRollback ==
  ASSUME IInv, HostRollback
  PROVE  /\ IInv'
         /\ next' < next => dynamic' = snapshot[1].pages
<1> DEFINE back == snapshot[1]
           doomed == KeptSince(back)
           pins == PagesOf(back.decommitted)
<1>1. snapshot # << >>
  BY DEF HostRollback
<1>2. CASE CanDeallocate(dynamic, doomed, pins)
  <2>1. /\ frames' = Restored(frames, back)
        /\ dynamic' = TruncateDynamicTo(Deallocate(dynamic, doomed, pins), back.groups)
        /\ next' = back.next /\ decommitted' = back.decommitted
        /\ snapshot' = << >> /\ UNCHANGED panic
    BY <1>2 DEF HostRollback, Restored, Relisted, KeptBefore
  <2>2. dynamic' = back.pages
    BY <1>1, <2>1, SweepFacts
  <2>3. Good(Restored(frames, back), back.pages, back.next, back.decommitted)
    BY <1>1 DEF IInv, CanGoBack
  <2> HIDE DEF back, doomed, pins
  <2>4. Good(frames', dynamic', next', decommitted')
    BY <2>1, <2>2, <2>3
  <2>5. panic' \in {"none", "rollback"}
    BY <2>1 DEF IInv
  <2>6. IInv'
    BY <2>1, <2>4, <2>5 DEF IInv
  <2> QED
    BY <2>2, <2>6 DEF back
<1>3. CASE ~CanDeallocate(dynamic, doomed, pins)
  <2>1. /\ UNCHANGED << frames, dynamic, next, decommitted, snapshot >>
        /\ panic' = "rollback"
    BY <1>3 DEF HostRollback, Abort
  <2>2. next \in Nat /\ next' = next
    BY <2>1, GoodFrames DEF IInv, Good
  <2> QED
    BY <2>1, <2>2, Unchanged
<1> QED
  BY <1>2, <1>3

LEMMA StepPopSnapshot ==
  ASSUME IInv, PopSnapshot
  PROVE  IInv'
<1> DEFINE f == frames[1]
           keeping == f.keeping
           left == Retain(keeping, Pinned)
           held == {p \in f.held : p.page \notin ToSet(keeping) \ Pinned}
           f1 == Relisted(f, left, held)
           fs1 == << f1 >>
           dyn1 == Deallocate(dynamic, keeping, Pinned)
<1>1. /\ Typed(frames, dynamic, next, decommitted) /\ Intact(frames, dynamic, decommitted)
      /\ Unique(frames, decommitted) /\ Kept(frames, dynamic)
      /\ Reached(frames, decommitted) /\ NoLeak(frames, dynamic, decommitted)
  BY DEF IInv, Good
<1>2. Len(frames) = 1 /\ Pinned = PagesOf(decommitted)
  BY DEF PopSnapshot, InBootloader, Pinned
<1>3. /\ DOMAIN frames = 1..1 /\ f \in Frames /\ Has(f) \subseteq Pages
      /\ Owned(f) \subseteq Pages /\ f.group = 0 /\ f.calldata \in Pages
      /\ keeping \in Seq(Pages) /\ f.held \in SUBSET Pointers
      /\ \A p \in f.held : p.page \in Pages
      /\ dynamic \in Dynamics /\ next \in Nat
      /\ decommitted \in Codes /\ PagesOf(decommitted) \subseteq Pages
  <2>1. DOMAIN frames = 1..1 /\ 1 \in DOMAIN frames /\ f.group = 0
    BY <1>1, <1>2, GoodFrames DEF Typed
  <2> QED
    BY <1>1, <2>1, GoodFrames, FramePages
<1>4. CanDeallocate(dynamic, keeping, Pinned)
  <2>1. ASSUME NEW k \in DOMAIN keeping, keeping[k] \notin Pinned
        PROVE  /\ At(dynamic, keeping[k]) # << >>
               /\ \A l \in DOMAIN keeping : keeping[l] = keeping[k] => l = k
    <3>1. 1 \in DOMAIN frames /\ keeping[k] \in ToSet(keeping)
      BY <1>3 DEF ToSet
    <3>2. At(dynamic, keeping[k]) # << >>
      BY <1>1, <3>1 DEF Kept
    <3>3. \A l \in DOMAIN keeping : keeping[l] = keeping[k] => l = k
      BY <1>1, <1>2, <2>1, <3>1 DEF Unique
    <3> QED
      BY <3>2, <3>3
  <2> QED
    BY <2>1 DEF CanDeallocate
<1>5. /\ dynamic' = dyn1 /\ frames' = fs1 /\ snapshot' = << >>
      /\ UNCHANGED << next, decommitted, panic >>
  BY <1>4 DEF PopSnapshot, Retained, Relisted
<1>6. /\ left \in Seq(Pages) /\ ToSet(left) \subseteq Pinned \cap ToSet(keeping)
  <2>1. left \in Seq(Pinned \cap ToSet(keeping))
    BY <1>3, RetainFacts
  <2>2. ToSet(keeping) \subseteq Pages
    BY <1>3 DEF ToSet
  <2> HIDE DEF left, keeping
  <2>3. \A k \in DOMAIN left : left[k] \in Pinned \cap ToSet(keeping)
    BY <2>1
  <2>4. left \in Seq(Pages)
    BY <2>1, <2>2
  <2> QED
    BY <2>3, <2>4 DEF ToSet
<1>7. held \subseteq f.held /\ held \in SUBSET Pointers
      /\ \A p \in held : p.page \notin ToSet(keeping) \ Pinned
  BY <1>3
<1> HIDE DEF left, held
<1>8. /\ f1 \in Frames /\ f1.group = 0 /\ f1.calldata = f.calldata
      /\ f1.keeping = left /\ f1.held = held /\ Owned(f1) = Owned(f)
  BY <1>3, <1>6, <1>7, BackFrame
<1> HIDE DEF f1
<1>9. /\ fs1 \in Seq(Frames) /\ Len(fs1) = 1 /\ DOMAIN fs1 = 1..1 /\ fs1[1] = f1
  BY <1>8
<1>10. /\ dyn1 \in Dynamics /\ Len(dyn1) = Len(dynamic)
       /\ \A q \in Pages :
            At(dyn1, q) = IF q \in ToSet(keeping) \ Pinned THEN << >>
                          ELSE At(dynamic, q)
  BY <1>3, DeallocateFacts
<1> HIDE DEF fs1, dyn1
<1>11. Typed(fs1, dyn1, next, decommitted)
  BY <1>1, <1>8, <1>9, <1>10 DEF Typed
<1>12. \A q \in Pages : \A chunks :
         q \notin ToSet(keeping) \ Pinned /\ HoldsIn(dynamic, q, chunks)
           => HoldsIn(dyn1, q, chunks)
  BY <1>10 DEF HoldsIn
<1>13. Intact(fs1, dyn1, decommitted)
  <2>1. \A q \in Owned(f1) : HoldsIn(dyn1, q, Chunks)
    <3>1. \A q \in Owned(f) : q.group = 0
      BY <1>3, FramePages DEF Owned
    <3> QED
      BY <1>8, <3>1 DEF HoldsIn
  <2>2. \A p \in f1.held : HoldsIn(dyn1, p.page, p.window)
    <3>1. \A p \in f.held : HoldsIn(dynamic, p.page, p.window)
      BY <1>1, <1>3 DEF Intact
    <3> QED
      BY <1>3, <1>7, <1>8, <1>12, <3>1
  <2>3. \A q \in PagesOf(decommitted) : HoldsIn(dyn1, q, Chunks)
    BY <1>1, <1>2, <1>3, <1>12 DEF Intact
  <2> QED
    BY <1>9, <2>1, <2>2, <2>3 DEF Intact
<1>14. \A k \in DOMAIN left : left[k] \in Pinned
  BY <1>6 DEF ToSet
<1>15. Unique(fs1, decommitted)
  BY <1>2, <1>8, <1>9, <1>14 DEF Unique
<1>16. Kept(fs1, dyn1)
  <2>1. \A q \in ToSet(keeping) : q.group >= 1 /\ At(dynamic, q) # << >>
    BY <1>1, <1>3 DEF Kept
  <2>2. \A q \in ToSet(left) : q.group >= 1 /\ At(dyn1, q) # << >>
    BY <1>2, <1>3, <1>6, <1>10, <2>1
  <2> QED
    BY <1>8, <1>9, <2>2 DEF Kept
<1>17. Has(f) \subseteq Has(f1) \cup Pinned \cup (ToSet(keeping) \ Pinned)
  BY <1>8 DEF Has
<1>18. Reached(fs1, decommitted)
  <2>1. \A p \in f.held : p.page = f.calldata \/ p.page \in PagesOf(decommitted) \cup Has(f)
    BY <1>1, <1>3 DEF Reached
  <2>2. \A p \in f1.held :
          p.page = f1.calldata \/ p.page \in PagesOf(decommitted) \cup Has(f1)
    BY <1>2, <1>7, <1>8, <1>17, <2>1
  <2>3. f.calldata.group = 0 \/ f.calldata \in PagesOf(decommitted)
    BY <1>1, <1>3 DEF Reached
  <2> QED
    BY <1>8, <1>9, <2>2, <2>3 DEF Reached
<1>19. NoLeak(fs1, dyn1, decommitted)
  <2>1. ASSUME NEW q \in Pages, At(dyn1, q) # << >>
        PROVE  q \in PagesOf(decommitted) \/ \E i \in DOMAIN fs1 : q \in Has(fs1[i])
    <3>1. q \notin ToSet(keeping) \ Pinned /\ At(dynamic, q) # << >>
      BY <1>10, <2>1
    <3>2. q \in PagesOf(decommitted) \/ q \in Has(f)
      BY <1>1, <1>3, <3>1 DEF NoLeak
    <3>3. q \in PagesOf(decommitted) \/ q \in Has(f1)
      BY <1>2, <1>17, <3>1, <3>2
    <3> QED
      BY <1>9, <3>3
  <2> QED
    BY <2>1 DEF NoLeak
<1>20. Good(fs1, dyn1, next, decommitted)
  BY <1>11, <1>13, <1>15, <1>16, <1>18, <1>19 DEF Good
<1>21. Good(frames', dynamic', next', decommitted')
  BY <1>5, <1>20
<1>22. panic' \in {"none", "rollback"}
  BY <1>5 DEF IInv
<1> QED
  BY <1>5, <1>21, <1>22 DEF IInv
-----------------------------------------------------------------------------
(* The theorems *)

LEMMA InitIInv == Init => IInv
<1> SUFFICES ASSUME Init PROVE IInv
  OBVIOUS
<1>1. /\ frames = << Bootloader >> /\ dynamic = << >> /\ next = 1
      /\ decommitted = [h \in Hashes |-> << >>] /\ snapshot = << >> /\ panic = "none"
  BY DEF Init
<1> DEFINE c == Page(0, "calldata")
           p == Pointer(c, Chunks)
           f == Bootloader
<1>2. c \in Pages /\ c.group = 0 /\ c.kind = "calldata"
  BY Bounds DEF Page, Pages
<1> HIDE DEF c
<1>3. p \in Pointers /\ p.page = c /\ p.window = Chunks
  BY <1>2 DEF Pointer, Pointers
<1> HIDE DEF p
<1>4. /\ f.group = 0 /\ f.calldata = c /\ f.keeping = << >> /\ f.held = {p}
      /\ f \in Frames
  <2>1. f = [group |-> 0, calldata |-> c, keeping |-> << >>, held |-> {p}]
    BY DEF Bootloader, Frame, c, p
  <2>2. << >> \in Seq(Pages) /\ {p} \in SUBSET Pointers /\ 0 \in 0..MaxGroups
    BY <1>3, Bounds
  <2> QED
    BY <1>2, <2>1, <2>2 DEF Frames
<1> HIDE DEF f
<1>5. /\ frames \in Seq(Frames) /\ Len(frames) = 1 /\ DOMAIN frames = 1..1
      /\ frames[1] = f
  BY <1>1, <1>4 DEF f
<1>6. /\ dynamic \in Dynamics /\ Len(dynamic) = 0
      /\ decommitted \in Codes /\ PagesOf(decommitted) = {}
  BY <1>1 DEF Dynamics, Codes, PagesOf
<1>7. \A q \in Pages : At(dynamic, q) = << >>
  BY <1>1, <1>6, AtFacts
<1>8. Typed(frames, dynamic, next, decommitted)
  BY <1>1, <1>4, <1>5, <1>6, Bounds DEF Typed
<1>9. Intact(frames, dynamic, decommitted)
  <2>1. \A q \in Owned(f) : q.group = 0
    BY <1>4, FramePages DEF Owned
  <2> QED
    BY <1>2, <1>3, <1>4, <1>5, <1>6, <2>1 DEF Intact, HoldsIn
<1>10. ToSet(f.keeping) = {} /\ DOMAIN f.keeping = {}
  BY <1>4 DEF ToSet
<1>11. Unique(frames, decommitted) /\ Kept(frames, dynamic)
  BY <1>5, <1>10 DEF Unique, Kept
<1>12. Reached(frames, decommitted)
  BY <1>2, <1>3, <1>4, <1>5 DEF Reached
<1>13. NoLeak(frames, dynamic, decommitted)
  BY <1>7 DEF NoLeak
<1> QED
  BY <1>1, <1>8, <1>9, <1>11, <1>12, <1>13 DEF IInv, Good

LEMMA NextIInv ==
  ASSUME ~OlderPagesReturned, IInv, [Next]_vars
  PROVE  IInv'
<1>1. CASE ManuallyDecommit
  BY <1>1, StepManuallyDecommit
<1>2. CASE Decommit
  BY <1>2, StepDecommit
<1>3. CASE FarCall
  BY <1>3, StepFarCall
<1>4. CASE FailedFarCall
  BY <1>4, StepFailedFarCall
<1>5. CASE ReturnPointer
  BY <1>5, StepReturnPointer
<1>6. CASE ReturnNothing
  BY <1>6, StepReturnNothing
<1>7. CASE WriteHeap
  BY <1>7, StepWriteHeap
<1>8. CASE MakeSnapshot
  BY <1>8, StepMakeSnapshot
<1>9. CASE HostRollback
  BY <1>9, StepHostRollback
<1>10. CASE PopSnapshot
  BY <1>10, StepPopSnapshot
<1>11. CASE UNCHANGED vars
  <2>1. panic' \in {"none", "rollback"}
    BY <1>11 DEF vars, IInv
  <2> QED
    BY <1>11, <2>1, Unchanged DEF vars
<1> QED
  BY <1>1, <1>2, <1>3, <1>4, <1>5, <1>6, <1>7, <1>8, <1>9, <1>10, <1>11 DEF Next

LEMMA Consequences ==
  ASSUME IInv
  PROVE  /\ TypeOK /\ LiveHeapsIntact /\ HeldPointersReadable /\ PinnedPagesIntact
         /\ NothingLeaks /\ OnlyRollbackPanics
<1>1. /\ Typed(frames, dynamic, next, decommitted)
      /\ Intact(frames, dynamic, decommitted)
      /\ NoLeak(frames, dynamic, decommitted)
  BY DEF IInv, Good
<1>2. /\ DOMAIN frames = 1..Len(frames) /\ Len(frames) >= 1
      /\ \A i \in DOMAIN frames : frames[i] \in Frames
      /\ dynamic \in Dynamics /\ decommitted \in Codes
      /\ next \in 1..(MaxGroups + 1) /\ Len(dynamic) < next /\ next \in Nat
  <2>1. next \in 1..(MaxGroups + 1) /\ Len(dynamic) < next
    BY <1>1 DEF Typed
  <2> QED
    BY <1>1, <2>1, GoodFrames
<1>3. TypeOK
  <2>1. \A i \in DOMAIN frames :
          /\ frames[i].group \in 0..MaxGroups /\ frames[i].calldata \in Pages
          /\ frames[i].keeping \in Seq(Pages) /\ frames[i].held \subseteq Pointers
    BY <1>2 DEF Frames
  <2>2. \A h \in Hashes : decommitted[h] \in {<< >>} \cup {<< p >> : p \in Pages}
    BY <1>2 DEF Codes
  <2>3. panic \in {"none", "push_frame", "pop_frame", "rollback", "pop_snapshot"}
    BY DEF IInv
  <2> QED
    BY <1>2, <2>1, <2>2, <2>3 DEF TypeOK, Dynamics
<1>4. LiveHeapsIntact /\ HeldPointersReadable /\ PinnedPagesIntact
  BY <1>1 DEF Intact, HoldsIn, Holds, LiveHeapsIntact, HeldPointersReadable,
              PinnedPagesIntact, Pinned
<1>5. NothingLeaks
  <2>1. ASSUME NEW g \in DOMAIN dynamic, NEW kind \in Kinds, dynamic[g][kind] # << >>
        PROVE  \/ Page(g, kind) \in Pinned
               \/ \E i \in DOMAIN frames :
                    Page(g, kind) \in Owned(frames[i]) \cup ToSet(frames[i].keeping)
    <3>1. g \in 0..MaxGroups /\ g \in 1..Len(dynamic)
      BY <1>2, Bounds DEF Dynamics
    <3>2. Page(g, kind) \in Pages /\ Page(g, kind).group = g /\ Page(g, kind).kind = kind
      BY <3>1, MakePage
    <3>3. At(dynamic, Page(g, kind)) # << >>
      BY <1>2, <2>1, <3>1, <3>2, AtFacts
    <3> QED
      BY <1>1, <3>2, <3>3 DEF NoLeak, Pinned, Has
  <2> QED
    BY <2>1 DEF NothingLeaks
<1>6. OnlyRollbackPanics
  BY DEF IInv, OnlyRollbackPanics
<1> QED
  BY <1>3, <1>4, <1>5, <1>6

\* Only the host's rollback takes groups back.
LEMMA Restores ==
  ASSUME ~OlderPagesReturned, IInv, [Next]_vars, snapshot # << >>, next' < next
  PROVE  dynamic' = snapshot[1].pages
<1>1. next \in Nat
  BY GoodFrames DEF IInv, Good
<1>2. ASSUME NEW dyn, NEW fs, NEW c, NEW held, PushFrame(dyn, fs, c, held)
      PROVE  next' = next + 1 \/ next' = next
  BY <1>2 DEF PushFrame
<1>3. CASE ManuallyDecommit \/ Decommit
  BY <1>1, <1>3 DEF ManuallyDecommit, Decommit
<1>4. CASE FarCall \/ FailedFarCall
  <2>1. next' = next + 1 \/ next' = next
    BY <1>2, <1>4 DEF FarCall, FailedFarCall
  <2> QED
    BY <1>1, <2>1
<1>5. CASE ReturnPointer \/ ReturnNothing \/ WriteHeap
  <2>1. next' = next
    BY <1>5 DEF ReturnPointer, PopFrameReturning, ReturnNothing, PopFrame, WriteHeap, Abort
  <2> QED
    BY <1>1, <2>1
<1>6. CASE MakeSnapshot \/ PopSnapshot \/ UNCHANGED vars
  <2>1. next' = next
    BY <1>6 DEF MakeSnapshot, PopSnapshot, Abort, vars
  <2> QED
    BY <1>1, <2>1
<1>7. CASE HostRollback
  BY <1>7, StepHostRollback
<1> QED
  BY <1>3, <1>4, <1>5, <1>6, <1>7 DEF Next

\* As long as kernel contracts return no page older than they are, everything
\* below holds of any number of pages, chunks, hashes and any depth of calls.

\* The sequences, pages and codes are what their types say, and no group beyond
\* next_base_page is in use (vm.rs, heap.rs).
THEOREM TypeCorrect == ~OlderPagesReturned => (Spec => []TypeOK)
<1> SUFFICES ASSUME ~OlderPagesReturned PROVE Spec => []TypeOK
  OBVIOUS
<1>1. Init => IInv
  BY InitIInv
<1>2. IInv /\ [Next]_vars => IInv'
  BY NextIInv
<1>3. IInv => TypeOK
  BY Consequences
<1> QED
  BY <1>1, <1>2, <1>3, PTL DEF Spec

\* The heaps of a frame that is still open lose nothing to the returns, commits
\* and rollbacks of others.
THEOREM OpenHeapsLast == ~OlderPagesReturned => (Spec => []LiveHeapsIntact)
<1> SUFFICES ASSUME ~OlderPagesReturned PROVE Spec => []LiveHeapsIntact
  OBVIOUS
<1>1. Init => IInv
  BY InitIInv
<1>2. IInv /\ [Next]_vars => IInv'
  BY NextIInv
<1>3. IInv => LiveHeapsIntact
  BY Consequences
<1> QED
  BY <1>1, <1>2, <1>3, PTL DEF Spec

\* A fat pointer stays readable for as long as a frame can hold it, however many
\* frames the page it points to was returned through.
THEOREM PointersLast == ~OlderPagesReturned => (Spec => []HeldPointersReadable)
<1> SUFFICES ASSUME ~OlderPagesReturned PROVE Spec => []HeldPointersReadable
  OBVIOUS
<1>1. Init => IInv
  BY InitIInv
<1>2. IInv /\ [Next]_vars => IInv'
  BY NextIInv
<1>3. IInv => HeldPointersReadable
  BY Consequences
<1> QED
  BY <1>1, <1>2, <1>3, PTL DEF Spec

\* Decommitted code stays whole on its page, whoever owns that page and returns
\* windows of it.
THEOREM PinsLast == ~OlderPagesReturned => (Spec => []PinnedPagesIntact)
<1> SUFFICES ASSUME ~OlderPagesReturned PROVE Spec => []PinnedPagesIntact
  OBVIOUS
<1>1. Init => IInv
  BY InitIInv
<1>2. IInv /\ [Next]_vars => IInv'
  BY NextIInv
<1>3. IInv => PinnedPagesIntact
  BY Consequences
<1> QED
  BY <1>1, <1>2, <1>3, PTL DEF Spec

\* Every allocated page is answered for by an open frame or a pin, so that
\* returns and commits give back all the memory there is to give.
THEOREM NoPageLeaks == ~OlderPagesReturned => (Spec => []NothingLeaks)
<1> SUFFICES ASSUME ~OlderPagesReturned PROVE Spec => []NothingLeaks
  OBVIOUS
<1>1. Init => IInv
  BY InitIInv
<1>2. IInv /\ [Next]_vars => IInv'
  BY NextIInv
<1>3. IInv => NothingLeaks
  BY Consequences
<1> QED
  BY <1>1, <1>2, <1>3, PTL DEF Spec

\* The assertions of heap.rs (a page allocated twice, freed twice or freed when
\* it is not there) are not met by a call, a return or a commit.
THEOREM NoOtherPanic == ~OlderPagesReturned => (Spec => []OnlyRollbackPanics)
<1> SUFFICES ASSUME ~OlderPagesReturned PROVE Spec => []OnlyRollbackPanics
  OBVIOUS
<1>1. Init => IInv
  BY InitIInv
<1>2. IInv /\ [Next]_vars => IInv'
  BY NextIInv
<1>3. IInv => OnlyRollbackPanics
  BY Consequences
<1> QED
  BY <1>1, <1>2, <1>3, PTL DEF Spec

\* A rollback of the host that takes back page numbers restores the memory there
\* was at the snapshot, page for page.
THEOREM HostGetsItsPagesBack == ~OlderPagesReturned => (Spec => RollbackRestoresPages)
<1> SUFFICES ASSUME ~OlderPagesReturned PROVE Spec => RollbackRestoresPages
  OBVIOUS
<1>1. Init => IInv
  BY InitIInv
<1>2. IInv /\ [Next]_vars => IInv'
  BY NextIInv
<1>3. IInv /\ [Next]_vars
        => [snapshot # << >> /\ next' < next => dynamic' = snapshot[1].pages]_vars
  BY Restores
<1> QED
  BY <1>1, <1>2, <1>3, PTL DEF Spec, RollbackRestoresPages
================================================================================
