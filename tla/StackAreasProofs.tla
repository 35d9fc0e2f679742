--------------------------- MODULE StackAreasProofs ---------------------------
(***************************************************************************)
(* Stacks implement plain zeroed memory, for any number and size of areas  *)
(* and sub-chunks, any words written and any depth of calls.               *)
(***************************************************************************)
EXTENDS StackAreas, SequenceTheorems, WellFoundedInduction, TLAPS

-----------------------------------------------------------------------------
(* Slots, sub-chunks and areas *)

LEMMA Sizes ==
  /\ NUMBER_OF_DIRTY_AREAS \in Nat /\ NUMBER_OF_DIRTY_AREAS >= 1
  /\ SUBCHUNKS_PER_AREA \in Nat /\ SUBCHUNKS_PER_AREA >= 1
  /\ SUBCHUNK_SLOTS \in Nat /\ SUBCHUNK_SLOTS >= 1
  /\ Used \subseteq Slots /\ Words \subseteq Int \X BOOLEAN
  /\ MaxDepth \in Nat /\ MaxDepth >= 1
  BY AreaAssumption DEF AreaAssumption

LEMMA Products ==
  ASSUME NEW m \in Nat, NEW n \in Nat, NEW k \in Nat
  PROVE  /\ m * n \in Nat
         /\ m <= n => m * k <= n * k
         /\ (m * n) * k = m * (n * k)
         /\ (m + n) * k = m * k + n * k
         /\ m >= 1 /\ n >= 1 => m * n >= 1
  OBVIOUS

\* A division with remainder has one answer.
LEMMA Quotient ==
  ASSUME NEW n \in Nat, NEW d \in Nat, d >= 1
  PROVE  /\ n \div d \in Nat /\ n % d \in 0..(d - 1)
         /\ n = (n \div d) * d + (n % d)
         /\ \A q \in Nat, r \in 0..(d - 1) : n = q * d + r => n \div d = q /\ n % d = r
<1>1. /\ n \div d \in Nat /\ n % d \in 0..(d - 1)
      /\ n = (n \div d) * d + (n % d)
  OBVIOUS
<1>2. ASSUME NEW q \in Nat, NEW r \in 0..(d - 1), NEW p \in Nat, NEW s \in 0..(d - 1),
             q * d + r = p * d + s
      PROVE  ~(q < p)
  <2>1. CASE q < p
    <3>1. (q + 1) * d <= p * d
      BY <2>1, Products
    <3>2. (q + 1) * d = q * d + d
      BY Products
    <3>3. q * d \in Nat /\ p * d \in Nat
      BY Products
    <3> QED
      BY <1>2, <3>1, <3>2, <3>3
  <2> QED
    BY <2>1
<1>3. ASSUME NEW q \in Nat, NEW r \in 0..(d - 1), n = q * d + r
      PROVE  n \div d = q /\ n % d = r
  <2>1. ~(q < n \div d) /\ ~(n \div d < q)
    BY <1>1, <1>2, <1>3
  <2>2. n \div d = q
    BY <1>1, <2>1
  <2>3. q * d \in Nat
    BY Products
  <2> QED
    BY <1>1, <1>3, <2>2, <2>3
<1> QED
  BY <1>1, <1>3

LEMMA Totals ==
  /\ NUM_SUBCHUNKS \in Nat /\ NUM_SUBCHUNKS >= 1
  /\ DIRTY_AREA_SIZE \in Nat /\ DIRTY_AREA_SIZE >= 1
  /\ Slots \subseteq Nat /\ Subchunks \subseteq Nat /\ Areas \subseteq Nat
  /\ NUM_SUBCHUNKS * SUBCHUNK_SLOTS = NUMBER_OF_DIRTY_AREAS * DIRTY_AREA_SIZE
<1>1. /\ NUM_SUBCHUNKS \in Nat /\ NUM_SUBCHUNKS >= 1
      /\ DIRTY_AREA_SIZE \in Nat /\ DIRTY_AREA_SIZE >= 1
  BY Sizes, Products DEF NUM_SUBCHUNKS, DIRTY_AREA_SIZE
<1>2. NUM_SUBCHUNKS * SUBCHUNK_SLOTS = NUMBER_OF_DIRTY_AREAS * DIRTY_AREA_SIZE
  BY Sizes, Products DEF NUM_SUBCHUNKS, DIRTY_AREA_SIZE
<1> QED
  BY <1>1, <1>2 DEF Slots, Subchunks, Areas

\* Less than n rows of d are the first n rows.
LEMMA Rows ==
  ASSUME NEW x \in Nat, NEW d \in Nat, d >= 1, NEW n \in Nat
  PROVE  x < n * d <=> x \div d < n
<1> DEFINE q == x \div d
<1>1. q \in Nat /\ x % d \in 0..(d - 1) /\ x = q * d + (x % d)
  BY Quotient
<1> HIDE DEF q
<1>2. q * d \in Nat /\ n * d \in Nat /\ (q + 1) * d = q * d + d
  BY <1>1, Products
<1>3. CASE q < n
  <2>1. (q + 1) * d <= n * d
    BY <1>1, <1>3, Products
  <2> QED
    BY <1>1, <1>2, <1>3, <2>1 DEF q
<1>4. CASE ~(q < n)
  <2>1. n * d <= q * d
    BY <1>1, <1>4, Products
  <2> QED
    BY <1>1, <1>2, <1>4, <2>1 DEF q
<1> QED
  BY <1>3, <1>4

\* A slot is one of a sub-chunk, which is one of an area.
LEMMA SlotParts ==
  ASSUME NEW slot \in Slots
  PROVE  /\ slot \in Nat
         /\ slot \div SUBCHUNK_SLOTS \in Subchunks
         /\ slot % SUBCHUNK_SLOTS \in 0..(SUBCHUNK_SLOTS - 1)
         /\ slot = (slot \div SUBCHUNK_SLOTS) * SUBCHUNK_SLOTS + (slot % SUBCHUNK_SLOTS)
         /\ AreaOf(slot \div SUBCHUNK_SLOTS) = slot \div DIRTY_AREA_SIZE
         /\ slot \div DIRTY_AREA_SIZE \in Areas
<1> DEFINE sc == slot \div SUBCHUNK_SLOTS
           y == slot % SUBCHUNK_SLOTS
           area == sc \div SUBCHUNKS_PER_AREA
           x == sc % SUBCHUNKS_PER_AREA
<1>1. slot \in Nat /\ slot < NUM_SUBCHUNKS * SUBCHUNK_SLOTS
  BY Totals, Sizes, Products DEF Slots
<1>2. sc \in Nat /\ y \in 0..(SUBCHUNK_SLOTS - 1) /\ slot = sc * SUBCHUNK_SLOTS + y
  BY <1>1, Sizes, Quotient
<1>3. sc < NUM_SUBCHUNKS
  BY <1>1, Sizes, Totals, Rows
<1>4. /\ area \in Nat /\ x \in 0..(SUBCHUNKS_PER_AREA - 1)
      /\ sc = area * SUBCHUNKS_PER_AREA + x
  BY <1>2, Sizes, Quotient
<1> HIDE DEF sc, y, area, x
<1>5. slot = area * DIRTY_AREA_SIZE + (x * SUBCHUNK_SLOTS + y)
  <2>1. sc * SUBCHUNK_SLOTS
          = (area * SUBCHUNKS_PER_AREA) * SUBCHUNK_SLOTS + x * SUBCHUNK_SLOTS
    BY <1>4, Sizes, Products
  <2>2. (area * SUBCHUNKS_PER_AREA) * SUBCHUNK_SLOTS = area * DIRTY_AREA_SIZE
    BY <1>4, Sizes, Products DEF DIRTY_AREA_SIZE
  <2>3. x * SUBCHUNK_SLOTS \in Nat /\ area * DIRTY_AREA_SIZE \in Nat
    BY <1>4, Sizes, Totals, Products
  <2> QED
    BY <1>2, <2>1, <2>2, <2>3
<1>6. x * SUBCHUNK_SLOTS + y \in 0..(DIRTY_AREA_SIZE - 1)
  <2>1. (x + 1) * SUBCHUNK_SLOTS <= SUBCHUNKS_PER_AREA * SUBCHUNK_SLOTS
    BY <1>4, Sizes, Products
  <2>2. (x + 1) * SUBCHUNK_SLOTS = x * SUBCHUNK_SLOTS + SUBCHUNK_SLOTS
    BY <1>4, Sizes, Products
  <2>3. x * SUBCHUNK_SLOTS \in Nat
    BY <1>4, Sizes, Products
  <2> QED
    BY <1>2, <2>1, <2>2, <2>3, Totals, Sizes DEF DIRTY_AREA_SIZE
<1>7. slot \div DIRTY_AREA_SIZE = area
  BY <1>1, <1>4, <1>5, <1>6, Totals, Quotient
<1>8. area < NUMBER_OF_DIRTY_AREAS
  BY <1>1, <1>7, Totals, Sizes, Rows
<1> QED
  BY <1>1, <1>2, <1>3, <1>4, <1>7, <1>8, Totals, Sizes
  DEF sc, y, area, Subchunks, Areas, AreaOf

LEMMA SlotAt ==
  ASSUME NEW sc \in Subchunks, NEW i \in 0..(SUBCHUNK_SLOTS - 1)
  PROVE  /\ sc * SUBCHUNK_SLOTS + i \in Slots
         /\ (sc * SUBCHUNK_SLOTS + i) \div SUBCHUNK_SLOTS = sc
         /\ (sc * SUBCHUNK_SLOTS + i) % SUBCHUNK_SLOTS = i
<1>1. /\ sc \in Nat /\ sc + 1 <= NUM_SUBCHUNKS
      /\ sc * SUBCHUNK_SLOTS \in Nat /\ sc * SUBCHUNK_SLOTS + i \in Nat
  BY Totals, Sizes, Products DEF Subchunks
<1>2. (sc + 1) * SUBCHUNK_SLOTS <= NUM_SUBCHUNKS * SUBCHUNK_SLOTS
  BY <1>1, Totals, Sizes, Products
<1>3. (sc + 1) * SUBCHUNK_SLOTS = sc * SUBCHUNK_SLOTS + SUBCHUNK_SLOTS
  BY <1>1, Sizes, Products
<1>4. NUM_SUBCHUNKS * SUBCHUNK_SLOTS \in Nat
  BY Totals, Sizes, Products
<1>5. sc * SUBCHUNK_SLOTS + i \in Slots
  BY <1>1, <1>2, <1>3, <1>4, Sizes DEF Slots
<1> QED
  BY <1>1, <1>5, Sizes, Quotient

-----------------------------------------------------------------------------
(* What one stack holds *)

Present == {<< c >> : c \in Chunk}

Stacks ==
  [pointer_flags : SUBSET Slots, dirty_areas : SUBSET Areas,
   slots : [Subchunks -> {<< >>} \cup Present]]

GoodStack(s) == s \in Stacks /\ OnlyDirtyAreasAreUsed(s)

\* A saved stack holds whole areas, all the dirty ones among them, and nothing
\* where it is not dirty.
SavedStacks ==
  [pointer_flags : SUBSET Slots, dirty_areas : SUBSET Areas, slots : Seq(Values)]

GoodSaved(v) ==
  /\ v \in SavedStacks
  /\ \E n \in Nat : /\ Len(v.slots) = n * DIRTY_AREA_SIZE
                    /\ \A a \in v.dirty_areas : a < n
  /\ \A slot \in Slots :
       slot < Len(v.slots) /\ slot \div DIRTY_AREA_SIZE \notin v.dirty_areas =>
         v.slots[slot + 1] = 0
  /\ \A slot \in v.pointer_flags : slot \div DIRTY_AREA_SIZE \in v.dirty_areas

LEMMA ZeroValue == 0 \in Values /\ \A word \in Words : word[1] \in Values
  BY DEF Values

LEMMA ZeroChunkType ==
  ZeroChunk \in Chunk /\ \A i \in 0..(SUBCHUNK_SLOTS - 1) : ZeroChunk[i] = 0
  BY ZeroValue DEF ZeroChunk, Chunk

\* What a sub-chunk holds that is there
LEMMA PresentChunk ==
  ASSUME NEW chunk \in {<< >>} \cup Present, chunk # << >>
  PROVE  chunk[1] \in Chunk /\ chunk = << chunk[1] >>
  BY DEF Present

LEMMA SlotValueType ==
  ASSUME NEW s \in Stacks, NEW slot \in Slots
  PROVE  SlotValue(s, slot) \in Values
<1> DEFINE chunk == s.slots[slot \div SUBCHUNK_SLOTS]
<1>1. chunk \in {<< >>} \cup Present
  BY SlotParts DEF Stacks
<1>2. slot % SUBCHUNK_SLOTS \in 0..(SUBCHUNK_SLOTS - 1)
  BY SlotParts
<1> HIDE DEF chunk
<1>3. CASE chunk = << >>
  BY <1>3, ZeroValue DEF SlotValue, chunk
<1>4. CASE chunk # << >>
  <2>1. chunk[1] \in Chunk
    BY <1>1, <1>4, PresentChunk
  <2>2. chunk[1][slot % SUBCHUNK_SLOTS] \in Values
    BY <1>2, <2>1 DEF Chunk
  <2> QED
    BY <1>4, <2>2 DEF SlotValue, chunk
<1> QED
  BY <1>3, <1>4

LEMMA NewStackGood ==
  /\ GoodStack(NewStack)
  /\ Contents(NewStack) = [slot \in Slots |-> << 0, FALSE >>]
<1>1. GoodStack(NewStack)
  BY DEF GoodStack, NewStack, Stacks, OnlyDirtyAreasAreUsed
<1>2. ASSUME NEW slot \in Slots
      PROVE  SlotValue(NewStack, slot) = 0 /\ (slot \in NewStack.pointer_flags) = FALSE
  BY SlotParts DEF SlotValue, NewStack
<1> QED
  BY <1>1, <1>2 DEF Contents

\* Zeroing the dirty areas zeroes everything.
LEMMA ZeroedIsNew ==
  ASSUME NEW s, GoodStack(s)
  PROVE  Zeroed(s) = NewStack
<1>1. \A sc \in Subchunks : AreaOf(sc) \notin s.dirty_areas => s.slots[sc] = << >>
  BY DEF GoodStack, OnlyDirtyAreasAreUsed
<1>2. [sc \in Subchunks |-> IF AreaOf(sc) \in s.dirty_areas THEN << >> ELSE s.slots[sc]]
        = [sc \in Subchunks |-> << >>]
  BY <1>1
<1> QED
  <2>1. Zeroed(s) = [NewStack EXCEPT !.slots = [sc \in Subchunks |-> << >>]]
    BY <1>2, Zenon DEF Zeroed
  <2> QED
    BY <2>1 DEF NewStack

LEMMA SetGood ==
  ASSUME NEW s, GoodStack(s), NEW slot \in Slots, NEW value \in Values,
         NEW is_pointer \in BOOLEAN
  PROVE  /\ GoodStack(Set(s, slot, value, is_pointer))
         /\ Contents(Set(s, slot, value, is_pointer))
              = [Contents(s) EXCEPT ![slot] = << value, is_pointer >>]
<1> DEFINE sc == slot \div SUBCHUNK_SLOTS
           chunk == IF s.slots[sc] = << >> THEN ZeroChunk ELSE s.slots[sc][1]
           written == [chunk EXCEPT ![slot % SUBCHUNK_SLOTS] = value]
           t == Set(s, slot, value, is_pointer)
<1>1. /\ sc \in Subchunks /\ AreaOf(sc) = slot \div DIRTY_AREA_SIZE
      /\ slot \div DIRTY_AREA_SIZE \in Areas
      /\ slot % SUBCHUNK_SLOTS \in 0..(SUBCHUNK_SLOTS - 1)
  BY SlotParts
<1>2. s \in Stacks /\ OnlyDirtyAreasAreUsed(s)
  BY DEF GoodStack
<1>3. chunk \in Chunk
  <2>1. s.slots[sc] \in {<< >>} \cup Present
    BY <1>1, <1>2 DEF Stacks
  <2> HIDE DEF sc
  <2> QED
    BY <2>1, PresentChunk, ZeroChunkType
<1> HIDE DEF chunk
<1>4. written \in Chunk
  BY <1>1, <1>3 DEF Chunk
<1>5. /\ t.pointer_flags = IF is_pointer THEN s.pointer_flags \cup {slot}
                           ELSE s.pointer_flags \ {slot}
      /\ t.dirty_areas = s.dirty_areas \cup {slot \div DIRTY_AREA_SIZE}
      /\ t.slots = [s.slots EXCEPT ![sc] = << written >>]
      /\ t = [pointer_flags |-> t.pointer_flags, dirty_areas |-> t.dirty_areas,
              slots |-> t.slots]
  BY DEF Set, Dirtied, chunk
<1> HIDE DEF sc, written, t
<1>6. t \in Stacks
  <2>1. t.pointer_flags \in SUBSET Slots
    BY <1>2, <1>5 DEF Stacks
  <2>2. t.dirty_areas \in SUBSET Areas
    BY <1>1, <1>2, <1>5 DEF Stacks
  <2>3. << written >> \in Present
    BY <1>4 DEF Present
  <2>4. t.slots \in [Subchunks -> {<< >>} \cup Present]
    BY <1>2, <1>5, <2>3 DEF Stacks
  <2> QED
    BY <1>5, <2>1, <2>2, <2>4 DEF Stacks
<1>7. OnlyDirtyAreasAreUsed(t)
  <2>1. ASSUME NEW other \in Subchunks, t.slots[other] # << >>
        PROVE  AreaOf(other) \in t.dirty_areas
    BY <1>1, <1>2, <1>5, <2>1 DEF OnlyDirtyAreasAreUsed, Stacks
  <2>2. ASSUME NEW other \in t.pointer_flags
        PROVE  other \div DIRTY_AREA_SIZE \in t.dirty_areas
    BY <1>2, <1>5, <2>2 DEF OnlyDirtyAreasAreUsed
  <2> QED
    BY <2>1, <2>2 DEF OnlyDirtyAreasAreUsed
<1>8. ASSUME NEW other \in Slots
      PROVE  SlotValue(t, other) = IF other = slot THEN value ELSE SlotValue(s, other)
  <2> DEFINE oc == other \div SUBCHUNK_SLOTS
             oi == other % SUBCHUNK_SLOTS
  <2>1. /\ oc \in Subchunks /\ oi \in 0..(SUBCHUNK_SLOTS - 1)
        /\ other = oc * SUBCHUNK_SLOTS + oi
        /\ slot = sc * SUBCHUNK_SLOTS + (slot % SUBCHUNK_SLOTS)
    BY SlotParts DEF sc
  <2>2. SlotValue(t, other) = IF t.slots[oc] = << >> THEN 0 ELSE t.slots[oc][1][oi]
    BY DEF SlotValue
  <2>3. SlotValue(s, other) = IF s.slots[oc] = << >> THEN 0 ELSE s.slots[oc][1][oi]
    BY DEF SlotValue
  <2> HIDE DEF oc, oi
  <2>4. CASE oc # sc
    <3>1. t.slots[oc] = s.slots[oc]
      BY <1>2, <1>5, <2>1, <2>4 DEF Stacks
    <3>2. other # slot
      BY <2>4 DEF oc, sc
    <3> QED
      BY <2>2, <2>3, <3>1, <3>2
  <2>5. CASE oc = sc
    <3>1. t.slots[oc] = << written >>
      BY <1>2, <1>5, <2>1, <2>5 DEF Stacks
    <3>2. SlotValue(t, other) = written[oi]
      BY <2>2, <3>1
    <3>3. SlotValue(s, other) = chunk[oi]
      BY <2>1, <2>3, <2>5, ZeroChunkType DEF chunk
    <3>4. other = slot <=> oi = slot % SUBCHUNK_SLOTS
      BY <2>1, <2>5 DEF oi
    <3>5. written[oi] = IF oi = slot % SUBCHUNK_SLOTS THEN value ELSE chunk[oi]
      BY <1>3, <2>1 DEF written, Chunk
    <3> QED
      BY <3>2, <3>3, <3>4, <3>5
  <2> QED
    BY <2>4, <2>5
<1>9. ASSUME NEW other \in Slots
      PROVE  (other \in t.pointer_flags)
               = IF other = slot THEN is_pointer ELSE other \in s.pointer_flags
  BY <1>5
<1>10. Contents(t) = [Contents(s) EXCEPT ![slot] = << value, is_pointer >>]
  BY <1>8, <1>9 DEF Contents
<1> QED
  BY <1>6, <1>7, <1>10 DEF GoodStack, t

-----------------------------------------------------------------------------
(* Saving and restoring a stack *)

LEMMA LargestIsMax ==
  ASSUME NEW n \in Nat, NEW S, S \subseteq 0..n, S # {}
  PROVE  Max(S) \in S /\ \A j \in S : Max(S) >= j
<1> DEFINE T == {n - j : j \in S}
<1>1. T \subseteq Nat /\ T # {}
  <2>1. ASSUME NEW j \in S
        PROVE  n - j \in Nat
    OBVIOUS
  <2>2. PICK j \in S : TRUE
    OBVIOUS
  <2>3. n - j \in T
    BY <2>2
  <2> QED
    BY <2>1, <2>3
<1>2. PICK least \in T : \A j \in T : ~ (<< j, least >> \in OpToRel(<, Nat))
  <2> HIDE DEF T
  <2> QED
    BY <1>1, NatLessThanWellFounded, WFMin
<1>3. PICK i \in S : least = n - i
  BY <1>2
<1>4. ASSUME NEW j \in S
      PROVE  i >= j
  <2>1. n - j \in T /\ n - j \in Nat /\ n - i \in Nat
    BY <1>3
  <2>2. n - j < n - i => << n - j, n - i >> \in OpToRel(<, Nat)
    BY <2>1, Zenon DEF OpToRel
  <2>3. ~ (n - j < n - i)
    BY <1>2, <1>3, <2>1, <2>2
  <2> QED
    BY <2>3
<1> QED
  BY <1>3, <1>4 DEF Max

LEMMA SavedAreasBound ==
  ASSUME NEW s, GoodStack(s)
  PROVE  /\ SavedAreas(s) \in 0..NUMBER_OF_DIRTY_AREAS
         /\ \A a \in s.dirty_areas : a < SavedAreas(s)
<1> DEFINE S == {a + 1 : a \in s.dirty_areas} \cup {0}
<1>1. s.dirty_areas \subseteq 0..(NUMBER_OF_DIRTY_AREAS - 1)
  BY DEF GoodStack, Stacks, Areas
<1>2. S \subseteq 0..NUMBER_OF_DIRTY_AREAS /\ S # {}
  BY <1>1, Sizes
<1>3. \A a \in s.dirty_areas : a + 1 \in S
  OBVIOUS
<1>4. SavedAreas(s) = Max(S)
  BY DEF SavedAreas
<1> HIDE DEF S
<1>5. Max(S) \in S /\ \A j \in S : Max(S) >= j
  BY <1>2, Sizes, LargestIsMax
<1> DEFINE m == Max(S)
<1> HIDE DEF m
<1>6. m \in 0..NUMBER_OF_DIRTY_AREAS
  BY <1>2, <1>5 DEF m
<1>7. ASSUME NEW a \in s.dirty_areas
      PROVE  a < m
  <2>1. a \in Nat /\ m >= a + 1
    BY <1>1, <1>3, <1>5, Sizes DEF m
  <2> QED
    BY <1>6, <2>1, Sizes
<1> QED
  BY <1>4, <1>6, <1>7 DEF m

LEMMA SnapshotGood ==
  ASSUME NEW s, GoodStack(s)
  PROVE  /\ GoodSaved(SnapshotOf(s))
         /\ SavedContents(SnapshotOf(s)) = Contents(s)
<1> DEFINE n == SavedAreas(s)
           v == SnapshotOf(s)
           length == n * DIRTY_AREA_SIZE
<1>1. /\ n \in Nat /\ n <= NUMBER_OF_DIRTY_AREAS /\ \A a \in s.dirty_areas : a < n
  BY SavedAreasBound, Sizes
<1> HIDE DEF n
<1>2. length \in Nat /\ length <= NUM_SUBCHUNKS * SUBCHUNK_SLOTS
  BY <1>1, Totals, Sizes, Products
<1> HIDE DEF length
<1>3. /\ v.pointer_flags = s.pointer_flags /\ v.dirty_areas = s.dirty_areas
      /\ v.slots = [i \in 1..length |-> SlotValue(s, i - 1)]
      /\ v = [pointer_flags |-> v.pointer_flags, dirty_areas |-> v.dirty_areas,
              slots |-> v.slots]
  BY DEF SnapshotOf, length, n
<1> HIDE DEF v
<1>4. s \in Stacks /\ OnlyDirtyAreasAreUsed(s)
  BY DEF GoodStack
<1>5. v.slots \in Seq(Values) /\ Len(v.slots) = length
  <2>1. ASSUME NEW i \in 1..length
        PROVE  SlotValue(s, i - 1) \in Values
    <3>1. NUM_SUBCHUNKS * SUBCHUNK_SLOTS \in Nat
      BY Totals, Sizes, Products
    <3>2. i - 1 \in Slots
      BY <1>2, <3>1 DEF Slots
    <3> QED
      BY <1>4, <3>2, SlotValueType
  <2> QED
    BY <1>2, <1>3, <2>1
<1>6. v \in SavedStacks
  BY <1>3, <1>4, <1>5 DEF Stacks, SavedStacks
<1>7. ASSUME NEW slot \in Slots, slot \div DIRTY_AREA_SIZE \notin s.dirty_areas
      PROVE  SlotValue(s, slot) = 0
  <2>1. s.slots[slot \div SUBCHUNK_SLOTS] = << >>
    BY <1>4, <1>7, SlotParts DEF OnlyDirtyAreasAreUsed
  <2> QED
    BY <2>1 DEF SlotValue
<1>8. ASSUME NEW slot \in Slots
      PROVE  /\ slot \in Nat
             /\ slot < length => v.slots[slot + 1] = SlotValue(s, slot)
             /\ ~(slot < length) => SlotValue(s, slot) = 0
  <2>1. slot \in Nat /\ (slot < length <=> slot \div DIRTY_AREA_SIZE < n)
    BY <1>1, SlotParts, Totals, Rows DEF length
  <2>2. slot < length => v.slots[slot + 1] = SlotValue(s, slot)
    BY <1>2, <1>3, <2>1
  <2>3. ~(slot < length) => SlotValue(s, slot) = 0
    BY <1>1, <1>7, <2>1
  <2> QED
    BY <2>1, <2>2, <2>3
<1>9. GoodSaved(v)
  <2>1. \E m \in Nat : /\ Len(v.slots) = m * DIRTY_AREA_SIZE
                       /\ \A a \in v.dirty_areas : a < m
    BY <1>1, <1>3, <1>5 DEF length
  <2>2. ASSUME NEW slot \in Slots, slot < Len(v.slots),
               slot \div DIRTY_AREA_SIZE \notin v.dirty_areas
        PROVE  v.slots[slot + 1] = 0
    BY <1>3, <1>5, <1>7, <1>8, <2>2
  <2>3. \A slot \in v.pointer_flags : slot \div DIRTY_AREA_SIZE \in v.dirty_areas
    BY <1>3, <1>4 DEF OnlyDirtyAreasAreUsed
  <2> QED
    BY <1>6, <2>1, <2>2, <2>3 DEF GoodSaved
<1>10. ASSUME NEW slot \in Slots
       PROVE  (IF slot < Len(v.slots) THEN v.slots[slot + 1] ELSE 0) = SlotValue(s, slot)
  BY <1>5, <1>8
<1>11. SavedContents(v) = Contents(s)
  BY <1>3, <1>10 DEF SavedContents, Contents
<1> QED
  BY <1>9, <1>11 DEF v

LEMMA RestoredGood ==
  ASSUME NEW s, GoodStack(s), NEW v, GoodSaved(v)
  PROVE  /\ GoodStack(Restored(s, v))
         /\ Contents(Restored(s, v)) = SavedContents(v)
<1> DEFINE t == Restored(s, v)
           chunk(sc) == [i \in 0..(SUBCHUNK_SLOTS - 1) |->
                           v.slots[sc * SUBCHUNK_SLOTS + i + 1]]
<1>1. /\ t.pointer_flags = v.pointer_flags /\ t.dirty_areas = v.dirty_areas
      /\ t.slots = [sc \in Subchunks |->
                      IF AreaOf(sc) \in v.dirty_areas THEN << chunk(sc) >> ELSE << >>]
      /\ t = [pointer_flags |-> t.pointer_flags, dirty_areas |-> t.dirty_areas,
              slots |-> t.slots]
  <2>1. Base(s) = NewStack
    BY ZeroedIsNew DEF Base
  <2>2. \A sc \in Subchunks : Base(s).slots[sc] = << >>
    BY <2>1 DEF NewStack
  <2> QED
    BY <2>2 DEF Restored
<1> HIDE DEF t
<1>2. /\ v \in SavedStacks
      /\ \A slot \in v.pointer_flags : slot \div DIRTY_AREA_SIZE \in v.dirty_areas
  BY DEF GoodSaved
<1>3. PICK n \in Nat : /\ Len(v.slots) = n * DIRTY_AREA_SIZE
                       /\ \A a \in v.dirty_areas : a < n
  BY DEF GoodSaved
<1>4. ASSUME NEW slot \in Slots, slot \div DIRTY_AREA_SIZE \in v.dirty_areas
      PROVE  slot \in Nat /\ slot < Len(v.slots) /\ v.slots[slot + 1] \in Values
  <2>1. slot \in Nat /\ slot < Len(v.slots)
    BY <1>3, <1>4, SlotParts, Totals, Rows
  <2>2. v.slots \in Seq(Values)
    BY <1>2 DEF SavedStacks
  <2> QED
    BY <2>1, <2>2
<1>5. ASSUME NEW sc \in Subchunks, AreaOf(sc) \in v.dirty_areas
      PROVE  chunk(sc) \in Chunk
  <2>1. ASSUME NEW i \in 0..(SUBCHUNK_SLOTS - 1)
        PROVE  v.slots[sc * SUBCHUNK_SLOTS + i + 1] \in Values
    <3>1. /\ sc * SUBCHUNK_SLOTS + i \in Slots
          /\ (sc * SUBCHUNK_SLOTS + i) \div DIRTY_AREA_SIZE \in v.dirty_areas
      BY <1>5, SlotAt, SlotParts
    <3> QED
      BY <1>4, <3>1
  <2> QED
    BY <2>1 DEF Chunk
<1>6. t \in Stacks
  <2>1. t.slots \in [Subchunks -> {<< >>} \cup Present]
    BY <1>1, <1>5, Zenon DEF Present
  <2>2. t.pointer_flags \in SUBSET Slots /\ t.dirty_areas \in SUBSET Areas
    BY <1>1, <1>2 DEF SavedStacks
  <2> QED
    BY <1>1, <2>1, <2>2 DEF Stacks
<1>7. OnlyDirtyAreasAreUsed(t)
  BY <1>1, <1>2 DEF OnlyDirtyAreasAreUsed
<1>8. ASSUME NEW slot \in Slots
      PROVE  SlotValue(t, slot)
               = IF slot < Len(v.slots) THEN v.slots[slot + 1] ELSE 0
  <2> DEFINE sc == slot \div SUBCHUNK_SLOTS
             i == slot % SUBCHUNK_SLOTS
  <2>1. /\ sc \in Subchunks /\ i \in 0..(SUBCHUNK_SLOTS - 1)
        /\ slot = sc * SUBCHUNK_SLOTS + i
        /\ AreaOf(sc) = slot \div DIRTY_AREA_SIZE
    BY SlotParts
  <2>2. SlotValue(t, slot) = IF t.slots[sc] = << >> THEN 0 ELSE t.slots[sc][1][i]
    BY DEF SlotValue
  <2> HIDE DEF sc, i
  <2>3. CASE AreaOf(sc) \in v.dirty_areas
    <3>1. t.slots[sc] = << chunk(sc) >>
      BY <1>1, <2>1, <2>3
    <3>2. chunk(sc)[i] = v.slots[slot + 1]
      BY <2>1
    <3>3. slot < Len(v.slots)
      BY <1>4, <2>1, <2>3
    <3> HIDE DEF chunk
    <3> QED
      BY <2>2, <3>1, <3>2, <3>3
  <2>4. CASE AreaOf(sc) \notin v.dirty_areas
    <3>1. t.slots[sc] = << >>
      BY <1>1, <2>1, <2>4
    <3>2. slot < Len(v.slots) => v.slots[slot + 1] = 0
      BY <2>1, <2>4 DEF GoodSaved
    <3> QED
      BY <2>2, <3>1, <3>2
  <2> QED
    BY <2>3, <2>4
<1>9. Contents(t) = SavedContents(v)
  BY <1>1, <1>8 DEF Contents, SavedContents
<1> QED
  BY <1>6, <1>7, <1>9 DEF GoodStack, t

-----------------------------------------------------------------------------
(* The inductive invariant *)

GoodStacks == {s \in Stacks : OnlyDirtyAreasAreUsed(s)}
GoodSavedStacks == {v \in SavedStacks : GoodSaved(v)}

\* Stacks in use and stacks in the pool are good, and so is what was saved.
IInv ==
  /\ stacks \in Seq(GoodStacks) /\ Len(stacks) \in 1..MaxDepth
  /\ pool \in Seq(GoodStacks)
  /\ snapshot \in {<< >>} \cup {<< v >> : v \in GoodSavedStacks}

LEMMA GoodStackIn == \A s : s \in GoodStacks <=> GoodStack(s)
  BY DEF GoodStacks, GoodStack

LEMMA IInvStacks ==
  ASSUME IInv
  PROVE  /\ \A d \in DOMAIN stacks : GoodStack(stacks[d])
         /\ \A i \in DOMAIN pool : GoodStack(pool[i])
         /\ DOMAIN stacks = 1..Len(stacks)
         /\ Len(stacks) \in Nat /\ Len(stacks) >= 1
         /\ snapshot # << >> => snapshot = << snapshot[1] >> /\ GoodSaved(snapshot[1])
<1>1. \A d \in DOMAIN stacks : GoodStack(stacks[d])
  BY GoodStackIn DEF IInv
<1>2. \A i \in DOMAIN pool : GoodStack(pool[i])
  BY GoodStackIn DEF IInv
<1>3. Len(stacks) \in Nat /\ Len(stacks) >= 1 /\ DOMAIN stacks = 1..Len(stacks)
  BY Sizes DEF IInv
<1>4. ASSUME snapshot # << >>
      PROVE  snapshot = << snapshot[1] >> /\ GoodSaved(snapshot[1])
  BY <1>4 DEF IInv, GoodSavedStacks
<1> QED
  BY <1>1, <1>2, <1>3, <1>4

\* The last of a sequence taken off
LEMMA FrontGood ==
  ASSUME NEW seq \in Seq(GoodStacks), Len(seq) >= 1
  PROVE  /\ Front(seq) \in Seq(GoodStacks) /\ Len(Front(seq)) = Len(seq) - 1
         /\ \A i \in 1..(Len(seq) - 1) : Front(seq)[i] = seq[i]
         /\ Last(seq) \in GoodStacks /\ Last(seq) = seq[Len(seq)]
<1> DEFINE n == Len(seq) - 1
<1>1. n \in Nat /\ n <= Len(seq)
  OBVIOUS
<1>2. /\ SubSeq(seq, 1, n) \in Seq(GoodStacks) /\ Len(SubSeq(seq, 1, n)) = n
      /\ \A i \in 1..n : SubSeq(seq, 1, n)[i] = seq[i]
  <2> HIDE DEF n
  <2>1. \A i \in 1..n : seq[i] \in GoodStacks
    BY <1>1
  <2>2. SubSeq(seq, 1, n) = [i \in 1..n |-> seq[i]]
    BY <1>1
  <2> QED
    BY <1>1, <2>1, <2>2
<1>3. seq[Len(seq)] \in GoodStacks
  OBVIOUS
<1> QED
  BY <1>2, <1>3, Zenon DEF Front, Last

LEMMA InitIInv == Init => IInv
<1> SUFFICES ASSUME Init PROVE IInv
  OBVIOUS
<1>1. NewStack \in GoodStacks
  BY NewStackGood, GoodStackIn
<1>2. stacks \in Seq(GoodStacks) /\ Len(stacks) = 1
  BY <1>1 DEF Init
<1>3. pool \in Seq(GoodStacks)
  BY DEF Init
<1> QED
  BY <1>2, <1>3, Sizes DEF Init, IInv

LEMMA WriteStackIInv ==
  ASSUME IInv, NEW slot \in Used, NEW word \in Words, WriteStack(slot, word[1], word[2])
  PROVE  IInv'
<1> DEFINE n == Len(stacks)
           t == Set(stacks[n], slot, word[1], word[2])
<1>1. n \in DOMAIN stacks /\ GoodStack(stacks[n])
  BY IInvStacks
<1>2. slot \in Slots /\ word[1] \in Values /\ word[2] \in BOOLEAN
  BY Sizes, ZeroValue
<1>3. t \in GoodStacks
  BY <1>1, <1>2, SetGood, GoodStackIn
<1>4. stacks' = [stacks EXCEPT ![n] = t]
  BY DEF WriteStack
<1> HIDE DEF t
<1>5. stacks' \in Seq(GoodStacks) /\ Len(stacks') = Len(stacks)
  BY <1>1, <1>3, <1>4 DEF IInv
<1> QED
  BY <1>5 DEF WriteStack, IInv

LEMMA PushFrameIInv ==
  ASSUME IInv, PushFrame
  PROVE  IInv'
<1>1. NewStack \in GoodStacks
  BY NewStackGood, GoodStackIn
<1>2. CASE pool = << >>
  <2>1. stacks' = Append(stacks, NewStack) /\ pool' = pool
    BY <1>2 DEF PushFrame
  <2>2. stacks' \in Seq(GoodStacks) /\ Len(stacks') = Len(stacks) + 1
    BY <1>1, <2>1 DEF IInv
  <2> QED
    BY <2>1, <2>2, Sizes DEF IInv, PushFrame
<1>3. CASE pool # << >>
  <2>1. stacks' = Append(stacks, Zeroed(Last(pool))) /\ pool' = Front(pool)
    BY <1>3 DEF PushFrame
  <2>2. Len(pool) >= 1
    BY <1>3 DEF IInv
  <2>3. Front(pool) \in Seq(GoodStacks) /\ GoodStack(Last(pool))
    BY <2>2, FrontGood, GoodStackIn DEF IInv
  <2>4. Zeroed(Last(pool)) = NewStack
    BY <2>3, ZeroedIsNew
  <2>5. stacks' \in Seq(GoodStacks) /\ Len(stacks') = Len(stacks) + 1
    BY <1>1, <2>1, <2>4 DEF IInv
  <2> QED
    BY <2>1, <2>3, <2>5, Sizes DEF IInv, PushFrame
<1> QED
  BY <1>2, <1>3

LEMMA PopFrameIInv ==
  ASSUME IInv, PopFrame
  PROVE  IInv'
<1>1. /\ Front(stacks) \in Seq(GoodStacks) /\ Len(Front(stacks)) = Len(stacks) - 1
      /\ Last(stacks) \in GoodStacks
  BY FrontGood, Sizes DEF IInv, PopFrame
<1>2. pool' \in Seq(GoodStacks)
  BY <1>1 DEF IInv, PopFrame
<1> QED
  BY <1>1, <1>2, Sizes DEF IInv, PopFrame

LEMMA HostIInv ==
  ASSUME IInv, MakeSnapshot \/ HostRollback \/ PopSnapshot
  PROVE  IInv'
<1>1. CASE MakeSnapshot
  <2>1. GoodStack(stacks[1])
    BY IInvStacks
  <2>2. SnapshotOf(stacks[1]) \in GoodSavedStacks
    BY <2>1, SnapshotGood DEF GoodSavedStacks, GoodSaved
  <2> QED
    BY <1>1, <2>2 DEF MakeSnapshot, IInv
<1>2. CASE HostRollback
  <2>1. GoodStack(stacks[1]) /\ GoodSaved(snapshot[1])
    BY <1>2, IInvStacks DEF HostRollback
  <2>2. Restored(stacks[1], snapshot[1]) \in GoodStacks
    BY <2>1, RestoredGood, GoodStackIn
  <2>3. stacks' \in Seq(GoodStacks) /\ Len(stacks') = 1
    BY <1>2, <2>2 DEF HostRollback
  <2> QED
    BY <1>2, <2>3, Sizes DEF HostRollback, IInv
<1>3. CASE PopSnapshot
  BY <1>3 DEF PopSnapshot, IInv
<1> QED
  BY <1>1, <1>2, <1>3

LEMMA NextIInv == IInv /\ [Next]_vars => IInv'
<1> SUFFICES ASSUME IInv, [Next]_vars PROVE IInv'
  OBVIOUS
<1>1. ASSUME NEW slot \in Used, NEW word \in Words, WriteStack(slot, word[1], word[2])
      PROVE  IInv'
  BY <1>1, WriteStackIInv
<1>2. CASE PushFrame
  BY <1>2, PushFrameIInv
<1>3. CASE PopFrame
  BY <1>3, PopFrameIInv
<1>4. CASE MakeSnapshot \/ HostRollback \/ PopSnapshot
  BY <1>4, HostIInv
<1>5. CASE UNCHANGED vars
  BY <1>5 DEF vars, state, IInv
<1> QED
  BY <1>1, <1>2, <1>3, <1>4, <1>5 DEF Next

LEMMA IInvTypeOK == IInv => TypeOK
<1> SUFFICES ASSUME IInv PROVE TypeOK
  OBVIOUS
<1>1. ASSUME NEW s, GoodStack(s)
      PROVE  IsStack(s)
  <2>1. s \in Stacks /\ OnlyDirtyAreasAreUsed(s)
    BY <1>1 DEF GoodStack
  <2>2. ASSUME NEW sc \in Subchunks
        PROVE  s.slots[sc] = << >> \/ s.slots[sc][1] \in Chunk
    BY <2>1, PresentChunk DEF Stacks
  <2> QED
    BY <2>1, <2>2 DEF IsStack, Stacks
<1>2. ASSUME snapshot # << >>, NEW a \in snapshot[1].dirty_areas
      PROVE  (a + 1) * DIRTY_AREA_SIZE <= Len(snapshot[1].slots)
  <2>1. GoodSaved(snapshot[1])
    BY <1>2, IInvStacks
  <2>2. PICK n \in Nat : /\ Len(snapshot[1].slots) = n * DIRTY_AREA_SIZE
                         /\ \A b \in snapshot[1].dirty_areas : b < n
    BY <2>1 DEF GoodSaved
  <2>3. a \in Nat
    BY <1>2, <2>1, Totals DEF GoodSaved, SavedStacks
  <2>4. a + 1 <= n
    BY <1>2, <2>2, <2>3
  <2> QED
    BY <2>2, <2>3, <2>4, Totals, Products
<1> QED
  BY <1>1, <1>2, IInvStacks DEF TypeOK, IInv

\* Stacks stay well-formed whatever programs write, frames come and go and the
\* host saves and restores: only dirty areas hold words or pointers, which
\* StackPool::get relies on, and rollback never reads past what was saved.
THEOREM TypeCorrect == Spec => []TypeOK
<1>1. Spec => []IInv
  BY InitIInv, NextIInv, PTL DEF Spec
<1> QED
  BY <1>1, IInvTypeOK, PTL

-----------------------------------------------------------------------------
(* Every step is one of zeroed memory. *)

\* What zeroed memory sees of the stacks
memory == [d \in DOMAIN stacks |-> Contents(stacks[d])]
saved == IF snapshot = << >> THEN << >> ELSE << SavedContents(snapshot[1]) >>

LEMMA DenseOperations ==
  /\ Dense!Zeros = [slot \in Slots |-> << 0, FALSE >>]
  /\ Dense!Save <=> saved' = << memory[1] >> /\ memory' = memory
  /\ Dense!Restore <=>
       memory' = [memory EXCEPT ![1] = saved[1]] /\ saved' = << >>
  /\ Dense!Commit <=> saved' = << >> /\ memory' = memory
  BY DEF Dense!Zeros, Dense!Save, Dense!Restore, Dense!Commit, memory, saved

LEMMA InitRefines == Init => Dense!Init
<1> SUFFICES ASSUME Init PROVE Dense!Init
  OBVIOUS
<1>1. DOMAIN stacks = {1} /\ stacks[1] = NewStack
  BY DEF Init
<1>2. memory = [r \in {1} |-> Dense!Zeros]
  BY <1>1, NewStackGood DEF memory, Dense!Zeros
<1> QED
  BY <1>2 DEF Init, Dense!Init, memory

LEMMA DenseStep ==
  /\ request'.op = "obtain" /\ Dense!Obtain(request'.region) => Dense!Next
  /\ request'.op = "release" /\ Dense!Release(request'.region) => Dense!Next
  /\ request'.op = "write"
       /\ Dense!Write(request'.region, request'.start, request'.bytes) => Dense!Next
  /\ request'.op = "save" /\ Dense!Save => Dense!Next
  /\ request'.op = "restore" /\ Dense!Restore => Dense!Next
  /\ request'.op = "commit" /\ Dense!Commit => Dense!Next
  BY DEF Dense!Next

LEMMA WriteStackRefines ==
  ASSUME IInv, NEW slot \in Used, NEW word \in Words, WriteStack(slot, word[1], word[2])
  PROVE  Dense!Next
<1> DEFINE n == Len(stacks)
           t == Set(stacks[n], slot, word[1], word[2])
           bytes == << << word[1], word[2] >> >>
<1>1. /\ n \in DOMAIN stacks /\ GoodStack(stacks[n])
      /\ slot \in Slots /\ slot \in Nat /\ word[1] \in Values /\ word[2] \in BOOLEAN
  BY IInvStacks, Sizes, ZeroValue, Totals
<1>2. Contents(t) = [Contents(stacks[n]) EXCEPT ![slot] = << word[1], word[2] >>]
  BY <1>1, SetGood
<1>3. stacks' = [stacks EXCEPT ![n] = t] /\ saved' = saved
  BY DEF WriteStack, saved
<1> HIDE DEF t
<1>4. memory' = [memory EXCEPT ![n] = Contents(t)]
  BY <1>1, <1>3 DEF memory
<1>5. Contents(t) = [a \in Slots |-> IF a \in slot..(slot + Len(bytes) - 1)
                                     THEN bytes[a - slot + 1] ELSE memory[n][a]]
  <2>1. memory[n] = Contents(stacks[n])
    BY <1>1 DEF memory
  <2>2. Len(bytes) = 1 /\ bytes[1] = << word[1], word[2] >>
    OBVIOUS
  <2> HIDE DEF bytes
  <2>3. ASSUME NEW a \in Slots
        PROVE  (IF a \in slot..(slot + Len(bytes) - 1) THEN bytes[a - slot + 1]
                ELSE Contents(stacks[n])[a])
                 = [Contents(stacks[n]) EXCEPT ![slot] = << word[1], word[2] >>][a]
    <3>1. a \in Nat /\ (a \in slot..(slot + Len(bytes) - 1) <=> a = slot)
      BY <1>1, <2>2, Totals
    <3>2. a = slot => bytes[a - slot + 1] = << word[1], word[2] >>
      BY <1>1, <2>2
    <3>3. DOMAIN Contents(stacks[n]) = Slots
      BY DEF Contents
    <3> QED
      BY <3>1, <3>2, <3>3, Zenon
  <2>4. DOMAIN Contents(stacks[n]) = Slots
    BY DEF Contents
  <2>5. Contents(t) = [a \in Slots |->
          [Contents(stacks[n]) EXCEPT ![slot] = << word[1], word[2] >>][a]]
    BY <1>2, <2>4, Zenon
  <2> QED
    BY <2>1, <2>3, <2>5
<1>6. /\ request'.op = "write" /\ request'.region = n /\ request'.start = slot
      /\ request'.bytes = bytes
  BY DEF WriteStack
<1> HIDE DEF bytes
<1>7. Dense!Write(n, slot, bytes)
  <2>1. memory' = [memory EXCEPT ![n] =
          [a \in Slots |-> IF a \in slot..(slot + Len(bytes) - 1)
                           THEN bytes[a - slot + 1] ELSE memory[n][a]]]
    BY <1>4, <1>5, Zenon
  <2> QED
    BY <1>3, <2>1 DEF Dense!Write, memory, saved
<1> QED
  BY <1>6, <1>7, DenseStep

LEMMA PushFrameRefines ==
  ASSUME IInv, PushFrame
  PROVE  Dense!Next
<1> DEFINE r == Len(stacks) + 1
<1>1. stacks' = Append(stacks, NewStack)
  <2>1. CASE pool = << >>
    BY <2>1 DEF PushFrame
  <2>2. CASE pool # << >>
    <3>1. Len(pool) >= 1
      BY <2>2 DEF IInv
    <3>2. GoodStack(Last(pool))
      BY <3>1, FrontGood, GoodStackIn DEF IInv
    <3>3. Zeroed(Last(pool)) = NewStack
      BY <3>2, ZeroedIsNew
    <3> QED
      BY <2>2, <3>3 DEF PushFrame
  <2> QED
    BY <2>1, <2>2
<1>2. /\ DOMAIN stacks = 1..Len(stacks) /\ Len(stacks) \in Nat
      /\ DOMAIN memory = 1..Len(stacks)
  BY IInvStacks DEF memory
<1>3. /\ DOMAIN stacks' = DOMAIN stacks \cup {r} /\ stacks'[r] = NewStack
      /\ \A q \in DOMAIN stacks : stacks'[q] = stacks[q] /\ q # r
      /\ r \notin DOMAIN stacks
  BY <1>1, <1>2 DEF IInv
<1> HIDE DEF r
<1>4. memory' = [q \in DOMAIN memory \cup {r} |->
                   IF q = r THEN Dense!Zeros ELSE memory[q]]
  <2>1. \A q \in DOMAIN stacks' :
          Contents(stacks'[q]) = IF q = r THEN Dense!Zeros ELSE memory[q]
    BY <1>3, NewStackGood, DenseOperations DEF memory
  <2>2. memory' = [q \in DOMAIN stacks' |-> Contents(stacks'[q])]
    BY DEF memory, Contents, SlotValue
  <2> QED
    BY <1>2, <1>3, <2>1, <2>2
<1>5. saved' = saved
  BY DEF PushFrame, saved
<1>6. request'.op = "obtain" /\ request'.region = r
  BY DEF PushFrame, r
<1>7. Dense!Obtain(r)
  <2>1. r \notin DOMAIN memory
    BY <1>2, <1>3
  <2> QED
    BY <1>4, <1>5, <2>1 DEF Dense!Obtain, memory, saved
<1> QED
  BY <1>6, <1>7, DenseStep

LEMMA PopFrameRefines ==
  ASSUME IInv, PopFrame
  PROVE  Dense!Next
<1> DEFINE r == Len(stacks)
<1>1. stacks' = Front(stacks) /\ r > 1
  BY DEF PopFrame
<1>2. /\ DOMAIN stacks = 1..r /\ r \in Nat /\ DOMAIN memory = 1..r
  BY IInvStacks DEF memory
<1>3. /\ DOMAIN stacks' = DOMAIN stacks \ {r}
      /\ \A q \in DOMAIN stacks' : stacks'[q] = stacks[q]
  <2>1. /\ stacks' \in Seq(GoodStacks) /\ Len(stacks') = r - 1
        /\ \A i \in 1..(r - 1) : stacks'[i] = stacks[i]
    <3>1. stacks \in Seq(GoodStacks) /\ Len(stacks) >= 1
      BY <1>1, <1>2 DEF IInv
    <3> QED
      BY <1>1, <3>1, FrontGood
  <2>2. DOMAIN stacks' = 1..(r - 1)
    BY <2>1
  <2> QED
    BY <1>2, <2>1, <2>2
<1> HIDE DEF r
<1>4. memory' = [q \in DOMAIN memory \ {r} |-> memory[q]]
  <2>1. \A q \in DOMAIN stacks' : Contents(stacks'[q]) = memory[q]
    BY <1>3 DEF memory
  <2>2. memory' = [q \in DOMAIN stacks' |-> Contents(stacks'[q])]
    BY DEF memory, Contents, SlotValue
  <2> QED
    BY <1>2, <1>3, <2>1, <2>2
<1>5. saved' = saved
  BY DEF PopFrame, saved
<1>6. request'.op = "release" /\ request'.region = r
  BY DEF PopFrame, r
<1>7. Dense!Release(r)
  <2>1. r \in DOMAIN memory \ {1}
    BY <1>1, <1>2 DEF r
  <2> QED
    BY <1>4, <1>5, <2>1 DEF Dense!Release, memory, saved
<1> QED
  BY <1>6, <1>7, DenseStep

LEMMA HostRefines ==
  ASSUME IInv, MakeSnapshot \/ HostRollback \/ PopSnapshot
  PROVE  Dense!Next
<1>1. GoodStack(stacks[1]) /\ 1 \in DOMAIN stacks
  BY IInvStacks
<1>2. memory[1] = Contents(stacks[1]) /\ DOMAIN memory = DOMAIN stacks
  BY <1>1 DEF memory
<1>3. CASE MakeSnapshot
  <2>1. memory' = memory
    BY <1>3 DEF MakeSnapshot, memory
  <2>2. saved' = << memory[1] >>
    <3>1. snapshot' = << SnapshotOf(stacks[1]) >>
      BY <1>3 DEF MakeSnapshot
    <3>2. saved' = << SavedContents(SnapshotOf(stacks[1])) >>
      BY <3>1 DEF saved, SavedContents
    <3> QED
      BY <1>1, <1>2, <3>2, SnapshotGood
  <2>3. request'.op = "save"
    BY <1>3 DEF MakeSnapshot
  <2> QED
    BY <2>1, <2>2, <2>3, DenseOperations, DenseStep
<1>4. CASE HostRollback
  <2>1. snapshot # << >> /\ Len(stacks) = 1 /\ GoodSaved(snapshot[1])
    BY <1>4, IInvStacks DEF HostRollback
  <2>2. DOMAIN stacks = {1}
    BY <2>1, IInvStacks
  <2> DEFINE t == Restored(stacks[1], snapshot[1])
  <2>3. Contents(t) = SavedContents(snapshot[1])
    BY <1>1, <2>1, RestoredGood
  <2>4. stacks' = << t >> /\ snapshot' = << >>
    BY <1>4 DEF HostRollback
  <2> HIDE DEF t
  <2>5. DOMAIN stacks' = {1} /\ stacks'[1] = t
    BY <2>4
  <2>6. memory' = [d \in {1} |-> SavedContents(snapshot[1])]
    <3>1. memory' = [q \in DOMAIN stacks' |-> Contents(stacks'[q])]
      BY DEF memory, Contents, SlotValue
    <3> QED
      BY <2>3, <2>5, <3>1
  <2>7. saved[1] = SavedContents(snapshot[1]) /\ saved' = << >>
    BY <2>1, <2>4 DEF saved
  <2>8. memory' = [memory EXCEPT ![1] = saved[1]]
    <3>1. memory = [d \in {1} |-> Contents(stacks[1])]
      BY <2>2 DEF memory
    <3> QED
      BY <2>6, <2>7, <3>1
  <2>9. request'.op = "restore"
    BY <1>4 DEF HostRollback
  <2> QED
    BY <2>7, <2>8, <2>9, DenseOperations, DenseStep
<1>5. CASE PopSnapshot
  <2>1. memory' = memory /\ saved' = << >> /\ request'.op = "commit"
    BY <1>5 DEF PopSnapshot, memory, saved
  <2> QED
    BY <2>1, DenseOperations, DenseStep
<1> QED
  BY <1>3, <1>4, <1>5

LEMMA NextRefines == IInv /\ [Next]_vars => [Dense!Next]_(Dense!vars)
<1> SUFFICES ASSUME IInv, [Next]_vars PROVE Dense!Next \/ UNCHANGED Dense!vars
  OBVIOUS
<1>1. ASSUME NEW slot \in Used, NEW word \in Words, WriteStack(slot, word[1], word[2])
      PROVE  Dense!Next
  BY <1>1, WriteStackRefines
<1>2. CASE PushFrame
  BY <1>2, PushFrameRefines
<1>3. CASE PopFrame
  BY <1>3, PopFrameRefines
<1>4. CASE MakeSnapshot \/ HostRollback \/ PopSnapshot
  BY <1>4, HostRefines
<1>5. CASE UNCHANGED vars
  BY <1>5 DEF vars, state, Dense!vars
<1> QED
  BY <1>1, <1>2, <1>3, <1>4, <1>5 DEF Next

\* Stacks implement zeroed memory: allocation by sub-chunks, dirty areas, the
\* pool and the saved prefix are never seen by a program or the host, whatever
\* the sizes ("purely a memory-layout change", stack.rs:51).
THEOREM Refines == Spec => ImplementsZeroedMemory
<1>1. Spec => []IInv
  BY InitIInv, NextIInv, PTL DEF Spec
<1> QED
  BY <1>1, InitRefines, NextRefines, PTL DEF Spec, ImplementsZeroedMemory, Dense!Spec
=============================================================================
