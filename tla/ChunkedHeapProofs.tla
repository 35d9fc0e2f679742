--------------------------- MODULE ChunkedHeapProofs ---------------------------
(***************************************************************************)
(* Heaps implement plain zeroed memory, for any sizes of heaps, chunks and *)
(* words, and any lengths of strings and of the journal.                   *)
(***************************************************************************)
EXTENDS ChunkedHeap, SequenceTheorems, FiniteSetTheorems, WellFoundedInduction, TLAPS

-----------------------------------------------------------------------------
(* Numbers and sets of numbers *)

LEMMA Sizes ==
  /\ HEAP_CHUNK_SIZE \in Nat /\ HEAP_CHUNK_SIZE >= 1
  /\ WORD \in Nat /\ WORD >= 1 /\ HEAP_CHUNK_SIZE % WORD = 0
  /\ Size \in Nat /\ 0 \in Bytes
  /\ Words \subseteq [1..WORD -> Bytes] /\ Strings \subseteq Seq(Bytes)
  /\ Addresses \subseteq Nat
  BY SizeAssumption DEF SizeAssumption, Addresses

LEMMA Products ==
  ASSUME NEW m \in Nat, NEW n \in Nat, NEW k \in Nat
  PROVE  /\ m * n \in Nat
         /\ m <= n => m * k <= n * k
         /\ (m * n) * k = m * (n * k)
         /\ (m + n) * k = m * k + n * k
         /\ m * n = n * m
  OBVIOUS

\* A division with remainder has one answer.
LEMMA Quotient ==
  ASSUME NEW n \in Nat, NEW d \in Nat, d >= 1
  PROVE  /\ n \div d \in Nat /\ n % d \in 0..(d - 1)
         /\ n = (n \div d) * d + (n % d)
         /\ \A q \in Nat, r \in 0..(d - 1) : n = q * d + r => n \div d = q /\ n % d = r
<1>1. /\ n \div d \in Nat /\ n % d \in 0..(d - 1)
      /\ n = (n \div d) * d + (n % d)
  OBVIOUS
<1>2. ASSUME NEW q \in Nat, NEW r \in 0..(d - 1), NEW p \in Nat, NEW s \in 0..(d - 1),
             q * d + r = p * d + s
      PROVE  ~(q < p)
  <2>1. CASE q < p
    <3>1. (q + 1) * d <= p * d
      BY <2>1, Products
    <3>2. (q + 1) * d = q * d + d
      BY Products
    <3>3. q * d \in Nat /\ p * d \in Nat
      BY Products
    <3> QED
      BY <1>2, <3>1, <3>2, <3>3
  <2> QED
    BY <2>1
<1>3. ASSUME NEW q \in Nat, NEW r \in 0..(d - 1), n = q * d + r
      PROVE  n \div d = q /\ n % d = r
  <2>1. ~(q < n \div d) /\ ~(n \div d < q)
    BY <1>1, <1>2, <1>3
  <2>2. n \div d = q
    BY <1>1, <2>1
  <2>3. q * d \in Nat
    BY Products
  <2> QED
    BY <1>1, <1>3, <2>2, <2>3
<1> QED
  BY <1>1, <1>3

LEMMA QuotientGrows ==
  ASSUME NEW m \in Nat, NEW n \in Nat, NEW d \in Nat, d >= 1, m <= n
  PROVE  m \div d <= n \div d
<1> DEFINE p == m \div d
           q == n \div d
<1>1. /\ p \in Nat /\ m % d \in 0..(d - 1) /\ m = p * d + (m % d)
      /\ q \in Nat /\ n % d \in 0..(d - 1) /\ n = q * d + (n % d)
  BY Quotient
<1> HIDE DEF p, q
<1>2. CASE q < p
  <2>1. (q + 1) * d <= p * d
    BY <1>1, <1>2, Products
  <2>2. (q + 1) * d = q * d + d /\ q * d \in Nat /\ p * d \in Nat
    BY <1>1, Products
  <2> QED
    BY <1>1, <2>1, <2>2
<1> QED
  BY <1>1, <1>2 DEF p, q

LEMMA MaxIs ==
  ASSUME NEW S, S \subseteq Int, NEW x \in S, \A y \in S : y <= x
  PROVE  Max(S) = x
<1>1. \E z \in S : \A y \in S : z >= y
  OBVIOUS
<1>2. Max(S) \in S /\ \A y \in S : Max(S) >= y
  BY <1>1 DEF Max
<1>3. Max(S) \in Int /\ x \in Int /\ Max(S) >= x /\ Max(S) <= x
  BY <1>2
<1> HIDE DEF Max
<1> QED
  BY <1>3

LEMMA MinOfTwo ==
  ASSUME NEW m \in Int, NEW n \in Int
  PROVE  Min({m, n}) = IF m <= n THEN m ELSE n
<1> DEFINE S == {m, n}
<1>1. \E z \in S : \A y \in S : z <= y
  OBVIOUS
<1>2. Min(S) \in S /\ \A y \in S : Min(S) <= y
  BY <1>1 DEF Min
<1> QED
  BY <1>2

LEMMA MinIsLeast ==
  ASSUME NEW S, S \subseteq Nat, S # {}
  PROVE  Min(S) \in S /\ \A j \in S : Min(S) <= j
<1>1. PICK m \in S : \A j \in S : ~ (<< j, m >> \in OpToRel(<, Nat))
  BY NatLessThanWellFounded, WFMin
<1>2. ASSUME NEW j \in S
      PROVE  m <= j
  <2>1. j \in Nat /\ m \in Nat
    OBVIOUS
  <2>2. j < m => << j, m >> \in OpToRel(<, Nat)
    BY <2>1, Zenon DEF OpToRel
  <2>3. ~ (j < m)
    BY <1>1, <2>2
  <2> QED
    BY <2>1, <2>3
<1>3. \E z \in S : \A y \in S : z <= y
  BY <1>2
<1> QED
  BY <1>3 DEF Min

\* The interval's bounds, and what it becomes when one is cut off
LEMMA IntervalsFinite ==
  ASSUME NEW m \in Nat, NEW n \in Nat, NEW S, S \subseteq m..n
  PROVE  IsFiniteSet(S) /\ Cardinality(S) \in Nat
<1>1. IsFiniteSet(m..n)
  BY FS_Interval
<1>2. IsFiniteSet(S)
  BY <1>1, FS_Subset
<1> QED
  BY <1>2, FS_CardinalityType

LEMMA RankPositive ==
  ASSUME NEW n \in Nat, NEW chunks, chunks \subseteq 0..n, NEW idx \in chunks
  PROVE  Rank(idx, chunks) \in Nat /\ Rank(idx, chunks) >= 1
<1> DEFINE S == {x \in chunks : x <= idx}
<1>1. S \subseteq 0..n /\ idx \in S
  <2>1. idx \in 0..n
    OBVIOUS
  <2>2. idx <= idx
    BY <2>1
  <2> QED
    BY <2>2
<1>2. IsFiniteSet(S) /\ Cardinality(S) \in Nat
  BY <1>1, IntervalsFinite
<1>3. Cardinality(S) # 0
  BY <1>1, <1>2, FS_EmptySet
<1> QED
  BY <1>2, <1>3 DEF Rank

-----------------------------------------------------------------------------
(* Heaps *)

Present == {<< c >> : c \in Chunk}

ChunkSeqs == Seq({<< >>} \cup Present)

\* Beyond the addresses of a heap there is nothing but zeros.
GoodHeap(heap) ==
  /\ heap \in ChunkSeqs
  /\ \A a \in Nat : a >= Size => ReadByte(heap, a) = 0

HasChunk(heap, address) == ChunkAt(heap, ChunkOf(address)) # << >>

\* The address of the i-th byte of a chunk
Place(idx, i) == (idx - 1) * HEAP_CHUNK_SIZE + i - 1

LEMMA AddressParts ==
  ASSUME NEW address \in Nat
  PROVE  /\ ChunkOf(address) \in Nat /\ ChunkOf(address) >= 1
         /\ InChunk(address) \in 1..HEAP_CHUNK_SIZE
         /\ Place(ChunkOf(address), InChunk(address)) = address
<1> DEFINE q == address \div HEAP_CHUNK_SIZE
           r == address % HEAP_CHUNK_SIZE
<1>1. /\ q \in Nat /\ r \in 0..(HEAP_CHUNK_SIZE - 1)
      /\ address = q * HEAP_CHUNK_SIZE + r
  BY Sizes, Quotient
<1>2. ChunkOf(address) = q + 1 /\ InChunk(address) = r + 1
  BY DEF ChunkOf, InChunk
<1> HIDE DEF q, r
<1>3. q * HEAP_CHUNK_SIZE \in Nat
  BY <1>1, Sizes, Products
<1>4. Place(q + 1, r + 1) = q * HEAP_CHUNK_SIZE + r
  <2>1. (q + 1) - 1 = q
    BY <1>1
  <2>2. Place(q + 1, r + 1) = q * HEAP_CHUNK_SIZE + (r + 1) - 1
    BY <2>1 DEF Place
  <2> QED
    BY <1>1, <1>3, <2>2, Sizes
<1> QED
  BY <1>1, <1>2, <1>4, Sizes

LEMMA PlaceParts ==
  ASSUME NEW idx \in Nat, idx >= 1, NEW i \in 1..HEAP_CHUNK_SIZE
  PROVE  /\ Place(idx, i) \in Nat
         /\ ChunkOf(Place(idx, i)) = idx /\ InChunk(Place(idx, i)) = i
<1>1. /\ idx - 1 \in Nat /\ i - 1 \in 0..(HEAP_CHUNK_SIZE - 1)
      /\ (idx - 1) * HEAP_CHUNK_SIZE \in Nat
  BY Sizes, Products
<1>2. Place(idx, i) = (idx - 1) * HEAP_CHUNK_SIZE + (i - 1)
  BY <1>1 DEF Place
<1>3. Place(idx, i) \in Nat
  BY <1>1, <1>2
<1>4. Place(idx, i) \div HEAP_CHUNK_SIZE = idx - 1 /\ Place(idx, i) % HEAP_CHUNK_SIZE = i - 1
  <2> DEFINE p == Place(idx, i)
             q == idx - 1
             r == i - 1
  <2>1. p \in Nat /\ q \in Nat /\ r \in 0..(HEAP_CHUNK_SIZE - 1)
        /\ p = q * HEAP_CHUNK_SIZE + r
    BY <1>1, <1>2, <1>3
  <2> HIDE DEF p, q, r
  <2>2. p \div HEAP_CHUNK_SIZE = q /\ p % HEAP_CHUNK_SIZE = r
    BY <2>1, Sizes, Quotient
  <2> QED
    BY <2>2 DEF p, q, r
<1> QED
  BY <1>3, <1>4 DEF ChunkOf, InChunk

LEMMA ChunkOfGrows ==
  ASSUME NEW a \in Nat, NEW b \in Nat, a <= b
  PROVE  ChunkOf(a) <= ChunkOf(b)
<1>1. a \div HEAP_CHUNK_SIZE <= b \div HEAP_CHUNK_SIZE
  BY Sizes, QuotientGrows
<1>2. a \div HEAP_CHUNK_SIZE \in Nat /\ b \div HEAP_CHUNK_SIZE \in Nat
  BY Sizes, Quotient
<1> QED
  BY <1>1, <1>2 DEF ChunkOf

LEMMA ZeroChunkType ==
  ZeroChunk \in Chunk /\ \A i \in 1..HEAP_CHUNK_SIZE : ZeroChunk[i] = 0
  BY Sizes DEF ZeroChunk, Chunk

\* What is there at an index
LEMMA ChunkAtType ==
  ASSUME NEW heap \in ChunkSeqs, NEW idx
  PROVE  /\ ChunkAt(heap, idx) \in {<< >>} \cup Present
         /\ ChunkAt(heap, idx) # << >> =>
              /\ idx \in 1..Len(heap) /\ heap[idx][1] \in Chunk
              /\ heap[idx] = << heap[idx][1] >> /\ ChunkAt(heap, idx) = heap[idx]
<1>1. DOMAIN heap = 1..Len(heap) /\ \A i \in 1..Len(heap) : heap[i] \in {<< >>} \cup Present
  BY DEF ChunkSeqs
<1>2. CASE idx \in 1..Len(heap)
  <2>1. ChunkAt(heap, idx) = heap[idx]
    BY <1>1, <1>2 DEF ChunkAt
  <2>2. heap[idx] \in {<< >>} \cup Present
    BY <1>1, <1>2
  <2>3. heap[idx] \in Present => heap[idx][1] \in Chunk /\ heap[idx] = << heap[idx][1] >>
    BY DEF Present
  <2> QED
    BY <1>2, <2>1, <2>2, <2>3
<1>3. CASE idx \notin 1..Len(heap)
  BY <1>1, <1>3 DEF ChunkAt
<1> QED
  BY <1>2, <1>3

LEMMA ReadByteType ==
  ASSUME NEW heap \in ChunkSeqs, NEW address \in Nat
  PROVE  ReadByte(heap, address) \in Bytes
<1>1. CASE HasChunk(heap, address)
  <2>1. ChunkAt(heap, ChunkOf(address))[1] \in Chunk
    BY <1>1, ChunkAtType DEF HasChunk
  <2>2. ReadByte(heap, address) = ChunkAt(heap, ChunkOf(address))[1][InChunk(address)]
    BY <1>1 DEF ReadByte, HasChunk
  <2> QED
    BY <2>1, <2>2, AddressParts DEF Chunk
<1>2. CASE ~HasChunk(heap, address)
  BY <1>2, Sizes DEF ReadByte, HasChunk
<1> QED
  BY <1>1, <1>2

\* A heap without chunks
LEMMA EmptyHeapGood ==
  /\ GoodHeap(<< >>)
  /\ \A a \in Nat : ReadByte(<< >>, a) = 0
<1>1. << >> \in ChunkSeqs
  BY DEF ChunkSeqs
<1>2. \A a \in Nat : ReadByte(<< >>, a) = 0
  BY DEF ReadByte, ChunkAt
<1> QED
  BY <1>1, <1>2 DEF GoodHeap

-----------------------------------------------------------------------------
(* Writing *)

Span(start, bytes) == start..(start + Len(bytes) - 1)
Touched(start, bytes) == {ChunkOf(a) : a \in Span(start, bytes)}
Absent(heap, start, bytes) ==
  {idx \in Touched(start, bytes) : ChunkAt(heap, idx) = << >>}

\* A chunk before bytes are written to it, and after
Before(m, start, bytes, idx) ==
  IF idx \in Absent(m.heap, start, bytes)
  THEN Allocated(m.pool, Rank(idx, Absent(m.heap, start, bytes)))
  ELSE m.heap[idx][1]

After(m, start, bytes, idx) ==
  [i \in 1..HEAP_CHUNK_SIZE |->
     LET pos == Place(idx, i) - start + 1
     IN IF pos \in DOMAIN bytes THEN bytes[pos] ELSE Before(m, start, bytes, idx)[i]]

ChunksAfter(heap, start, bytes) == Max(Touched(start, bytes) \cup {Len(heap)})

\* The pool hands out zeroed chunks only.
ZeroPools == Seq({ZeroChunk})

LEMMA TouchedChunks ==
  ASSUME NEW heap \in ChunkSeqs, NEW start \in Nat, NEW bytes, Len(bytes) \in Nat
  PROVE  /\ ChunksAfter(heap, start, bytes) \in Nat
         /\ Len(heap) <= ChunksAfter(heap, start, bytes)
         /\ Touched(start, bytes) \subseteq 1..ChunksAfter(heap, start, bytes)
<1> DEFINE last == start + Len(bytes) - 1
           T == Touched(start, bytes)
           S == T \cup {Len(heap)}
<1>1. Len(heap) \in Nat
  BY DEF ChunkSeqs
<1>2. \A idx \in T : idx \in Nat /\ idx >= 1
  <2>1. \A a \in Span(start, bytes) : a \in Nat
    BY DEF Span
  <2> QED
    BY <2>1, AddressParts DEF Touched
<1>3. PICK x \in S : \A y \in S : y <= x
  <2>1. CASE Len(bytes) = 0
    <3>1. T = {}
      BY <2>1 DEF Touched, Span
    <3> QED
      BY <1>1, <3>1
  <2>2. CASE Len(bytes) # 0
    <3>1. last \in Nat /\ last \in Span(start, bytes)
      BY <2>2 DEF Span
    <3>2. ChunkOf(last) \in T
      BY <3>1 DEF Touched
    <3>3. \A a \in Span(start, bytes) : a \in Nat /\ a <= last
      BY DEF Span
    <3>4. \A y \in T : y <= ChunkOf(last)
      BY <3>1, <3>3, ChunkOfGrows DEF Touched
    <3>5. ChunkOf(last) \in Nat
      BY <1>2, <3>2
    <3> HIDE DEF last, T
    <3>6. CASE Len(heap) <= ChunkOf(last)
      BY <3>2, <3>4, <3>5, <3>6
    <3>7. CASE ChunkOf(last) <= Len(heap)
      <4>1. \A y \in T : y <= Len(heap)
        BY <1>1, <1>2, <3>4, <3>5, <3>7
      <4> QED
        BY <1>1, <4>1
    <3> QED
      BY <1>1, <3>5, <3>6, <3>7
  <2> QED
    BY <2>1, <2>2
<1>4. S \subseteq Int
  BY <1>1, <1>2
<1>5. Max(S) = x
  BY <1>3, <1>4, MaxIs
<1>6. x \in Nat
  BY <1>1, <1>2
<1>7. ChunksAfter(heap, start, bytes) = x
  BY <1>5 DEF ChunksAfter
<1>8. Len(heap) <= x
  BY <1>3
<1>9. T \subseteq 1..x
  <2> SUFFICES ASSUME NEW idx \in T PROVE idx \in 1..x
    OBVIOUS
  <2>1. idx <= x
    BY <1>3
  <2> QED
    BY <1>2, <1>6, <2>1
<1> QED
  BY <1>6, <1>7, <1>8, <1>9

LEMMA WriteFromIs ==
  ASSUME NEW m, NEW start \in Nat, NEW bytes
  PROVE  WriteFrom(m, start, bytes) =
           [heap |-> [idx \in 1..ChunksAfter(m.heap, start, bytes) |->
                        IF idx \in Touched(start, bytes)
                        THEN << After(m, start, bytes, idx) >>
                        ELSE ChunkAt(m.heap, idx)],
            pool |-> SubSeq(m.pool, 1,
                       Len(m.pool) - Cardinality(Absent(m.heap, start, bytes)))]
<1> DEFINE after(idx) ==
             [i \in 1..HEAP_CHUNK_SIZE |->
                LET pos == (idx - 1) * HEAP_CHUNK_SIZE + i - start
                IN IF pos \in DOMAIN bytes THEN bytes[pos]
                   ELSE Before(m, start, bytes, idx)[i]]
<1>1. WriteFrom(m, start, bytes) =
           [heap |-> [idx \in 1..ChunksAfter(m.heap, start, bytes) |->
                        IF idx \in Touched(start, bytes)
                        THEN << after(idx) >>
                        ELSE ChunkAt(m.heap, idx)],
            pool |-> SubSeq(m.pool, 1,
                       Len(m.pool) - Cardinality(Absent(m.heap, start, bytes)))]
  BY DEF WriteFrom, ChunksAfter, Touched, Absent, Before, Span
<1>2. \A idx \in Touched(start, bytes) : after(idx) = After(m, start, bytes, idx)
  <2> SUFFICES ASSUME NEW idx \in Touched(start, bytes)
               PROVE  after(idx) = After(m, start, bytes, idx)
    OBVIOUS
  <2>1. idx \in Nat
    <3>1. \A a \in Span(start, bytes) : a \in Nat
      BY DEF Span
    <3> QED
      BY <3>1, AddressParts DEF Touched
  <2>2. \A i \in 1..HEAP_CHUNK_SIZE :
          Place(idx, i) - start + 1 = (idx - 1) * HEAP_CHUNK_SIZE + i - start
    <3>1. (idx - 1) * HEAP_CHUNK_SIZE \in Int
      BY <2>1, Sizes
    <3> QED
      BY <3>1, Sizes DEF Place
  <2> QED
    BY <2>2 DEF After
<1> HIDE DEF after
<1> QED
  BY <1>1, <1>2

LEMMA BeforeIs ==
  ASSUME NEW m, m.heap \in ChunkSeqs, m.pool \in ZeroPools,
         NEW start \in Nat, NEW bytes, Len(bytes) \in Nat,
         NEW idx \in Touched(start, bytes)
  PROVE  /\ Before(m, start, bytes, idx) \in Chunk
         /\ \A i \in 1..HEAP_CHUNK_SIZE :
              Before(m, start, bytes, idx)[i] = ReadByte(m.heap, Place(idx, i))
<1> DEFINE A == Absent(m.heap, start, bytes)
<1>1. idx \in Nat /\ idx >= 1
  BY TouchedChunks
<1>2. CASE idx \in A
  <2> DEFINE k == Rank(idx, A)
  <2>1. k \in Nat /\ k >= 1
    <3>1. A \subseteq 0..ChunksAfter(m.heap, start, bytes)
      BY TouchedChunks DEF Absent
    <3> QED
      BY <1>2, <3>1, TouchedChunks, RankPositive
  <2>2. Allocated(m.pool, k) = ZeroChunk
    <3> HIDE DEF k
    <3>1. \A n \in 1..Len(m.pool) : m.pool[n] = ZeroChunk
      BY DEF ZeroPools
    <3>2. Len(m.pool) \in Nat
      BY DEF ZeroPools
    <3>3. k <= Len(m.pool) => Len(m.pool) - k + 1 \in 1..Len(m.pool)
      BY <2>1, <3>2
    <3> QED
      BY <3>1, <3>3 DEF Allocated
  <2>3. Before(m, start, bytes, idx) = ZeroChunk
    BY <1>2, <2>2 DEF Before
  <2>4. ASSUME NEW i \in 1..HEAP_CHUNK_SIZE
        PROVE  ReadByte(m.heap, Place(idx, i)) = 0
    <3>1. ChunkOf(Place(idx, i)) = idx
      BY <1>1, PlaceParts
    <3>2. ChunkAt(m.heap, idx) = << >>
      BY <1>2 DEF Absent
    <3> QED
      BY <3>1, <3>2 DEF ReadByte
  <2> QED
    BY <2>3, <2>4, ZeroChunkType
<1>3. CASE idx \notin A
  <2>1. ChunkAt(m.heap, idx) # << >>
    BY <1>3 DEF Absent
  <2>2. m.heap[idx][1] \in Chunk /\ ChunkAt(m.heap, idx) = m.heap[idx]
    BY <2>1, ChunkAtType
  <2>3. Before(m, start, bytes, idx) = m.heap[idx][1]
    BY <1>3 DEF Before
  <2>4. ASSUME NEW i \in 1..HEAP_CHUNK_SIZE
        PROVE  ReadByte(m.heap, Place(idx, i)) = m.heap[idx][1][i]
    BY <1>1, <2>1, <2>2, PlaceParts DEF ReadByte
  <2> QED
    BY <2>2, <2>3, <2>4
<1> QED
  BY <1>2, <1>3

\* A write changes the bytes it names and no others, and leaves a chunk
\* wherever there was one or it wrote.
WriteDone(m, start, bytes) ==
  LET w == WriteFrom(m, start, bytes) IN
  /\ GoodHeap(w.heap) /\ w.pool \in ZeroPools
  /\ \A a \in Nat :
       ReadByte(w.heap, a) = IF a \in Span(start, bytes) THEN bytes[a - start + 1]
                             ELSE ReadByte(m.heap, a)
  /\ \A a \in Nat : HasChunk(m.heap, a) \/ ChunkOf(a) \in Touched(start, bytes) =>
                      HasChunk(w.heap, a)

LEMMA WriteFromGood ==
  ASSUME NEW m, GoodHeap(m.heap), m.pool \in ZeroPools,
         NEW start \in Nat, NEW bytes \in Seq(Bytes), start + Len(bytes) <= Size
  PROVE  WriteDone(m, start, bytes)
<1> DEFINE N == ChunksAfter(m.heap, start, bytes)
           T == Touched(start, bytes)
           A == Absent(m.heap, start, bytes)
           heap == WriteFrom(m, start, bytes).heap
           pool == WriteFrom(m, start, bytes).pool
<1>1. /\ m.heap \in ChunkSeqs /\ Len(bytes) \in Nat /\ DOMAIN bytes = 1..Len(bytes)
      /\ \A a \in Nat : a >= Size => ReadByte(m.heap, a) = 0
  BY DEF GoodHeap
<1>2. N \in Nat /\ Len(m.heap) <= N /\ T \subseteq 1..N
  BY <1>1, TouchedChunks
<1>3. /\ heap = [idx \in 1..N |-> IF idx \in T THEN << After(m, start, bytes, idx) >>
                                  ELSE ChunkAt(m.heap, idx)]
      /\ pool = SubSeq(m.pool, 1, Len(m.pool) - Cardinality(A))
  <2> DEFINE H == [idx \in 1..N |-> IF idx \in T THEN << After(m, start, bytes, idx) >>
                                  ELSE ChunkAt(m.heap, idx)]
             P == SubSeq(m.pool, 1, Len(m.pool) - Cardinality(A))
  <2>1. WriteFrom(m, start, bytes) = [heap |-> H, pool |-> P]
    BY WriteFromIs, Zenon
  <2> HIDE DEF H, P
  <2>2. heap = H /\ pool = P
    BY <2>1
  <2> QED
    BY <2>2 DEF H, P
<1>4. ASSUME NEW idx \in T
      PROVE  After(m, start, bytes, idx) \in Chunk
  <2>1. Before(m, start, bytes, idx) \in Chunk
    BY <1>1, BeforeIs
  <2> QED
    BY <1>1, <2>1 DEF After, Chunk
<1>5. pool \in ZeroPools
  <2>1. IsFiniteSet(A) /\ Cardinality(A) \in Nat
    <3>1. A \subseteq 1..N
      BY <1>2 DEF Absent
    <3> HIDE DEF A, N
    <3> QED
      BY <1>2, <3>1, IntervalsFinite
  <2> HIDE DEF A
  <2>2. Len(m.pool) \in Nat /\ \A n \in 1..Len(m.pool) : m.pool[n] \in {ZeroChunk}
    BY DEF ZeroPools
  <2>3. \A n \in 1..(Len(m.pool) - Cardinality(A)) : m.pool[n] \in {ZeroChunk}
    BY <2>1, <2>2
  <2> DEFINE last == Len(m.pool) - Cardinality(A)
  <2>4. last \in Int
    BY <2>1, <2>2
  <2> HIDE DEF last
  <2>5. SubSeq(m.pool, 1, last) \in Seq({ZeroChunk})
    BY <2>3, <2>4, SubSeqProperties DEF ZeroPools, last
  <2> QED
    BY <1>3, <2>5 DEF ZeroPools, last
<1>6. heap \in ChunkSeqs /\ Len(heap) = N
  <2>1. \A idx \in 1..N : heap[idx] \in {<< >>} \cup Present
    <3> SUFFICES ASSUME NEW idx \in 1..N PROVE heap[idx] \in {<< >>} \cup Present
      OBVIOUS
    <3>1. CASE idx \in T
      <4>1. After(m, start, bytes, idx) \in Chunk
        BY <1>4, <3>1
      <4>2. heap[idx] = << After(m, start, bytes, idx) >>
        BY <1>3, <3>1
      <4> QED
        BY <4>1, <4>2 DEF Present
    <3>2. CASE idx \notin T
      <4>1. heap[idx] = ChunkAt(m.heap, idx)
        BY <1>3, <3>2
      <4> QED
        BY <1>1, <4>1, ChunkAtType
    <3> QED
      BY <3>1, <3>2
  <2>2. DOMAIN heap = 1..N /\ heap = [idx \in 1..N |-> heap[idx]]
    BY <1>3
  <2> HIDE DEF heap, N
  <2> QED
    BY <1>2, <2>1, <2>2 DEF ChunkSeqs
<1>7. ASSUME NEW idx \in Nat
      PROVE  ChunkAt(heap, idx) = IF idx \in T THEN << After(m, start, bytes, idx) >>
                                  ELSE ChunkAt(m.heap, idx)
  <2>1. CASE idx \in 1..N
    <3>1. DOMAIN heap = 1..N
      BY <1>3
    <3> HIDE DEF heap
    <3>2. ChunkAt(heap, idx) = heap[idx]
      BY <2>1, <3>1 DEF ChunkAt
    <3> QED
      BY <1>3, <2>1, <3>2
  <2>2. CASE idx \notin 1..N
    <3>1. DOMAIN heap = 1..N
      BY <1>3
    <3>2. DOMAIN m.heap = 1..Len(m.heap) /\ Len(m.heap) \in Nat
      BY <1>1 DEF ChunkSeqs
    <3>3. idx \notin DOMAIN m.heap /\ idx \notin T
      BY <1>2, <2>2, <3>2
    <3> HIDE DEF heap, T
    <3> QED
      BY <2>2, <3>1, <3>3 DEF ChunkAt
  <2> QED
    BY <2>1, <2>2
<1> HIDE DEF heap, pool, N
<1>8. ASSUME NEW a \in Nat
      PROVE  ReadByte(heap, a) = IF a \in Span(start, bytes) THEN bytes[a - start + 1]
                                 ELSE ReadByte(m.heap, a)
  <2> DEFINE idx == ChunkOf(a)
             i == InChunk(a)
  <2>1. idx \in Nat /\ idx >= 1 /\ i \in 1..HEAP_CHUNK_SIZE /\ Place(idx, i) = a
    BY AddressParts
  <2>2. a \in Span(start, bytes) => idx \in T
    BY DEF Touched
  <2>3. ReadByte(heap, a) = IF ChunkAt(heap, idx) = << >> THEN 0 ELSE ChunkAt(heap, idx)[1][i]
    BY DEF ReadByte
  <2>4. ReadByte(m.heap, a)
          = IF ChunkAt(m.heap, idx) = << >> THEN 0 ELSE ChunkAt(m.heap, idx)[1][i]
    BY DEF ReadByte
  <2> HIDE DEF idx, i, T
  <2>5. CASE idx \in T
    <3>1. ReadByte(heap, a) = After(m, start, bytes, idx)[i]
      <4>1. ChunkAt(heap, idx) = << After(m, start, bytes, idx) >>
        BY <1>7, <2>1, <2>5
      <4> QED
        BY <2>3, <4>1
    <3>2. After(m, start, bytes, idx)[i]
            = IF a - start + 1 \in DOMAIN bytes THEN bytes[a - start + 1]
              ELSE Before(m, start, bytes, idx)[i]
      BY <2>1 DEF After
    <3>3. a - start + 1 \in DOMAIN bytes <=> a \in Span(start, bytes)
      BY <1>1 DEF Span
    <3>4. Before(m, start, bytes, idx)[i] = ReadByte(m.heap, a)
      BY <1>1, <2>1, <2>5, BeforeIs DEF T
    <3> QED
      BY <3>1, <3>2, <3>3, <3>4
  <2>6. CASE idx \notin T
    <3>1. ChunkAt(heap, idx) = ChunkAt(m.heap, idx)
      BY <1>7, <2>1, <2>6
    <3> QED
      BY <2>2, <2>3, <2>4, <2>6, <3>1
  <2> QED
    BY <2>5, <2>6
<1>9. GoodHeap(heap)
  <2>1. ASSUME NEW a \in Nat, a >= Size
        PROVE  ReadByte(heap, a) = 0
    <3>1. a \notin Span(start, bytes)
      BY <1>1, <2>1, Sizes DEF Span
    <3> QED
      BY <1>1, <1>8, <2>1, <3>1
  <2> QED
    BY <1>6, <2>1 DEF GoodHeap
<1>10. ASSUME NEW a \in Nat, HasChunk(m.heap, a) \/ ChunkOf(a) \in T
       PROVE  HasChunk(heap, a)
  <2>1. ChunkOf(a) \in Nat
    BY AddressParts
  <2>2. << After(m, start, bytes, ChunkOf(a)) >> # << >>
    OBVIOUS
  <2> QED
    BY <1>7, <1>10, <2>1, <2>2 DEF HasChunk
<1> QED
  BY <1>5, <1>8, <1>9, <1>10 DEF WriteDone, heap, pool

-----------------------------------------------------------------------------
(* Freeing chunks *)

LEMMA RecycleGood ==
  ASSUME NEW pool \in ZeroPools, NEW heap \in ChunkSeqs,
         NEW places, places \subseteq 1..Len(heap)
  PROVE  Recycle(pool, heap, places) \in ZeroPools
<1> DEFINE freed == {idx \in places : heap[idx] # << >>}
           n == Cardinality(freed)
<1>1. n \in Nat
  <2>1. freed \subseteq 1..Len(heap)
    OBVIOUS
  <2>2. Len(heap) \in Nat
    BY DEF ChunkSeqs
  <2> HIDE DEF freed
  <2> QED
    BY <2>1, <2>2, IntervalsFinite
<1>2. Recycle(pool, heap, places) = pool \o [k \in 1..n |-> ZeroChunk]
  BY DEF Recycle, Recycled
<1> HIDE DEF n
<1> DEFINE zeros == [k \in 1..n |-> ZeroChunk]
<1>3. zeros \in Seq({ZeroChunk})
  BY <1>1
<1> HIDE DEF zeros
<1>4. pool \o zeros \in Seq({ZeroChunk})
  BY <1>3, ConcatProperties DEF ZeroPools
<1> QED
  BY <1>2, <1>4 DEF ZeroPools, zeros

\* Shrinking keeps the window; what is lost reads as zero.
WindowKept(m, start, end) ==
  LET w == RetainWindow(m, start, end) IN
  /\ GoodHeap(w.heap) /\ w.pool \in ZeroPools
  /\ \A a \in Nat : /\ ReadByte(w.heap, a) \in {ReadByte(m.heap, a), 0}
                    /\ a \in start..(end - 1) => ReadByte(w.heap, a) = ReadByte(m.heap, a)

LEMMA KeptChunks ==
  ASSUME NEW start \in Nat, NEW end \in Nat
  PROVE  \E K \in Nat :
           /\ Max({n + 1 : n \in Kept(start, end)} \cup {0}) = K
           /\ \A n \in Kept(start, end) : n \in Nat /\ n + 1 <= K
<1> DEFINE first == start \div HEAP_CHUNK_SIZE
           last == (end - 1) \div HEAP_CHUNK_SIZE
           S == {n + 1 : n \in Kept(start, end)} \cup {0}
<1>1. CASE start >= end
  <2>1. Kept(start, end) = {}
    BY <1>1 DEF Kept
  <2>2. S = {0}
    BY <2>1
  <2>3. Max(S) = 0
    <3> HIDE DEF S
    <3> QED
      BY <2>2, MaxIs
  <2> QED
    BY <2>1, <2>3
<1>2. CASE ~(start >= end)
  <2>1. /\ end - 1 \in Nat /\ start <= end - 1
    BY <1>2
  <2>2. first \in Nat /\ last \in Nat /\ first <= last
    BY <2>1, Sizes, Quotient, QuotientGrows
  <2>3. Kept(start, end) = first..last
    BY <1>2 DEF Kept
  <2> HIDE DEF first, last
  <2>4. /\ last + 1 \in S /\ S \subseteq Int
        /\ \A y \in S : y <= last + 1
    BY <2>2, <2>3
  <2>5. Max(S) = last + 1
    <3> HIDE DEF S
    <3> QED
      BY <2>4, MaxIs
  <2>6. \A n \in Kept(start, end) : n \in Nat /\ n + 1 <= last + 1
    BY <2>2, <2>3
  <2>7. last + 1 \in Nat
    BY <2>2
  <2> QED
    BY <2>5, <2>6, <2>7
<1> QED
  BY <1>1, <1>2

LEMMA RetainWindowGood ==
  ASSUME NEW m, GoodHeap(m.heap), m.pool \in ZeroPools,
         NEW start \in Nat, NEW end \in Nat
  PROVE  WindowKept(m, start, end)
<1> DEFINE kept == {idx \in DOMAIN m.heap : idx - 1 \in Kept(start, end)}
           len == Min({Len(m.heap), Max({n + 1 : n \in Kept(start, end)} \cup {0})})
           heap == [idx \in 1..len |-> IF idx \in kept THEN m.heap[idx] ELSE << >>]
           pool == Recycle(m.pool, m.heap, DOMAIN m.heap \ kept)
<1>1. /\ m.heap \in ChunkSeqs /\ DOMAIN m.heap = 1..Len(m.heap) /\ Len(m.heap) \in Nat
      /\ \A idx \in 1..Len(m.heap) : m.heap[idx] \in {<< >>} \cup Present
  BY DEF GoodHeap, ChunkSeqs
<1>2. RetainWindow(m, start, end) = [heap |-> heap, pool |-> pool]
  BY DEF RetainWindow
<1>3. pool \in ZeroPools
  <2>1. DOMAIN m.heap \ kept \subseteq 1..Len(m.heap)
    BY <1>1
  <2> HIDE DEF kept
  <2> QED
    BY <1>1, <2>1, RecycleGood
<1>4. len \in Nat /\ len <= Len(m.heap) /\ kept \subseteq 1..len
  <2>1. PICK K \in Nat :
          /\ Max({n + 1 : n \in Kept(start, end)} \cup {0}) = K
          /\ \A n \in Kept(start, end) : n \in Nat /\ n + 1 <= K
    BY KeptChunks
  <2>2. len = IF Len(m.heap) <= K THEN Len(m.heap) ELSE K
    BY <1>1, <2>1, MinOfTwo
  <2>3. ASSUME NEW idx \in kept
        PROVE  idx \in 1..len
    <3>1. idx \in 1..Len(m.heap) /\ (idx - 1) + 1 <= K
      BY <1>1, <2>1
    <3> HIDE DEF len
    <3> QED
      BY <1>1, <2>2, <3>1
  <2> HIDE DEF len
  <2> QED
    BY <1>1, <2>2, <2>3
<1> HIDE DEF len, pool
<1>5. heap \in ChunkSeqs
  <2>1. \A idx \in 1..len : heap[idx] \in {<< >>} \cup Present
    BY <1>1, <1>4
  <2> QED
    BY <1>4, <2>1 DEF ChunkSeqs
<1>6. ASSUME NEW idx \in Nat
      PROVE  ChunkAt(heap, idx) = IF idx \in kept THEN ChunkAt(m.heap, idx) ELSE << >>
  BY <1>4 DEF ChunkAt
<1>7. ASSUME NEW a \in Nat
      PROVE  /\ ReadByte(heap, a) \in {ReadByte(m.heap, a), 0}
             /\ a \in start..(end - 1) => ReadByte(heap, a) = ReadByte(m.heap, a)
  <2> DEFINE idx == ChunkOf(a)
  <2>1. idx \in Nat
    BY AddressParts
  <2>2. CASE idx \in kept
    <3>1. ChunkAt(heap, idx) = ChunkAt(m.heap, idx)
      BY <1>6, <2>1, <2>2
    <3> HIDE DEF heap
    <3> QED
      BY <3>1 DEF ReadByte
  <2>3. CASE idx \notin kept
    <3>1. ChunkAt(heap, idx) = << >>
      BY <1>6, <2>1, <2>3
    <3>2. ReadByte(heap, a) = 0
      <4> HIDE DEF heap
      <4> QED
        BY <3>1 DEF ReadByte
    <3>3. ASSUME a \in start..(end - 1)
          PROVE  ReadByte(m.heap, a) = 0
      <4>1. start <= a /\ a <= end - 1 /\ end - 1 \in Nat /\ start < end
        BY <3>3
      <4>2. /\ a \div HEAP_CHUNK_SIZE >= start \div HEAP_CHUNK_SIZE
            /\ a \div HEAP_CHUNK_SIZE <= (end - 1) \div HEAP_CHUNK_SIZE
            /\ a \div HEAP_CHUNK_SIZE \in Nat
            /\ start \div HEAP_CHUNK_SIZE \in Nat
            /\ (end - 1) \div HEAP_CHUNK_SIZE \in Nat
        BY <4>1, Sizes, Quotient, QuotientGrows
      <4>3. idx - 1 = a \div HEAP_CHUNK_SIZE
        BY <4>2 DEF ChunkOf
      <4>4. idx - 1 \in Kept(start, end)
        BY <4>1, <4>2, <4>3 DEF Kept
      <4>5. ChunkAt(m.heap, idx) = << >>
        BY <2>3, <4>4 DEF ChunkAt
      <4> QED
        BY <4>5 DEF ReadByte
    <3> QED
      BY <3>2, <3>3
  <2> QED
    BY <2>2, <2>3
<1>8. GoodHeap(heap)
  BY <1>5, <1>7 DEF GoodHeap
<1> HIDE DEF heap
<1>9. RetainWindow(m, start, end).heap = heap /\ RetainWindow(m, start, end).pool = pool
  BY <1>2
<1> QED
  BY <1>3, <1>7, <1>8, <1>9 DEF WindowKept

-----------------------------------------------------------------------------
(* The journal *)

Entries == Addresses \X [1..WORD -> Bytes]

Covers(address, a) == a - address \in 0..(WORD - 1)

\* What a recorded word covers has a chunk, and was zero beyond the heap's end.
GoodEntry(entry, heap) ==
  /\ entry \in Entries
  /\ \A a \in Nat : Covers(entry[1], a) =>
       /\ HasChunk(heap, a)
       /\ a >= Size => entry[2][a - entry[1] + 1] = 0

GoodJournal(journal, heap) ==
  /\ journal \in Seq(Entries)
  /\ \A i \in 1..Len(journal) : GoodEntry(journal[i], heap)

Covering(journal, length, a) ==
  {i \in (length + 1)..Len(journal) : Covers(journal[i][1], a)}

\* UndoneByte, for any journal and heap
Undo(journal, heap, length, a) ==
  LET entry == journal[Min(Covering(journal, length, a))]
  IN IF Covering(journal, length, a) = {} THEN ReadByte(heap, a)
     ELSE entry[2][a - entry[1] + 1]

LEMMA EntryType ==
  ASSUME NEW entry \in Entries, NEW a \in Nat, Covers(entry[1], a)
  PROVE  entry[1] \in Nat /\ a - entry[1] + 1 \in 1..WORD
         /\ entry[2][a - entry[1] + 1] \in Bytes
<1>1. entry[1] \in Nat /\ entry[2] \in [1..WORD -> Bytes]
  BY Sizes DEF Entries
<1>2. a - entry[1] + 1 \in 1..WORD
  BY <1>1, Sizes DEF Covers
<1> QED
  BY <1>1, <1>2

LEMMA CoveringFacts ==
  ASSUME NEW journal \in Seq(Entries), NEW length \in 0..Len(journal), NEW a
  PROVE  /\ Covering(journal, length, a) \subseteq Nat
         /\ Covering(journal, length, a) \subseteq 1..Len(journal)
         /\ Covering(journal, Len(journal), a) = {}
<1>1. Len(journal) \in Nat
  OBVIOUS
<1> QED
  BY <1>1 DEF Covering

LEMMA UndoFacts ==
  ASSUME NEW heap, GoodHeap(heap), NEW journal, GoodJournal(journal, heap),
         NEW length \in 0..Len(journal), NEW a \in Nat
  PROVE  /\ Undo(journal, heap, length, a) \in Bytes
         /\ a >= Size \/ ~HasChunk(heap, a) => Undo(journal, heap, length, a) = 0
         /\ Undo(journal, heap, Len(journal), a) = ReadByte(heap, a)
<1> DEFINE C == Covering(journal, length, a)
<1>1. /\ journal \in Seq(Entries) /\ heap \in ChunkSeqs
      /\ \A i \in 1..Len(journal) : GoodEntry(journal[i], heap)
  BY DEF GoodJournal, GoodHeap
<1>2. C \subseteq Nat /\ C \subseteq 1..Len(journal)
  BY <1>1, CoveringFacts
<1>3. Undo(journal, heap, Len(journal), a) = ReadByte(heap, a)
  BY <1>1, CoveringFacts DEF Undo
<1>4. CASE C = {}
  <2>1. Undo(journal, heap, length, a) = ReadByte(heap, a)
    BY <1>4 DEF Undo
  <2>2. a >= Size \/ ~HasChunk(heap, a) => ReadByte(heap, a) = 0
    BY DEF GoodHeap, ReadByte, HasChunk
  <2> QED
    BY <1>1, <1>3, <2>1, <2>2, ReadByteType
<1>5. CASE C # {}
  <2> DEFINE m == Min(C)
             entry == journal[m]
  <2>1. m \in C
    <3> HIDE DEF C
    <3> QED
      BY <1>2, <1>5, MinIsLeast
  <2>2. Undo(journal, heap, length, a) = entry[2][a - entry[1] + 1]
    BY <1>5 DEF Undo
  <2>3. Covers(entry[1], a) /\ m \in 1..Len(journal)
    BY <1>2, <2>1 DEF Covering
  <2> HIDE DEF m
  <2>4. entry \in Entries /\ GoodEntry(entry, heap)
    BY <1>1, <2>3 DEF GoodEntry
  <2> HIDE DEF entry
  <2>5. HasChunk(heap, a) /\ (a >= Size => entry[2][a - entry[1] + 1] = 0)
    BY <2>3, <2>4 DEF GoodEntry
  <2> QED
    BY <1>3, <2>2, <2>3, <2>4, <2>5, EntryType
<1> QED
  BY <1>4, <1>5

\* The words recorded have what was there, and cover the byte if it changes.
Recorded(more, heap, after, a) ==
  /\ \A i \in 1..Len(more) : Covers(more[i][1], a) =>
       more[i][2][a - more[i][1] + 1] = ReadByte(heap, a)
  /\ (\A i \in 1..Len(more) : ~Covers(more[i][1], a)) =>
       ReadByte(after, a) = ReadByte(heap, a)

\* What is written after a snapshot does not change what undoing to it gives.
LEMMA UndoAppended ==
  ASSUME NEW journal \in Seq(Entries), NEW more \in Seq(Entries),
         NEW heap, NEW after, NEW length \in 0..Len(journal), NEW a \in Nat,
         Recorded(more, heap, after, a)
  PROVE  Undo(journal \o more, after, length, a) = Undo(journal, heap, length, a)
<1> DEFINE both == journal \o more
           n == Len(journal)
           C == Covering(journal, length, a)
           D == Covering(both, length, a)
<1>1. /\ n \in Nat /\ Len(more) \in Nat /\ both \in Seq(Entries)
      /\ Len(both) = n + Len(more)
      /\ \A i \in 1..(n + Len(more)) : both[i] = IF i <= n THEN journal[i] ELSE more[i - n]
  BY ConcatProperties
<1> HIDE DEF both
<1>2. /\ C \subseteq Nat /\ C \subseteq 1..n /\ D \subseteq Nat
      /\ D \subseteq 1..(n + Len(more))
  <2>1. length \in 0..Len(both)
    BY <1>1
  <2> QED
    BY <1>1, <2>1, CoveringFacts
<1>3. \A i \in 1..n : i \in D <=> i \in C
  BY <1>1 DEF Covering
<1>4. CASE C # {}
  <2> DEFINE m == Min(C)
  <2>1. m \in C /\ \A j \in C : m <= j
    <3> HIDE DEF C
    <3> QED
      BY <1>2, <1>4, MinIsLeast
  <2>2. m \in D /\ m \in 1..n
    BY <1>2, <1>3, <2>1
  <2>3. Min(D) \in D /\ \A j \in D : Min(D) <= j
    <3> HIDE DEF D, m
    <3> QED
      BY <1>2, <2>2, MinIsLeast
  <2>4. Min(D) = m
    <3> DEFINE k == Min(D)
    <3>1. k \in D /\ \A j \in D : k <= j
      BY <2>3
    <3> HIDE DEF m, k, C, D
    <3>2. k \in Nat /\ k <= m /\ m \in 1..n
      BY <1>2, <2>2, <3>1
    <3>3. k \in 1..n
      BY <1>1, <1>2, <3>1, <3>2
    <3>4. k \in C
      BY <1>3, <3>1, <3>3
    <3>5. m <= k
      BY <2>1, <3>4
    <3> QED
      BY <3>2, <3>5 DEF k
  <2>5. both[m] = journal[m]
    <3> HIDE DEF m
    <3> QED
      BY <1>1, <2>2
  <2>6. D # {} /\ Undo(both, after, length, a)
          = both[Min(D)][2][a - both[Min(D)][1] + 1]
    BY <2>2 DEF Undo
  <2>7. Undo(journal, heap, length, a) = journal[m][2][a - journal[m][1] + 1]
    BY <1>4 DEF Undo
  <2> QED
    BY <2>4, <2>5, <2>6, <2>7 DEF both
<1>5. CASE C = {}
  <2>1. Undo(journal, heap, length, a) = ReadByte(heap, a)
    BY <1>5 DEF Undo
  <2>2. CASE D = {}
    <3>1. ASSUME NEW i \in 1..Len(more)
          PROVE  ~Covers(more[i][1], a)
      <4> HIDE DEF n
      <4>1. /\ n + i \in 1..(n + Len(more)) /\ ~(n + i <= n) /\ (n + i) - n = i
            /\ n + i \in (length + 1)..Len(both)
        BY <1>1 DEF n
      <4>2. both[n + i] = more[i]
        BY <1>1, <4>1
      <4> QED
        BY <2>2, <4>1, <4>2 DEF Covering
    <3>2. Undo(both, after, length, a) = ReadByte(after, a)
      BY <2>2 DEF Undo
    <3> QED
      BY <2>1, <3>1, <3>2 DEF both, Recorded
  <2>3. CASE D # {}
    <3> DEFINE k == Min(D)
    <3>1. k \in D
      <4> HIDE DEF D
      <4> QED
        BY <1>2, <2>3, MinIsLeast
    <3>2. Covers(both[k][1], a)
      BY <3>1 DEF Covering
    <3>3. Undo(both, after, length, a) = both[k][2][a - both[k][1] + 1]
      BY <2>3 DEF Undo
    <3> HIDE DEF k
    <3>4. k \in 1..(n + Len(more)) /\ k \notin 1..n
      BY <1>2, <1>3, <1>5, <3>1
    <3>5. k - n \in 1..Len(more) /\ both[k] = more[k - n]
      BY <1>1, <3>4
    <3>6. more[k - n][2][a - more[k - n][1] + 1] = ReadByte(heap, a)
      BY <3>2, <3>5 DEF Recorded
    <3> QED
      BY <2>1, <3>3, <3>5, <3>6 DEF both
  <2> QED
    BY <2>2, <2>3
<1> QED
  BY <1>4, <1>5

-----------------------------------------------------------------------------
(* Which words are recorded *)

\* Words to record before bytes are written: they cover what is written, and
\* nothing outside of the chunks that are written to.
Records(words, start, bytes) ==
  /\ words \in Seq(Addresses)
  /\ \A i \in 1..Len(words), a \in Nat :
       Covers(words[i], a) => ChunkOf(a) \in Touched(start, bytes)
  /\ \A a \in Span(start, bytes) : \E i \in 1..Len(words) : Covers(words[i], a)

LEMMA StoreRecords ==
  ASSUME NEW start \in Starts, NEW word \in [1..WORD -> Bytes]
  PROVE  /\ word \in Seq(Bytes) /\ Len(word) = WORD
         /\ start \in Nat /\ start + Len(word) <= Size
         /\ Records(<< start >>, start, word)
<1>1. word \in Seq(Bytes) /\ Len(word) = WORD
  BY Sizes
<1>2. start \in Nat /\ start + WORD <= Size /\ start \in Addresses
  BY Sizes DEF Starts, Addresses
<1>3. \A a \in Int : Covers(start, a) <=> a \in Span(start, word)
  BY <1>1, <1>2, Sizes DEF Covers, Span
<1> DEFINE words == << start >>
<1>4. words \in Seq(Addresses) /\ Len(words) = 1 /\ words[1] = start
  BY <1>2
<1> HIDE DEF words
<1>5. ASSUME NEW i \in 1..Len(words), NEW a \in Nat, Covers(words[i], a)
      PROVE  ChunkOf(a) \in Touched(start, word)
  <2>1. words[i] = start
    BY <1>4
  <2>2. a \in Span(start, word)
    BY <1>3, <1>5, <2>1
  <2> QED
    BY <2>2 DEF Touched
<1>6. ASSUME NEW a \in Span(start, word)
      PROVE  \E i \in 1..Len(words) : Covers(words[i], a)
  <2>1. a \in Int
    BY DEF Span
  <2>2. Covers(words[1], a) /\ 1 \in 1..Len(words)
    BY <1>3, <1>4, <2>1
  <2> QED
    BY <2>2
<1>7. Records(words, start, word)
  BY <1>4, <1>5, <1>6 DEF Records
<1> QED
  BY <1>1, <1>2, <1>7 DEF words

\* Words are aligned in chunks: bytes of one word are in one chunk.
LEMMA WordInChunk ==
  ASSUME NEW a \in Nat, NEW b \in Nat, a \div WORD = b \div WORD
  PROVE  ChunkOf(a) = ChunkOf(b)
<1> DEFINE K == HEAP_CHUNK_SIZE \div WORD
           q == a \div WORD
           p == q \div K
           t == q % K
<1>1. K \in Nat /\ HEAP_CHUNK_SIZE = K * WORD + (HEAP_CHUNK_SIZE % WORD)
  BY Sizes, Quotient
<1> HIDE DEF K
<1>2. HEAP_CHUNK_SIZE = K * WORD
  <2>1. K * WORD \in Nat
    BY <1>1, Sizes, Products
  <2> QED
    BY <1>1, <2>1, Sizes
<1>3. K >= 1
  <2>1. CASE K = 0
    <3>1. K * WORD = 0
      BY <2>1, Sizes
    <3> QED
      BY <1>2, <3>1, Sizes
  <2> QED
    BY <1>1, <2>1
<1>4. q \in Nat
  BY Sizes, Quotient
<1>5. p \in Nat /\ t \in 0..(K - 1) /\ q = p * K + t
  <2> HIDE DEF q
  <2> QED
    BY <1>1, <1>3, <1>4, Quotient DEF p, t
<1> HIDE DEF p, t
<1>6. ASSUME NEW n \in Nat, n \div WORD = q
      PROVE  n \div HEAP_CHUNK_SIZE = p
  <2> DEFINE s == n % WORD
  <2>1. s \in 0..(WORD - 1) /\ n = q * WORD + s
    BY <1>6, Sizes, Quotient
  <2> HIDE DEF q, s
  <2>2. q * WORD = (p * K) * WORD + t * WORD
    BY <1>1, <1>5, Sizes, Products
  <2>3. (p * K) * WORD = p * HEAP_CHUNK_SIZE
    BY <1>1, <1>2, <1>5, Sizes, Products
  <2>4. /\ (t + 1) * WORD <= K * WORD /\ (t + 1) * WORD = t * WORD + WORD
        /\ t * WORD \in Nat /\ p * HEAP_CHUNK_SIZE \in Nat
    BY <1>1, <1>5, Sizes, Products
  <2> DEFINE u == t * WORD + s
  <2>5. u \in 0..(HEAP_CHUNK_SIZE - 1)
    BY <1>2, <2>1, <2>4, Sizes
  <2>6. n = p * HEAP_CHUNK_SIZE + u
    BY <2>1, <2>2, <2>3, <2>4
  <2> HIDE DEF u
  <2>7. \A q1 \in Nat, r1 \in 0..(HEAP_CHUNK_SIZE - 1) :
          n = q1 * HEAP_CHUNK_SIZE + r1 => n \div HEAP_CHUNK_SIZE = q1
    <3>1. HEAP_CHUNK_SIZE \in Nat /\ HEAP_CHUNK_SIZE >= 1
      BY Sizes
    <3>2. \A q1 \in Nat, r1 \in 0..(HEAP_CHUNK_SIZE - 1) :
            n = q1 * HEAP_CHUNK_SIZE + r1 =>
              n \div HEAP_CHUNK_SIZE = q1 /\ n % HEAP_CHUNK_SIZE = r1
      BY <3>1, Quotient, Zenon
    <3> QED
      BY <3>2, Zenon
  <2> QED
    BY <1>5, <2>5, <2>6, <2>7
<1>7. a \div HEAP_CHUNK_SIZE = b \div HEAP_CHUNK_SIZE
  BY <1>6
<1> QED
  BY <1>7 DEF ChunkOf

LEMMA StringRecords ==
  ASSUME NEW start \in Addresses, NEW bytes \in Seq(Bytes), start + Len(bytes) <= Size
  PROVE  Records(WordsOf(start, Len(bytes)), start, bytes)
<1> DEFINE len == Len(bytes)
           first == start \div WORD
           last == (start + len - 1) \div WORD
           words == WordsOf(start, len)
<1>1. start \in Nat /\ len \in Nat
  BY Sizes
<1>2. CASE len = 0
  <2>1. words = << >> /\ Span(start, bytes) = {}
    BY <1>1, <1>2 DEF WordsOf, Span
  <2>2. words \in Seq(Addresses) /\ Len(words) = 0
    BY <2>1
  <2> HIDE DEF words
  <2>3. 1..Len(words) = {}
    BY <2>2
  <2>4. Records(words, start, bytes)
    BY <2>1, <2>2, <2>3 DEF Records
  <2> QED
    BY <2>4 DEF words
<1>3. CASE len # 0
  <2> DEFINE n == last - first + 1
  <2>1. /\ start + len - 1 \in Nat /\ start <= start + len - 1
        /\ Span(start, bytes) = start..(start + len - 1)
    BY <1>1, <1>3 DEF Span
  <2>2. first \in Nat /\ last \in Nat /\ first <= last
    <3> DEFINE z == start + len - 1
    <3>1. z \in Nat /\ start <= z
      BY <2>1
    <3> HIDE DEF z
    <3>2. start \div WORD \in Nat /\ z \div WORD \in Nat
      BY <1>1, <3>1, Sizes, Quotient
    <3>3. start \div WORD <= z \div WORD
      BY <1>1, <3>1, Sizes, QuotientGrows
    <3> QED
      BY <3>2, <3>3 DEF z
  <2>3. words = [i \in 1..n |-> (first + i - 1) * WORD]
    BY <1>3 DEF WordsOf
  <2>4. /\ n \in Nat /\ DOMAIN words = 1..n
        /\ \A i \in 1..n : words[i] = (first + i - 1) * WORD
    BY <2>2, <2>3
  \* the word of number q
  <2>5. ASSUME NEW q \in first..last
        PROVE  /\ q * WORD \in Addresses
               /\ \A a \in Nat : Covers(q * WORD, a) <=> a \div WORD = q
               /\ \E b \in Span(start, bytes) : b \in Nat /\ b \div WORD = q
    <3>1. q \in Nat /\ q * WORD \in Nat
      BY <2>2, Sizes, Products
    <3>2. q * WORD <= last * WORD /\ last * WORD <= start + len - 1
      <4>1. q * WORD <= last * WORD
        BY <2>2, <3>1, Sizes, Products
      <4>2. /\ (start + len - 1) % WORD \in Nat /\ last * WORD \in Nat
            /\ start + len - 1 = last * WORD + ((start + len - 1) % WORD)
        <5> DEFINE z == start + len - 1
        <5>1. z \in Nat
          BY <2>1
        <5> HIDE DEF z
        <5>2. z % WORD \in 0..(WORD - 1) /\ z = (z \div WORD) * WORD + (z % WORD)
              /\ z \div WORD \in Nat
          BY <5>1, Sizes, Quotient
        <5>3. (z \div WORD) * WORD \in Nat
          BY <5>2, Sizes, Products
        <5> QED
          BY <5>2, <5>3 DEF z
      <4> QED
        BY <2>1, <4>1, <4>2
    <3>3. q * WORD \in Addresses
      BY <1>1, <3>1, <3>2, Sizes DEF Addresses
    <3>4. ASSUME NEW a \in Nat
          PROVE  Covers(q * WORD, a) <=> a \div WORD = q
      <4>1. /\ a = (a \div WORD) * WORD + (a % WORD) /\ a % WORD \in 0..(WORD - 1)
            /\ (a \div WORD) * WORD \in Nat
        BY Sizes, Quotient, Products
      <4>2. ASSUME Covers(q * WORD, a)
            PROVE  a \div WORD = q
        <5> DEFINE r == a - q * WORD
        <5>1. r \in 0..(WORD - 1) /\ a = q * WORD + r
          BY <3>1, <4>2 DEF Covers
        <5> HIDE DEF r
        <5> QED
          BY <3>1, <5>1, Sizes, Quotient
      <4>3. ASSUME a \div WORD = q
            PROVE  Covers(q * WORD, a)
        <5>1. a - q * WORD = a % WORD
          BY <3>1, <4>1, <4>3
        <5> QED
          BY <4>1, <5>1 DEF Covers
      <4> QED
        BY <4>2, <4>3
    <3>5. \E b \in Span(start, bytes) : b \in Nat /\ b \div WORD = q
      <4>1. CASE q = first
        BY <1>1, <2>1, <4>1
      <4>2. CASE q # first
        <5>1. (first + 1) * WORD <= q * WORD /\ (first + 1) * WORD = first * WORD + WORD
          BY <2>2, <3>1, <4>2, Sizes, Products
        <5>2. /\ start = first * WORD + (start % WORD) /\ start % WORD \in 0..(WORD - 1)
              /\ first * WORD \in Nat
          BY <1>1, <2>2, Sizes, Quotient, Products
        <5>3. start <= q * WORD
          BY <1>1, <3>1, <5>1, <5>2, Sizes
        <5>4. last * WORD \in Nat
          BY <2>2, Sizes, Products
        <5>5. q * WORD \in Span(start, bytes)
          BY <1>1, <2>1, <3>1, <3>2, <5>3, <5>4
        <5>6. Covers(q * WORD, q * WORD)
          BY <3>1, Sizes DEF Covers
        <5> QED
          BY <3>1, <3>4, <5>5, <5>6
      <4> QED
        BY <4>1, <4>2
    <3> QED
      BY <3>3, <3>4, <3>5
  <2> HIDE DEF words
  <2>6. \A i \in 1..n : first + i - 1 \in first..last
    BY <2>2
  <2>7. words \in Seq(Addresses) /\ Len(words) = n
    <3>1. \A i \in 1..n : words[i] \in Addresses
      BY <2>4, <2>5, <2>6
    <3>2. words = [i \in 1..n |-> words[i]]
      BY <2>3, <2>4
    <3> HIDE DEF n
    <3> QED
      BY <2>4, <3>1, <3>2
  <2>8. ASSUME NEW i \in 1..Len(words), NEW a \in Nat, Covers(words[i], a)
        PROVE  ChunkOf(a) \in Touched(start, bytes)
    <3> DEFINE q == first + i - 1
    <3>1. q \in first..last /\ words[i] = q * WORD
      BY <2>4, <2>6, <2>7
    <3> HIDE DEF q
    <3>2. a \div WORD = q
      BY <2>5, <2>8, <3>1
    <3>3. PICK b \in Span(start, bytes) : b \in Nat /\ b \div WORD = q
      BY <2>5, <3>1
    <3>4. ChunkOf(a) = ChunkOf(b)
      BY <3>2, <3>3, WordInChunk
    <3> QED
      BY <3>3, <3>4 DEF Touched
  <2>9. ASSUME NEW a \in Span(start, bytes)
        PROVE  \E i \in 1..Len(words) : Covers(words[i], a)
    <3> DEFINE q == a \div WORD
    <3>1. a \in Nat /\ start <= a /\ a <= start + len - 1
      BY <1>1, <2>1
    <3>2. q \in first..last
      <4>1. first <= q /\ q <= last /\ q \in Nat
        <5> DEFINE z == start + len - 1
        <5>1. z \in Nat /\ a <= z
          BY <2>1, <3>1
        <5> HIDE DEF z
        <5>2. a \div WORD \in Nat
          BY <3>1, Sizes, Quotient
        <5>3. start \div WORD <= a \div WORD
          BY <1>1, <3>1, Sizes, QuotientGrows
        <5>4. a \div WORD <= z \div WORD
          BY <3>1, <5>1, Sizes, QuotientGrows
        <5> QED
          BY <5>2, <5>3, <5>4 DEF z
      <4> QED
        BY <2>2, <4>1
    <3>3. Covers(q * WORD, a)
      BY <2>5, <3>1, <3>2
    <3> HIDE DEF q, first, last
    <3> DEFINE i == q - first + 1
    <3>4. i \in 1..n /\ first + i - 1 = q
      BY <2>2, <3>2
    <3>5. words[i] = q * WORD
      BY <2>4, <3>4
    <3> QED
      BY <2>7, <3>3, <3>4, <3>5
  <2>10. Records(words, start, bytes)
    BY <2>7, <2>8, <2>9 DEF Records
  <2> QED
    BY <2>10 DEF words
<1> QED
  BY <1>2, <1>3

-----------------------------------------------------------------------------
(* The invariant *)

IInv ==
  /\ FIRST \in DOMAIN heaps /\ DOMAIN heaps \subseteq Regions
  /\ heaps = [r \in DOMAIN heaps |-> heaps[r]]
  /\ \A r \in DOMAIN heaps : GoodHeap(heaps[r])
  /\ chunk_pool \in ZeroPools
  /\ GoodJournal(rollback_info, heaps[FIRST])
  /\ \/ snapshot = << >>
     \/ \E n \in 0..Len(rollback_info) : snapshot = << n >>

\* What zeroed memory sees of the heaps
memory == [r \in DOMAIN heaps |-> Contents(heaps[r])]
Saved(length) == [a \in Addresses |-> Undo(rollback_info, heaps[FIRST], length, a)]
saved == IF snapshot = << >> THEN << >> ELSE << Saved(snapshot[1]) >>

LEMMA UndoneByteIs ==
  ASSUME NEW length, NEW a
  PROVE  UndoneByte(length, a) = Undo(rollback_info, heaps[FIRST], length, a)
  BY DEF UndoneByte, Undo, Covering, Covers, Deciding

\* The mapping, in terms of memory and saved
LEMMA DenseOperations ==
  /\ Dense!Zeros = [a \in Addresses |-> 0]
  /\ Dense!Init <=> memory = [r \in {FIRST} |-> Dense!Zeros] /\ saved = << >>
                      /\ request = [op |-> "none"]
  /\ Dense!Save <=> saved' = << memory[FIRST] >> /\ memory' = memory
  /\ Dense!Restore <=>
       memory' = [memory EXCEPT ![FIRST] = saved[1]] /\ saved' = << >>
  /\ Dense!Commit <=> saved' = << >> /\ memory' = memory
  BY UndoneByteIs
  DEF Dense!Zeros, Dense!Init, Dense!Save, Dense!Restore, Dense!Commit, memory, saved, Saved, UndoneByte,
      Undo, Covering, Covers, Deciding

\* What a region reads after a write
WrittenTo(region, start, bytes) ==
  [a \in Addresses |->
     IF a \in start..(start + Len(bytes) - 1) THEN bytes[a - start + 1] ELSE region[a]]

LEMMA DenseWrite ==
  ASSUME NEW r, NEW start, NEW bytes,
         memory' = [memory EXCEPT ![r] = WrittenTo(memory[r], start, bytes)],
         saved' = saved
  PROVE  Dense!Write(r, start, bytes)
<1>1. memory' = [memory EXCEPT ![r] =
                  [a \in Addresses |->
                     IF a \in start..(start + Len(bytes) - 1)
                     THEN bytes[a - start + 1] ELSE memory[r][a]]]
  BY Zenon DEF WrittenTo
<1>2. Dense!Write(r, start, bytes) <=>
       /\ memory' = [memory EXCEPT ![r] =
                       [a \in Addresses |->
                          IF a \in start..(start + Len(bytes) - 1)
                          THEN bytes[a - start + 1] ELSE memory[r][a]]]
       /\ saved' = saved
  BY UndoneByteIs
  DEF Dense!Write, memory, saved, Saved, UndoneByte, Undo, Covering, Covers, Deciding
<1> QED
  BY <1>1, <1>2

LEMMA DenseObtain ==
  ASSUME NEW r, r \notin DOMAIN heaps, saved' = saved,
         memory' = [q \in DOMAIN memory \cup {r} |->
                     IF q = r THEN Dense!Zeros ELSE memory[q]]
  PROVE  Dense!Obtain(r)
  BY UndoneByteIs
  DEF Dense!Obtain, memory, saved, Saved, UndoneByte, Undo, Covering, Covers, Deciding

LEMMA DenseRelease ==
  ASSUME NEW r, r \in DOMAIN heaps \ {FIRST}, saved' = saved,
         memory' = [q \in DOMAIN memory \ {r} |-> memory[q]]
  PROVE  Dense!Release(r)
  BY UndoneByteIs
  DEF Dense!Release, memory, saved, Saved, UndoneByte, Undo, Covering, Covers, Deciding

LEMMA DenseShrink ==
  ASSUME NEW r, NEW window, NEW lost, lost \subseteq Addresses \ window,
         saved' = saved,
         memory' = [memory EXCEPT ![r] =
                     [a \in Addresses |-> IF a \in lost THEN 0 ELSE memory[r][a]]]
  PROVE  Dense!Shrink(r, window)
<1>1. Dense!Shrink(r, window) <=>
       /\ \E other \in SUBSET (Addresses \ window) :
            memory' = [memory EXCEPT ![r] =
                         [a \in Addresses |-> IF a \in other THEN 0 ELSE memory[r][a]]]
       /\ saved' = saved
  BY UndoneByteIs
  DEF Dense!Shrink, memory, saved, Saved, UndoneByte, Undo, Covering, Covers, Deciding
<1>2. lost \in SUBSET (Addresses \ window)
  OBVIOUS
<1> QED
  BY <1>1, <1>2

LEMMA DenseStep ==
  /\ request'.op = "obtain" /\ Dense!Obtain(request'.region) => Dense!Next
  /\ request'.op = "release" /\ Dense!Release(request'.region) => Dense!Next
  /\ request'.op = "write"
       /\ Dense!Write(request'.region, request'.start, request'.bytes) => Dense!Next
  /\ request'.op = "shrink"
       /\ Dense!Shrink(request'.region, request'.window) => Dense!Next
  /\ request'.op = "save" /\ Dense!Save => Dense!Next
  /\ request'.op = "restore" /\ Dense!Restore => Dense!Next
  /\ request'.op = "commit" /\ Dense!Commit => Dense!Next
  BY DEF Dense!Next

LEMMA InitIInv == Init => IInv
<1> SUFFICES ASSUME Init PROVE IInv
  OBVIOUS
<1>1. /\ DOMAIN heaps = {FIRST} /\ heaps[FIRST] = << >>
      /\ heaps = [r \in DOMAIN heaps |-> heaps[r]]
  BY DEF Init
<1>2. rollback_info = << >> /\ chunk_pool = << >> /\ snapshot = << >>
  BY DEF Init
<1>3. GoodJournal(rollback_info, heaps[FIRST])
  BY <1>2 DEF GoodJournal
<1>4. chunk_pool \in ZeroPools
  BY <1>2 DEF ZeroPools
<1> QED
  BY <1>1, <1>2, <1>3, <1>4, EmptyHeapGood DEF IInv, Regions

LEMMA InitRefines == Init => Dense!Init
<1> SUFFICES ASSUME Init PROVE Dense!Init
  OBVIOUS
<1>1. DOMAIN heaps = {FIRST} /\ heaps[FIRST] = << >>
  BY DEF Init
<1>2. \A a \in Addresses : ReadByte(<< >>, a) = 0
  BY EmptyHeapGood, Sizes
<1>3. Contents(heaps[FIRST]) = Dense!Zeros
  BY <1>1, <1>2, DenseOperations DEF Contents
<1>4. memory = [r \in {FIRST} |-> Dense!Zeros]
  BY <1>1, <1>3 DEF memory
<1> QED
  BY <1>4, DenseOperations DEF Init, saved

LEMMA WordAtIs ==
  ASSUME heaps[FIRST] \in ChunkSeqs, NEW address \in Addresses
  PROVE  /\ WordAt(address) \in Entries /\ WordAt(address)[1] = address
         /\ \A a \in Nat : Covers(address, a) =>
              WordAt(address)[2][a - address + 1] = ReadByte(heaps[FIRST], a)
<1> DEFINE word == Read(heaps[FIRST], address, WORD)
<1>1. address \in Nat
  BY Sizes
<1>2. word = [i \in 1..WORD |-> ReadByte(heaps[FIRST], address + i - 1)]
  BY DEF Read
<1>3. word \in [1..WORD -> Bytes]
  <2>1. \A i \in 1..WORD : address + i - 1 \in Nat
    BY <1>1, Sizes
  <2> QED
    BY <1>2, <2>1, ReadByteType
<1>4. ASSUME NEW a \in Nat, Covers(address, a)
      PROVE  word[a - address + 1] = ReadByte(heaps[FIRST], a)
  <2>1. a - address + 1 \in 1..WORD /\ address + (a - address + 1) - 1 = a
    BY <1>1, <1>4, Sizes DEF Covers
  <2> QED
    BY <1>2, <2>1
<1> HIDE DEF word
<1>5. WordAt(address) = << address, word >>
  BY DEF WordAt, word
<1> QED
  BY <1>3, <1>4, <1>5 DEF Entries

\* A write to any heap, with the words it records
LEMMA Writing ==
  ASSUME IInv, NEW r \in DOMAIN heaps, NEW start \in Nat, NEW bytes \in Seq(Bytes),
         start + Len(bytes) <= Size, NEW words, Records(words, start, bytes),
         Update(r, WriteFrom(With(r), start, bytes)),
         Record(r, [i \in DOMAIN words |-> WordAt(words[i])]),
         UNCHANGED snapshot
  PROVE  IInv' /\ Dense!Write(r, start, bytes)
<1> DEFINE w == WriteFrom(With(r), start, bytes)
           heap == w.heap
           more == [i \in DOMAIN words |-> WordAt(words[i])]
           first == heaps[FIRST]
<1>1. /\ GoodHeap(heaps[r]) /\ GoodHeap(first) /\ chunk_pool \in ZeroPools
      /\ first \in ChunkSeqs /\ GoodJournal(rollback_info, first)
      /\ rollback_info \in Seq(Entries)
  BY DEF IInv, GoodHeap, GoodJournal
<1>2. WriteDone(With(r), start, bytes)
  BY <1>1, WriteFromGood DEF With
<1>3. /\ GoodHeap(heap) /\ w.pool \in ZeroPools
      /\ \A a \in Nat :
           ReadByte(heap, a) = IF a \in Span(start, bytes) THEN bytes[a - start + 1]
                               ELSE ReadByte(heaps[r], a)
      /\ \A a \in Nat : HasChunk(heaps[r], a) \/ ChunkOf(a) \in Touched(start, bytes) =>
                          HasChunk(heap, a)
  BY <1>2 DEF WriteDone, With
<1>4. heaps' = [heaps EXCEPT ![r] = heap] /\ chunk_pool' = w.pool
  BY DEF Update
<1> HIDE DEF w, heap
<1>5. /\ words \in Seq(Addresses) /\ DOMAIN words = 1..Len(words)
      /\ \A i \in 1..Len(words) : words[i] \in Addresses
      /\ \A i \in 1..Len(words), a \in Nat :
           Covers(words[i], a) => ChunkOf(a) \in Touched(start, bytes)
      /\ \A a \in Span(start, bytes) : \E i \in 1..Len(words) : Covers(words[i], a)
  BY DEF Records
<1>6. /\ more \in Seq(Entries) /\ Len(more) = Len(words)
      /\ \A i \in 1..Len(words) : more[i] \in Entries /\ more[i][1] = words[i]
      /\ \A i \in 1..Len(words), a \in Nat : Covers(words[i], a) =>
           more[i][2][a - words[i] + 1] = ReadByte(first, a)
  <2>1. ASSUME NEW i \in 1..Len(words)
        PROVE  /\ more[i] \in Entries /\ more[i][1] = words[i]
               /\ \A a \in Nat : Covers(words[i], a) =>
                    more[i][2][a - words[i] + 1] = ReadByte(first, a)
    <3>1. more[i] = WordAt(words[i])
      BY <1>5
    <3> QED
      BY <1>1, <1>5, <3>1, WordAtIs
  <2>2. more = [i \in 1..Len(words) |-> more[i]] /\ Len(words) \in Nat
    BY <1>5
  <2> HIDE DEF more
  <2> QED
    BY <2>1, <2>2
<1>7. rollback_info' = IF r = FIRST THEN rollback_info \o more ELSE rollback_info
  BY DEF Record
<1> HIDE DEF more, first
<1>8. /\ FIRST \in DOMAIN heaps' /\ DOMAIN heaps' = DOMAIN heaps
      /\ heaps' = [q \in DOMAIN heaps' |-> heaps'[q]]
      /\ \A q \in DOMAIN heaps : heaps'[q] = IF q = r THEN heap ELSE heaps[q]
  BY <1>4 DEF IInv
<1>9. /\ GoodJournal(rollback_info', heaps'[FIRST])
      /\ Len(rollback_info) \in Nat /\ Len(rollback_info') \in Nat
      /\ Len(rollback_info) <= Len(rollback_info')
  <2>1. CASE r # FIRST
    BY <1>1, <1>7, <1>8, <2>1 DEF IInv, first
  <2>2. CASE r = FIRST
    <3> DEFINE n == Len(rollback_info)
               both == rollback_info \o more
    <3>1. /\ both \in Seq(Entries) /\ Len(both) = n + Len(more)
          /\ n \in Nat /\ Len(more) \in Nat
          /\ \A i \in 1..(n + Len(more)) :
               both[i] = IF i <= n THEN rollback_info[i] ELSE more[i - n]
      <4>1. rollback_info \in Seq(Entries) /\ more \in Seq(Entries)
        BY <1>1, <1>6
      <4> QED
        BY <4>1, ConcatProperties
    <3>2. heaps'[FIRST] = heap /\ rollback_info' = both /\ heaps[r] = first
      BY <1>7, <1>8, <2>2 DEF first
    <3> HIDE DEF both, n
    <3>3. ASSUME NEW i \in 1..(n + Len(more))
          PROVE  GoodEntry(both[i], heap)
      <4>1. CASE i <= n
        <5>1. both[i] = rollback_info[i] /\ i \in 1..n
          BY <3>1, <4>1
        <5>2. GoodEntry(rollback_info[i], first)
          BY <1>1, <5>1 DEF GoodJournal, n
        <5> QED
          BY <1>3, <3>2, <5>1, <5>2 DEF GoodEntry
      <4>2. CASE ~(i <= n)
        <5> DEFINE j == i - n
        <5>1. both[i] = more[j] /\ j \in 1..Len(words)
          <6>1. Len(more) = Len(words)
            BY <1>6
          <6>2. both[i] = more[j] /\ j \in 1..Len(more)
            BY <3>1, <4>2
          <6> QED
            BY <6>1, <6>2
        <5> HIDE DEF j
        <5>2. more[j] \in Entries /\ more[j][1] = words[j]
          BY <1>6, <5>1
        <5>3. ASSUME NEW a \in Nat, Covers(more[j][1], a)
              PROVE  /\ HasChunk(heap, a)
                     /\ a >= Size => more[j][2][a - more[j][1] + 1] = 0
          <6>1. HasChunk(heap, a)
            BY <1>3, <1>5, <5>1, <5>2, <5>3
          <6>2. more[j][2][a - more[j][1] + 1] = ReadByte(first, a)
            BY <1>6, <5>1, <5>2, <5>3
          <6> QED
            BY <1>1, <6>1, <6>2 DEF GoodHeap
        <5> QED
          BY <5>1, <5>2, <5>3 DEF GoodEntry
      <4> QED
        BY <4>1, <4>2
    <3> QED
      BY <3>1, <3>2, <3>3 DEF GoodJournal, n
  <2> QED
    BY <2>1, <2>2
<1>10. IInv'
  <2>1. \A q \in DOMAIN heaps' : GoodHeap(heaps'[q])
    BY <1>3, <1>8 DEF IInv
  <2>2. snapshot' = << >> \/ \E n \in 0..Len(rollback_info') : snapshot' = << n >>
    BY <1>9 DEF IInv
  <2>3. chunk_pool' \in ZeroPools
    BY <1>3, <1>4
  <2> QED
    BY <1>8, <1>9, <2>1, <2>2, <2>3 DEF IInv
<1>11. ASSUME NEW length \in 0..Len(rollback_info), NEW a \in Addresses
       PROVE  Undo(rollback_info', heaps'[FIRST], length, a)
                = Undo(rollback_info, first, length, a)
  <2>1. CASE r # FIRST
    BY <1>7, <1>8, <2>1 DEF IInv, first
  <2>2. CASE r = FIRST
    <3>1. heaps'[FIRST] = heap /\ rollback_info' = rollback_info \o more /\ heaps[r] = first
      BY <1>7, <1>8, <2>2 DEF first
    <3>2. a \in Nat
      BY Sizes
    <3>3. \A i \in 1..Len(more) : Covers(more[i][1], a) =>
            more[i][2][a - more[i][1] + 1] = ReadByte(first, a)
      BY <1>6, <3>2
    <3>4. (\A i \in 1..Len(more) : ~Covers(more[i][1], a)) =>
            ReadByte(heap, a) = ReadByte(first, a)
      BY <1>3, <1>5, <1>6, <3>1, <3>2
    <3>5. Undo(rollback_info \o more, heap, length, a) = Undo(rollback_info, first, length, a)
      <4>1. rollback_info \in Seq(Entries) /\ more \in Seq(Entries)
        BY <1>1, <1>6
      <4>2. Recorded(more, first, heap, a)
        BY <3>3, <3>4 DEF Recorded
      <4> QED
        BY <3>2, <4>1, <4>2, UndoAppended
    <3> QED
      BY <3>1, <3>5
  <2> QED
    BY <2>1, <2>2
<1>12. saved' = saved
  <2>1. CASE snapshot = << >>
    BY <2>1 DEF saved
  <2>2. CASE snapshot # << >>
    <3>1. PICK n \in 0..Len(rollback_info) : snapshot = << n >>
      BY <2>2 DEF IInv
    <3>2. snapshot[1] = n /\ snapshot'[1] = n
      BY <3>1
    <3>3. Saved(n)' = Saved(n)
      BY <1>11 DEF Saved, first
    <3> QED
      BY <2>2, <3>2, <3>3 DEF saved, Saved
  <2> QED
    BY <2>1, <2>2
<1>13. memory' = [memory EXCEPT ![r] = WrittenTo(memory[r], start, bytes)]
  <2> DEFINE written == WrittenTo(memory[r], start, bytes)
  <2>1. memory[r] = [a \in Addresses |-> ReadByte(heaps[r], a)]
    BY DEF memory, Contents
  <2>2. Contents(heap) = written
    BY <1>3, <2>1, Sizes DEF Contents, Span, WrittenTo
  <2>3. memory' = [q \in DOMAIN heaps' |-> Contents(heaps'[q])]
    BY DEF memory, Contents, ReadByte, ChunkAt
  <2>4. DOMAIN memory = DOMAIN heaps /\ \A q \in DOMAIN heaps : memory[q] = Contents(heaps[q])
    BY DEF memory
  <2> HIDE DEF written
  <2>5. memory = [q \in DOMAIN heaps |-> memory[q]]
    BY <2>4 DEF memory
  <2>6. memory' = [q \in DOMAIN heaps |-> IF q = r THEN written ELSE memory[q]]
    BY <1>8, <2>2, <2>3, <2>4
  <2>7. memory' = [memory EXCEPT ![r] = written]
    BY <2>5, <2>6
  <2> QED
    BY <2>7 DEF written
<1>14. Dense!Write(r, start, bytes)
  BY <1>12, <1>13, DenseWrite
<1> QED
  BY <1>10, <1>14

LEMMA WriteU256Step ==
  ASSUME IInv, NEW r \in Regions, NEW start \in Starts, NEW word \in Words,
         WriteU256(r, start, word)
  PROVE  IInv' /\ Dense!Next
<1> DEFINE words == << start >>
<1>1. /\ word \in Seq(Bytes) /\ start \in Nat /\ start + Len(word) <= Size
      /\ Records(words, start, word)
  BY StoreRecords, Sizes
<1>2. << WordAt(start) >> = [i \in DOMAIN words |-> WordAt(words[i])]
  <2>1. DOMAIN words = {1} /\ words[1] = start
    OBVIOUS
  <2> DEFINE one == << WordAt(start) >>
  <2>2. one = [i \in {1} |-> WordAt(start)]
    OBVIOUS
  <2> HIDE DEF words
  <2> QED
    BY <2>1, <2>2
<1> HIDE DEF words
<1>3. /\ r \in DOMAIN heaps /\ Record(r, [i \in DOMAIN words |-> WordAt(words[i])])
      /\ Update(r, WriteFrom(With(r), start, word)) /\ UNCHANGED snapshot
  BY <1>2 DEF WriteU256
<1>4. IInv' /\ Dense!Write(r, start, word)
  BY <1>1, <1>3, Writing
<1>5. /\ request'.op = "write" /\ request'.region = r /\ request'.start = start
      /\ request'.bytes = word
  BY DEF WriteU256
<1> QED
  BY <1>4, <1>5, DenseStep

LEMMA WriteBytesStep ==
  ASSUME IInv, NEW r \in Regions, NEW start \in Addresses, NEW bytes \in Strings,
         start + Len(bytes) <= Size, WriteBytes(r, start, bytes)
  PROVE  IInv' /\ Dense!Next
<1> DEFINE words == WordsOf(start, Len(bytes))
<1>1. bytes \in Seq(Bytes) /\ start \in Nat
  BY Sizes
<1>2. Records(words, start, bytes)
  BY <1>1, StringRecords
<1>3. /\ r \in DOMAIN heaps /\ Record(r, [i \in DOMAIN words |-> WordAt(words[i])])
      /\ Update(r, WriteFrom(With(r), start, bytes)) /\ UNCHANGED snapshot
  BY DEF WriteBytes
<1> HIDE DEF words
<1>4. IInv' /\ Dense!Write(r, start, bytes)
  BY <1>1, <1>2, <1>3, Writing
<1>5. /\ request'.op = "write" /\ request'.region = r /\ request'.start = start
      /\ request'.bytes = bytes
  BY DEF WriteBytes
<1> QED
  BY <1>4, <1>5, DenseStep

\* What the host can have back depends on the first heap and its journal only.
LEMMA FirstUntouched ==
  ASSUME heaps'[FIRST] = heaps[FIRST], rollback_info' = rollback_info,
         snapshot' = snapshot
  PROVE  saved' = saved
<1>1. \A n : Saved(n)' = Saved(n)
  BY DEF Saved, Undo, Covering
<1> QED
  BY <1>1 DEF saved, Saved

LEMMA MemoryIs ==
  /\ DOMAIN memory = DOMAIN heaps
  /\ \A q \in DOMAIN heaps : memory[q] = Contents(heaps[q])
  /\ memory = [q \in DOMAIN heaps |-> memory[q]]
  /\ memory' = [q \in DOMAIN heaps' |-> Contents(heaps'[q])]
<1>1. DOMAIN memory = DOMAIN heaps /\ \A q \in DOMAIN heaps : memory[q] = Contents(heaps[q])
  BY DEF memory
<1>2. memory = [q \in DOMAIN heaps |-> memory[q]]
  BY <1>1 DEF memory
<1>3. memory' = [q \in DOMAIN heaps' |-> Contents(heaps'[q])]
  BY DEF memory, Contents, ReadByte, ChunkAt
<1> QED
  BY <1>1, <1>2, <1>3

LEMMA AllocateAtStep ==
  ASSUME IInv, NEW r \in Regions, AllocateAt(r)
  PROVE  IInv' /\ Dense!Next
<1>1. /\ r \notin DOMAIN heaps /\ FIRST \in DOMAIN heaps
      /\ heaps' = [q \in DOMAIN heaps \cup {r} |-> IF q = r THEN << >> ELSE heaps[q]]
      /\ UNCHANGED << chunk_pool, rollback_info, snapshot >>
  BY DEF AllocateAt, IInv
<1>2. /\ DOMAIN heaps' = DOMAIN heaps \cup {r} /\ heaps'[r] = << >>
      /\ \A q \in DOMAIN heaps : heaps'[q] = heaps[q] /\ q # r
      /\ heaps' = [q \in DOMAIN heaps' |-> heaps'[q]]
  BY <1>1
<1>3. IInv'
  <2>1. \A q \in DOMAIN heaps' : GoodHeap(heaps'[q])
    BY <1>2, EmptyHeapGood DEF IInv
  <2> QED
    BY <1>1, <1>2, <2>1 DEF IInv
<1>4. saved' = saved
  BY <1>1, <1>2, FirstUntouched
<1>5. Contents(<< >>) = Dense!Zeros
  <2>1. \A a \in Addresses : ReadByte(<< >>, a) = 0
    BY EmptyHeapGood, Sizes
  <2> QED
    BY <2>1, DenseOperations DEF Contents
<1>6. memory' = [q \in DOMAIN memory \cup {r} |->
                   IF q = r THEN Dense!Zeros ELSE memory[q]]
  <2>1. \A q \in DOMAIN heaps' :
          Contents(heaps'[q]) = IF q = r THEN Dense!Zeros ELSE memory[q]
    BY <1>2, <1>5, MemoryIs
  <2> QED
    BY <1>2, <2>1, MemoryIs
<1>7. request'.op = "obtain" /\ request'.region = r
  BY DEF AllocateAt
<1>8. Dense!Obtain(r)
  BY <1>1, <1>4, <1>6, DenseObtain
<1> QED
  BY <1>3, <1>7, <1>8, DenseStep

LEMMA DeallocateAtStep ==
  ASSUME IInv, NEW r \in Regions, DeallocateAt(r)
  PROVE  IInv' /\ Dense!Next
<1>1. /\ r \in DOMAIN heaps \ {FIRST} /\ FIRST \in DOMAIN heaps
      /\ heaps' = [q \in DOMAIN heaps \ {r} |-> heaps[q]]
      /\ chunk_pool' = Recycle(chunk_pool, heaps[r], DOMAIN heaps[r])
      /\ UNCHANGED << rollback_info, snapshot >>
  BY DEF DeallocateAt, IInv
<1>2. /\ DOMAIN heaps' = DOMAIN heaps \ {r}
      /\ \A q \in DOMAIN heaps' : heaps'[q] = heaps[q]
      /\ heaps' = [q \in DOMAIN heaps' |-> heaps'[q]]
  BY <1>1
<1>3. chunk_pool' \in ZeroPools
  <2>1. heaps[r] \in ChunkSeqs /\ chunk_pool \in ZeroPools
    BY <1>1 DEF IInv, GoodHeap
  <2>2. DOMAIN heaps[r] \subseteq 1..Len(heaps[r])
    BY <2>1 DEF ChunkSeqs
  <2> QED
    BY <1>1, <2>1, <2>2, RecycleGood
<1>4. IInv'
  BY <1>1, <1>2, <1>3 DEF IInv
<1>5. saved' = saved
  BY <1>1, <1>2, FirstUntouched
<1>6. memory' = [q \in DOMAIN memory \ {r} |-> memory[q]]
  <2>1. \A q \in DOMAIN heaps' : Contents(heaps'[q]) = memory[q]
    BY <1>2, MemoryIs
  <2> QED
    BY <1>2, <2>1, MemoryIs
<1>7. request'.op = "release" /\ request'.region = r
  BY DEF DeallocateAt
<1>8. Dense!Release(r)
  BY <1>1, <1>5, <1>6, DenseRelease
<1> QED
  BY <1>4, <1>7, <1>8, DenseStep

LEMMA CompactToWindowStep ==
  ASSUME IInv, NEW r \in Regions, NEW range \in Ranges,
         CompactToWindow(r, range[1], range[2])
  PROVE  IInv' /\ Dense!Next
<1> DEFINE start == range[1]
           length == range[2]
           end == start + length
           w == RetainWindow(With(r), start, end)
           heap == w.heap
           window == start..(end - 1)
<1>1. start \in Nat /\ length \in Nat /\ end \in Nat
  <2>1. range[1] \in Addresses /\ range[2] \in 0..Size
    BY DEF Ranges
  <2>2. range[1] \in Nat /\ range[2] \in Nat
    <3>1. Addresses \subseteq Nat /\ 0..Size \subseteq Nat
      BY Sizes
    <3> QED
      BY <2>1, <3>1, Zenon
  <2> HIDE DEF start, length
  <2>3. start \in Nat /\ length \in Nat
    BY <2>2 DEF start, length
  <2> QED
    BY <2>3
<1>2. /\ r \in DOMAIN heaps \ {FIRST} /\ FIRST \in DOMAIN heaps
      /\ heaps' = [heaps EXCEPT ![r] = heap] /\ chunk_pool' = w.pool
      /\ UNCHANGED << rollback_info, snapshot >>
  BY DEF CompactToWindow, Update, IInv
<1>3. request'.op = "shrink" /\ request'.region = r /\ request'.window = window
  <2>1. /\ request'.op = "shrink" /\ request'.region = r
        /\ request'.window = range[1]..(range[1] + range[2] - 1)
    BY DEF CompactToWindow
  <2>2. range[1] + range[2] - 1 = end - 1
    BY <1>1
  <2> QED
    BY <2>1, <2>2
<1> HIDE DEF start, length
<1>4. WindowKept(With(r), start, end)
  <2>1. GoodHeap(With(r).heap) /\ With(r).pool \in ZeroPools
    BY <1>2 DEF IInv, With
  <2> HIDE DEF end
  <2> QED
    BY <1>1, <2>1, RetainWindowGood
<1>5. /\ GoodHeap(heap) /\ w.pool \in ZeroPools
      /\ \A a \in Nat : /\ ReadByte(heap, a) \in {ReadByte(heaps[r], a), 0}
                        /\ a \in window => ReadByte(heap, a) = ReadByte(heaps[r], a)
  <2>1. With(r).heap = heaps[r]
    BY DEF With
  <2>2. /\ GoodHeap(w.heap) /\ w.pool \in ZeroPools
        /\ \A a \in Nat :
             /\ ReadByte(w.heap, a) \in {ReadByte(With(r).heap, a), 0}
             /\ a \in start..(end - 1) => ReadByte(w.heap, a) = ReadByte(With(r).heap, a)
    BY <1>4, Zenon DEF WindowKept
  <2> HIDE DEF w, end
  <2> QED
    BY <2>1, <2>2
<1> HIDE DEF w, heap, window
<1>6. /\ DOMAIN heaps' = DOMAIN heaps /\ heaps'[r] = heap
      /\ \A q \in DOMAIN heaps : heaps'[q] = IF q = r THEN heap ELSE heaps[q]
      /\ heaps' = [q \in DOMAIN heaps' |-> heaps'[q]]
  BY <1>2 DEF IInv
<1>7. IInv'
  <2>1. \A q \in DOMAIN heaps' : GoodHeap(heaps'[q])
    BY <1>5, <1>6 DEF IInv
  <2> QED
    BY <1>2, <1>5, <1>6, <2>1 DEF IInv
<1>8. saved' = saved
  BY <1>2, <1>6, FirstUntouched
<1> DEFINE lost == {a \in Addresses : ReadByte(heap, a) # ReadByte(heaps[r], a)}
           left == [a \in Addresses |-> IF a \in lost THEN 0 ELSE memory[r][a]]
<1>9. lost \subseteq Addresses \ window
  BY <1>5, Sizes
<1>10. Contents(heap) = left
  <2>1. memory[r] = [a \in Addresses |-> ReadByte(heaps[r], a)]
    BY <1>2, MemoryIs DEF Contents
  <2>2. ASSUME NEW a \in Addresses
        PROVE  ReadByte(heap, a) = IF a \in lost THEN 0 ELSE memory[r][a]
    BY <1>5, <2>1, Sizes
  <2> HIDE DEF lost
  <2> QED
    BY <2>2 DEF Contents
<1> HIDE DEF lost
<1>11. memory' = [memory EXCEPT ![r] = left]
  <2> HIDE DEF left
  <2>1. memory' = [q \in DOMAIN heaps |-> IF q = r THEN left ELSE memory[q]]
    BY <1>6, <1>10, MemoryIs
  <2>2. memory = [q \in DOMAIN heaps |-> memory[q]]
    BY MemoryIs
  <2> QED
    BY <2>1, <2>2
<1>12. Dense!Shrink(r, window)
  BY <1>8, <1>9, <1>11, DenseShrink
<1> QED
  BY <1>3, <1>7, <1>12, DenseStep

\* Undoing gives every byte what the oldest entry since the snapshot has.
LEMMA UndoneGood ==
  ASSUME IInv, NEW length \in 0..Len(rollback_info)
  PROVE  /\ GoodHeap(Undone(length))
         /\ Contents(Undone(length)) = Saved(length)
<1> DEFINE first == heaps[FIRST]
           U(a) == Undo(rollback_info, first, length, a)
           chunk(idx) == [i \in 1..HEAP_CHUNK_SIZE |-> U(Place(idx, i))]
           heap == [idx \in DOMAIN first |->
                      IF first[idx] = << >> THEN << >> ELSE << chunk(idx) >>]
<1>1. /\ GoodHeap(first) /\ first \in ChunkSeqs /\ GoodJournal(rollback_info, first)
      /\ DOMAIN first = 1..Len(first) /\ Len(first) \in Nat
  BY DEF IInv, GoodHeap, ChunkSeqs
<1>2. Undone(length) = heap
  BY UndoneByteIs DEF Undone, Place
<1>3. ASSUME NEW a \in Nat
      PROVE  U(a) \in Bytes /\ (a >= Size \/ ~HasChunk(first, a) => U(a) = 0)
  BY <1>1, UndoFacts
<1> HIDE DEF U
<1>4. ASSUME NEW idx \in 1..Len(first)
      PROVE  chunk(idx) \in Chunk
  <2>1. \A i \in 1..HEAP_CHUNK_SIZE : Place(idx, i) \in Nat
    BY <1>1, PlaceParts
  <2>2. \A i \in 1..HEAP_CHUNK_SIZE : U(Place(idx, i)) \in Bytes
    BY <1>3, <2>1
  <2> HIDE DEF Place
  <2> QED
    BY <2>2 DEF Chunk
<1>5. heap \in ChunkSeqs
  <2>1. ASSUME NEW idx \in 1..Len(first)
        PROVE  heap[idx] \in {<< >>} \cup Present
    <3>1. << chunk(idx) >> \in Present
      BY <1>4 DEF Present
    <3> HIDE DEF chunk
    <3>2. heap[idx] \in {<< >>, << chunk(idx) >>}
      BY <1>1
    <3> QED
      BY <3>1, <3>2
  <2>2. heap = [idx \in 1..Len(first) |-> heap[idx]]
    BY <1>1
  <2> HIDE DEF heap
  <2> DEFINE n == Len(first)
  <2>3. n \in Nat /\ heap = [idx \in 1..n |-> heap[idx]]
        /\ \A idx \in 1..n : heap[idx] \in {<< >>} \cup Present
    BY <1>1, <2>1, <2>2
  <2> HIDE DEF n
  <2> QED
    BY <2>3 DEF ChunkSeqs
<1>6. ASSUME NEW a \in Nat
      PROVE  ReadByte(heap, a) = U(a)
  <2> DEFINE idx == ChunkOf(a)
             i == InChunk(a)
  <2>1. idx \in Nat /\ i \in 1..HEAP_CHUNK_SIZE /\ Place(idx, i) = a
    BY AddressParts
  <2> HIDE DEF idx, i
  <2>2. CASE HasChunk(first, a)
    <3>1. /\ idx \in 1..Len(first) /\ first[idx] # << >>
      BY <1>1, <2>2, ChunkAtType DEF HasChunk, idx
    <3>2. heap[idx] = << chunk(idx) >> /\ idx \in DOMAIN heap
      BY <1>1, <3>1
    <3>3. chunk(idx)[i] = U(a)
      BY <2>1
    <3> HIDE DEF heap, chunk
    <3>4. ChunkAt(heap, idx) = << chunk(idx) >>
      BY <3>2 DEF ChunkAt
    <3> QED
      BY <3>3, <3>4 DEF ReadByte, idx, i
  <2>3. CASE ~HasChunk(first, a)
    <3>1. ChunkAt(first, idx) = << >>
      BY <2>3 DEF HasChunk, idx
    <3>2. ChunkAt(heap, idx) = << >>
      BY <1>1, <3>1 DEF ChunkAt
    <3> HIDE DEF heap
    <3> QED
      BY <1>3, <2>3, <3>2 DEF ReadByte, idx
  <2> QED
    BY <2>2, <2>3
<1> HIDE DEF heap
<1>7. GoodHeap(heap)
  BY <1>3, <1>5, <1>6 DEF GoodHeap
<1>8. Contents(heap) = Saved(length)
  BY <1>6, Sizes DEF Contents, Saved, U
<1> QED
  BY <1>2, <1>7, <1>8

LEMMA MakeSnapshotStep ==
  ASSUME IInv, MakeSnapshot
  PROVE  IInv' /\ Dense!Next
<1>1. /\ snapshot' = << Len(rollback_info) >> /\ request'.op = "save"
      /\ heaps' = heaps /\ chunk_pool' = chunk_pool /\ rollback_info' = rollback_info
  BY DEF MakeSnapshot
<1>2. /\ GoodHeap(heaps[FIRST]) /\ GoodJournal(rollback_info, heaps[FIRST])
      /\ FIRST \in DOMAIN heaps
  BY DEF IInv
<1>3. Len(rollback_info) \in Nat
  BY <1>2 DEF GoodJournal
<1>4. IInv'
  <2>1. \E n \in 0..Len(rollback_info') : snapshot' = << n >>
    BY <1>1, <1>3
  <2> QED
    BY <1>1, <2>1 DEF IInv
<1>5. memory' = memory
  BY <1>1 DEF memory, Contents
<1>6. saved' = << memory[FIRST] >>
  <2>1. PICK n \in 0..Len(rollback_info) : n = Len(rollback_info)
    BY <1>3
  <2>2. \A a \in Addresses : Undo(rollback_info, heaps[FIRST], n, a) = ReadByte(heaps[FIRST], a)
    BY <1>2, <2>1, Sizes, UndoFacts
  <2>3. Saved(n) = Contents(heaps[FIRST])
    BY <2>2 DEF Saved, Contents
  <2>4. saved' = << Saved(n) >>
    <3>1. snapshot' # << >> /\ snapshot'[1] = n
      BY <1>1, <2>1
    <3>2. \A k : Saved(k)' = Saved(k)
      BY <1>1 DEF Saved, Undo, Covering
    <3> QED
      BY <3>1, <3>2 DEF saved, Saved
  <2> QED
    BY <1>2, <2>3, <2>4, MemoryIs
<1>7. Dense!Save
  BY <1>5, <1>6, DenseOperations
<1> QED
  BY <1>1, <1>4, <1>7, DenseStep

LEMMA HostRollbackStep ==
  ASSUME IInv, HostRollback
  PROVE  IInv' /\ Dense!Next
<1>1. PICK n \in 0..Len(rollback_info) : snapshot = << n >>
  BY DEF HostRollback, IInv
<1> DEFINE heap == Undone(n)
<1>2. /\ heaps' = [heaps EXCEPT ![FIRST] = heap] /\ rollback_info' = << >>
      /\ snapshot' = << >> /\ chunk_pool' = chunk_pool /\ request'.op = "restore"
  BY <1>1 DEF HostRollback
<1>3. GoodHeap(heap) /\ Contents(heap) = Saved(n)
  BY UndoneGood
<1> HIDE DEF heap
<1>4. /\ FIRST \in DOMAIN heaps /\ DOMAIN heaps' = DOMAIN heaps
      /\ \A q \in DOMAIN heaps : heaps'[q] = IF q = FIRST THEN heap ELSE heaps[q]
      /\ heaps' = [q \in DOMAIN heaps' |-> heaps'[q]]
  BY <1>2 DEF IInv
<1>5. IInv'
  <2>1. \A q \in DOMAIN heaps' : GoodHeap(heaps'[q])
    BY <1>3, <1>4 DEF IInv
  <2>2. GoodJournal(<< >>, heaps'[FIRST])
    BY DEF GoodJournal
  <2> QED
    BY <1>2, <1>4, <2>1, <2>2 DEF IInv
<1>6. saved[1] = Saved(n) /\ saved' = << >>
  BY <1>1, <1>2 DEF saved
<1>7. memory' = [memory EXCEPT ![FIRST] = saved[1]]
  <2>1. memory' = [q \in DOMAIN heaps |-> IF q = FIRST THEN saved[1] ELSE memory[q]]
    BY <1>3, <1>4, <1>6, MemoryIs
  <2>2. memory = [q \in DOMAIN heaps |-> memory[q]]
    BY MemoryIs
  <2> QED
    BY <2>1, <2>2
<1>8. Dense!Restore
  BY <1>6, <1>7, DenseOperations
<1> QED
  BY <1>2, <1>5, <1>8, DenseStep

LEMMA PopSnapshotStep ==
  ASSUME IInv, PopSnapshot
  PROVE  IInv' /\ Dense!Next
<1>1. /\ rollback_info' = << >> /\ snapshot' = << >> /\ request'.op = "commit"
      /\ heaps' = heaps /\ chunk_pool' = chunk_pool
  BY DEF PopSnapshot
<1>2. IInv'
  <2>1. GoodJournal(<< >>, heaps[FIRST])
    BY DEF GoodJournal
  <2> QED
    BY <1>1, <2>1 DEF IInv
<1>3. memory' = memory /\ saved' = << >>
  BY <1>1 DEF memory, Contents, saved
<1>4. Dense!Commit
  BY <1>3, DenseOperations
<1> QED
  BY <1>1, <1>2, <1>4, DenseStep

LEMMA StepIInv ==
  ASSUME IInv, Next
  PROVE  IInv' /\ Dense!Next
<1>1. ASSUME NEW r \in Regions, NEW start \in Starts, NEW word \in Words,
             WriteU256(r, start, word)
      PROVE  IInv' /\ Dense!Next
  BY <1>1, WriteU256Step
<1>2. ASSUME NEW r \in Regions, NEW start \in Addresses, NEW bytes \in Strings,
             start + Len(bytes) <= Size, WriteBytes(r, start, bytes)
      PROVE  IInv' /\ Dense!Next
  BY <1>2, WriteBytesStep
<1>3. ASSUME NEW r \in Regions, AllocateAt(r) \/ DeallocateAt(r)
      PROVE  IInv' /\ Dense!Next
  BY <1>3, AllocateAtStep, DeallocateAtStep
<1>4. ASSUME NEW r \in Regions, NEW range \in Ranges,
             CompactToWindow(r, range[1], range[2])
      PROVE  IInv' /\ Dense!Next
  BY <1>4, CompactToWindowStep
<1>5. CASE MakeSnapshot \/ HostRollback \/ PopSnapshot
  BY <1>5, MakeSnapshotStep, HostRollbackStep, PopSnapshotStep
<1> QED
  BY <1>1, <1>2, <1>3, <1>4, <1>5 DEF Next

LEMMA NextIInv == IInv /\ [Next]_vars => IInv' /\ [Dense!Next]_(Dense!vars)
<1> SUFFICES ASSUME IInv, [Next]_vars
             PROVE  IInv' /\ [Dense!Next]_(Dense!vars)
  OBVIOUS
<1>1. CASE Next
  BY <1>1, StepIInv
<1>2. CASE UNCHANGED vars
  <2>1. /\ heaps' = heaps /\ chunk_pool' = chunk_pool /\ snapshot' = snapshot
        /\ rollback_info' = rollback_info /\ request' = request
    BY <1>2 DEF vars, state
  <2>2. IInv'
    BY <2>1 DEF IInv
  <2>3. UNCHANGED Dense!vars
    BY <2>1 DEF Dense!vars, Contents, UndoneByte, Deciding
  <2> QED
    BY <2>2, <2>3
<1> QED
  BY <1>1, <1>2

-----------------------------------------------------------------------------
(* What follows *)

LEMMA IInvTypeOK == IInv => TypeOK
<1> SUFFICES ASSUME IInv PROVE TypeOK
  OBVIOUS
<1>1. /\ FIRST \in DOMAIN heaps /\ DOMAIN heaps \subseteq Regions
      /\ \A r \in DOMAIN heaps : heaps[r] \in ChunkSeqs
      /\ chunk_pool \in ZeroPools /\ rollback_info \in Seq(Entries)
  BY DEF IInv, GoodHeap, GoodJournal
<1>2. snapshot # << >> => snapshot[1] \in 0..Len(rollback_info)
  BY DEF IInv
<1> QED
  BY <1>1, <1>2, Zenon DEF TypeOK, ChunkSeqs, Present, ZeroPools, Entries

\* A byte of a chunk
LEMMA PlaceReads ==
  ASSUME NEW heap, NEW idx \in Nat, idx >= 1, NEW i \in 1..HEAP_CHUNK_SIZE
  PROVE  ReadByte(heap, Place(idx, i)) =
           IF ChunkAt(heap, idx) = << >> THEN 0 ELSE ChunkAt(heap, idx)[1][i]
  BY PlaceParts DEF ReadByte

LEMMA EqualReadsAlike ==
  ASSUME NEW heap, NEW other, GoodHeap(heap), GoodHeap(other)
  PROVE  Equal(heap, other) <=> Contents(heap) = Contents(other)
<1>1. heap \in ChunkSeqs /\ other \in ChunkSeqs
  BY DEF GoodHeap
<1>2. ASSUME Equal(heap, other), NEW address \in Nat
      PROVE  ReadByte(heap, address) = ReadByte(other, address)
  <2> DEFINE idx == ChunkOf(address)
             i == InChunk(address)
             a == ChunkAt(heap, idx)
             b == ChunkAt(other, idx)
  <2>1. i \in 1..HEAP_CHUNK_SIZE
    BY AddressParts
  <2>2. ZeroChunk[i] = 0
    BY <2>1, ZeroChunkType
  <2>3. /\ ReadByte(heap, address) = IF a = << >> THEN 0 ELSE a[1][i]
        /\ ReadByte(other, address) = IF b = << >> THEN 0 ELSE b[1][i]
    BY DEF ReadByte
  <2>4. SameChunk(a, b)
    <3>1. CASE idx \in DOMAIN heap \cup DOMAIN other
      BY <1>2, <3>1 DEF Equal
    <3>2. CASE idx \notin DOMAIN heap \cup DOMAIN other
      BY <3>2 DEF ChunkAt, SameChunk
    <3> QED
      BY <3>1, <3>2
  <2> HIDE DEF idx, i, a, b
  <2> QED
    BY <2>2, <2>3, <2>4 DEF SameChunk
<1>3. ASSUME Contents(heap) = Contents(other)
      PROVE  Equal(heap, other)
  <2>1. ASSUME NEW address \in Nat
        PROVE  ReadByte(heap, address) = ReadByte(other, address)
    <3>1. CASE address \in Addresses
      <4>1. /\ Contents(heap)[address] = ReadByte(heap, address)
            /\ Contents(other)[address] = ReadByte(other, address)
        BY <3>1 DEF Contents
      <4> QED
        BY <1>3, <4>1
    <3>2. CASE address \notin Addresses
      <4>1. address >= Size
        BY <3>2, Sizes DEF Addresses
      <4> QED
        BY <4>1 DEF GoodHeap
    <3> QED
      BY <3>1, <3>2
  <2>2. ASSUME NEW idx \in DOMAIN heap \cup DOMAIN other
        PROVE  SameChunk(ChunkAt(heap, idx), ChunkAt(other, idx))
    <3> DEFINE a == ChunkAt(heap, idx)
               b == ChunkAt(other, idx)
    <3>1. idx \in Nat /\ idx >= 1
      BY <1>1 DEF ChunkSeqs
    <3>2. /\ a # << >> => a[1] \in Chunk /\ a = << a[1] >>
          /\ b # << >> => b[1] \in Chunk /\ b = << b[1] >>
      BY <1>1, ChunkAtType
    <3>3. \A i \in 1..HEAP_CHUNK_SIZE :
            (IF a = << >> THEN 0 ELSE a[1][i]) = (IF b = << >> THEN 0 ELSE b[1][i])
      <4> SUFFICES ASSUME NEW i \in 1..HEAP_CHUNK_SIZE
                   PROVE  (IF a = << >> THEN 0 ELSE a[1][i])
                            = (IF b = << >> THEN 0 ELSE b[1][i])
        OBVIOUS
      <4>1. Place(idx, i) \in Nat
        BY <3>1, PlaceParts
      <4>2. ReadByte(heap, Place(idx, i)) = ReadByte(other, Place(idx, i))
        BY <2>1, <4>1
      <4> QED
        BY <3>1, <4>2, PlaceReads
    <3> HIDE DEF a, b
    <3>4. ASSUME a # << >>, b # << >>
          PROVE  a = b
      <4>1. a[1] = b[1]
        <5>1. \A i \in 1..HEAP_CHUNK_SIZE : a[1][i] = b[1][i]
          BY <3>3, <3>4
        <5>2. a[1] \in Chunk /\ b[1] \in Chunk
          BY <3>2, <3>4
        <5>3. \A c, d \in Chunk : (\A i \in 1..HEAP_CHUNK_SIZE : c[i] = d[i]) => c = d
          <6> SUFFICES ASSUME NEW c \in Chunk, NEW d \in Chunk,
                              \A i \in 1..HEAP_CHUNK_SIZE : c[i] = d[i]
                       PROVE  c = d
            OBVIOUS
          <6>1. c = [i \in 1..HEAP_CHUNK_SIZE |-> c[i]] /\ d = [i \in 1..HEAP_CHUNK_SIZE |-> d[i]]
            BY DEF Chunk
          <6> QED
            BY <6>1
        <5> QED
          BY <5>1, <5>2, <5>3, Zenon
      <4> QED
        BY <3>2, <3>4, <4>1
    <3>5. ASSUME a # << >>, b = << >>
          PROVE  a = << ZeroChunk >>
      <4>1. a[1] = ZeroChunk
        BY <3>2, <3>3, <3>5 DEF Chunk, ZeroChunk
      <4> QED
        BY <3>2, <3>5, <4>1
    <3>6. ASSUME b # << >>, a = << >>
          PROVE  b = << ZeroChunk >>
      <4>1. b[1] = ZeroChunk
        BY <3>2, <3>3, <3>6 DEF Chunk, ZeroChunk
      <4> QED
        BY <3>2, <3>6, <4>1
    <3>7. SameChunk(a, b)
      BY <3>4, <3>5, <3>6 DEF SameChunk
    <3> QED
      BY <3>7 DEF a, b
  <2> QED
    BY <2>2 DEF Equal
<1>4. Equal(heap, other) => Contents(heap) = Contents(other)
  BY <1>2, Sizes DEF Contents
<1> QED
  BY <1>3, <1>4

LEMMA IInvEqualIfReadAlike == IInv => EqualIfReadAlike
  BY EqualReadsAlike DEF IInv, EqualIfReadAlike

LEMMA SpecIInv == Spec => []IInv
<1>1. IInv /\ [Next]_vars => IInv'
  BY NextIInv
<1> QED
  BY <1>1, InitIInv, PTL DEF Spec

\* Chunks have their size, and a chunk of the pool is zero: those a deallocated
\* or shrunk heap gives back are cleared (heap.rs:624), so that what
\* get_or_insert_chunk takes from the pool needs no clearing.
THEOREM TypeCorrect == Spec => []TypeOK
  BY SpecIInv, IInvTypeOK, PTL

\* PartialEq for Heap (heap.rs:176) holds of two heaps exactly when every
\* address reads the same in both, whichever chunks either has allocated.
THEOREM EqualityIsReading == Spec => []EqualIfReadAlike
  BY SpecIInv, IInvEqualIfReadAlike, PTL

\* Heaps are zeroed memory (heap.rs:33) for any sizes: chunks taken from the
\* pool, windows that retain_window keeps and the words that the host's
\* rollback writes back cannot be told from plain memory.
THEOREM Refines == Spec => ImplementsZeroedMemory
<1>1. IInv /\ [Next]_vars => IInv' /\ [Dense!Next]_(Dense!vars)
  BY NextIInv
<1> QED
  BY <1>1, InitIInv, InitRefines, PTL DEF Spec, ImplementsZeroedMemory, Dense!Spec
=============================================================================
