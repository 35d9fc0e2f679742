------------------------------ MODULE ChunkedHeap ------------------------------
(***************************************************************************)
(* The bytes of heaps (heap.rs): a heap is a sequence of chunks, allocated *)
(* from a pool of used ones when they are first written; writes to the     *)
(* bootloader's heap are journaled word by word for the host's rollback; a *)
(* page of a far call can be shrunk to a window, and deallocated.          *)
(* HeapPages says which page that happens to, and when.  The bootloader's   *)
(* auxiliary heap is journaled like its heap, and left out.                 *)
(***************************************************************************)
EXTENDS Integers, SequencesExt

CONSTANTS
  HEAP_CHUNK_SIZE,  \* bytes of a chunk
  WORD,             \* bytes of a word: 32
  Size,             \* bound on the bytes of a heap
  Bytes,            \* values of a byte
  Words,            \* what a store writes: words of bytes
  Strings,          \* what a decommitment writes: bytes of any length
  MaxJournal        \* bound on the journal of the bootloader's heap

ASSUME SizeAssumption ==
  /\ HEAP_CHUNK_SIZE \in Nat \ {0} /\ WORD \in Nat \ {0}
  /\ HEAP_CHUNK_SIZE % WORD = 0
  /\ Size \in Nat /\ 0 \in Bytes
  /\ Words \subseteq [1..WORD -> Bytes] /\ Strings \subseteq Seq(Bytes)

VARIABLES
  heaps,         \* the allocated heaps: the bootloader's, a far call's
  chunk_pool,    \* ChunkPool
  rollback_info, \* bootloader_heap_rollback_info
  snapshot,      \* << >>, or << the length of rollback_info in the snapshot >>
  request        \* history: the last operation, and on what

\* The state of the program
state == << heaps, chunk_pool, rollback_info, snapshot >>
vars == << state, request >>

Addresses == 0..(Size - 1)
FIRST == "bootloader_heap"
Regions == {FIRST, "dynamic"}

Chunk == [1..HEAP_CHUNK_SIZE -> Bytes]
ZeroChunk == [i \in 1..HEAP_CHUNK_SIZE |-> 0]
Ranges == {r \in Addresses \X (0..Size) : r[1] + r[2] <= Size}

-----------------------------------------------------------------------------
(* Heap.  A chunk is << >> where it is absent. *)

ChunkOf(address) == address \div HEAP_CHUNK_SIZE + 1
InChunk(address) == (address % HEAP_CHUNK_SIZE) + 1

ChunkAt(heap, idx) == IF idx \in DOMAIN heap THEN heap[idx] ELSE << >>

ReadByte(heap, address) ==
  LET chunk == ChunkAt(heap, ChunkOf(address))
  IN IF chunk = << >> THEN 0 ELSE chunk[1][InChunk(address)]

\* read_into, and what is built on it
Read(heap, start, len) == [i \in 1..len |-> ReadByte(heap, start + i - 1)]

\* The position of idx among a set of chunks, from 1
Rank(idx, chunks) == Cardinality({x \in chunks : x <= idx})

\* ChunkPool::allocate, for the k-th time
Allocated(pool, k) ==
  IF k <= Len(pool) THEN pool[Len(pool) - k + 1] ELSE ZeroChunk

\* write_from, with get_or_insert_chunk; m is a heap together with the pool.
\* Chunks the bytes touch are allocated in order where they are absent.
WriteFrom(m, start, bytes) ==
  LET touched == {ChunkOf(a) : a \in start..(start + Len(bytes) - 1)}
      absent == {idx \in touched : ChunkAt(m.heap, idx) = << >>}
      Before(idx) ==
        IF idx \in absent
        THEN Allocated(m.pool, Rank(idx, absent))
        ELSE m.heap[idx][1]
      After(idx) ==
        [i \in 1..HEAP_CHUNK_SIZE |->
           LET pos == (idx - 1) * HEAP_CHUNK_SIZE + i - start
           IN IF pos \in DOMAIN bytes THEN bytes[pos] ELSE Before(idx)[i]]
  IN [heap |-> [idx \in 1..Max(touched \cup {Len(m.heap)}) |->
                  IF idx \in touched THEN << After(idx) >>
                  ELSE ChunkAt(m.heap, idx)],
      pool |-> SubSeq(m.pool, 1, Len(m.pool) - Cardinality(absent))]

\* Mutant: a chunk is handed back as it is.
RecycledAsIs(chunk) == chunk

\* ChunkPool::recycle
Recycled(chunk) == ZeroChunk

\* The chunks at some places of a heap go to the pool, in order.
Recycle(pool, heap, places) ==
  LET freed == {idx \in places : heap[idx] # << >>}
  IN pool \o [k \in 1..Cardinality(freed) |->
               Recycled(heap[CHOOSE idx \in freed : Rank(idx, freed) = k][1])]

\* Mutant: only chunks that lie in the window are kept.
KeptInside(start, end) ==
  LET first == (start + HEAP_CHUNK_SIZE - 1) \div HEAP_CHUNK_SIZE
  IN first..(end \div HEAP_CHUNK_SIZE - 1)

\* The (0-based) chunks retain_window keeps, for bytes start..end-1
Kept(start, end) ==
  IF start >= end THEN {}
  ELSE (start \div HEAP_CHUNK_SIZE)..((end - 1) \div HEAP_CHUNK_SIZE)

\* retain_window.  Chunks outside are freed; the index ends with the window.
RetainWindow(m, start, end) ==
  LET kept == {idx \in DOMAIN m.heap : idx - 1 \in Kept(start, end)}
      len == Min({Len(m.heap), Max({n + 1 : n \in Kept(start, end)} \cup {0})})
  IN [heap |-> [idx \in 1..len |->
                  IF idx \in kept THEN m.heap[idx] ELSE << >>],
      pool |-> Recycle(m.pool, m.heap, DOMAIN m.heap \ kept)]

\* Mutant: an absent chunk equals nothing but an absent chunk.
SameChunkStrictly(a, b) == a = b

\* An absent chunk is as good as one of zeros.
SameChunk(a, b) ==
  \/ a = b
  \/ a = << >> /\ b = << ZeroChunk >>
  \/ b = << >> /\ a = << ZeroChunk >>

\* PartialEq for Heap
Equal(heap, other) ==
  \A idx \in DOMAIN heap \cup DOMAIN other :
    SameChunk(ChunkAt(heap, idx), ChunkAt(other, idx))

-----------------------------------------------------------------------------
(* Heaps *)

With(r) == [heap |-> heaps[r], pool |-> chunk_pool]
Update(r, m) == heaps' = [heaps EXCEPT ![r] = m.heap] /\ chunk_pool' = m.pool

WordAt(address) == << address, Read(heaps[FIRST], address, WORD) >>

\* Mutant: only words that lie in the range are recorded.
WordsInside(start, len) ==
  LET first == (start + WORD - 1) \div WORD
      last == (start + len) \div WORD - 1
  IN [i \in 1..(last - first + 1) |-> (first + i - 1) * WORD]

\* record_bootloader_range_rollback: the aligned words a range touches
WordsOf(start, len) ==
  LET first == start \div WORD
      last == (start + len - 1) \div WORD
  IN IF len = 0 THEN << >>
     ELSE [i \in 1..(last - first + 1) |-> (first + i - 1) * WORD]

Record(r, words) ==
  rollback_info' = IF r = FIRST THEN rollback_info \o words ELSE rollback_info

WriteU256(r, start, word) ==
  /\ request' = [op |-> "write", region |-> r, start |-> start, bytes |-> word]
  /\ r \in DOMAIN heaps /\ Len(rollback_info) < MaxJournal
  /\ Record(r, << WordAt(start) >>)
  /\ Update(r, WriteFrom(With(r), start, word))
  /\ UNCHANGED snapshot

WriteBytes(r, start, bytes) ==
  LET words == WordsOf(start, Len(bytes))
  IN /\ request' = [op |-> "write", region |-> r, start |-> start,
                    bytes |-> bytes]
     /\ r \in DOMAIN heaps /\ Len(rollback_info) < MaxJournal
     /\ Record(r, [i \in DOMAIN words |-> WordAt(words[i])])
     /\ Update(r, WriteFrom(With(r), start, bytes))
     /\ UNCHANGED snapshot

\* allocate_at: a heap without chunks
AllocateAt(r) ==
  /\ request' = [op |-> "obtain", region |-> r]
  /\ r \notin DOMAIN heaps
  /\ heaps' = [q \in DOMAIN heaps \cup {r} |->
                 IF q = r THEN << >> ELSE heaps[q]]
  /\ UNCHANGED << chunk_pool, rollback_info, snapshot >>

DeallocateAt(r) ==
  /\ request' = [op |-> "release", region |-> r]
  /\ r \in DOMAIN heaps \ {FIRST}
  /\ heaps' = [q \in DOMAIN heaps \ {r} |-> heaps[q]]
  /\ chunk_pool' = Recycle(chunk_pool, heaps[r], DOMAIN heaps[r])
  /\ UNCHANGED << rollback_info, snapshot >>

\* compact_to_window, for length bytes from start; always allocated heaps are
\* left alone.
CompactToWindow(r, start, length) ==
  /\ request' = [op |-> "shrink", region |-> r,
                 window |-> start..(start + length - 1)]
  /\ r \in DOMAIN heaps \ {FIRST}
  /\ Update(r, RetainWindow(With(r), start, start + length))
  /\ UNCHANGED << rollback_info, snapshot >>

-----------------------------------------------------------------------------
(* The host *)

\* Mutant: writes are undone oldest first, so that the newest entry decides.
DecidingNewest(entries) == Max(entries)

\* Writes are undone newest first: of those that cover a byte the oldest decides.
Deciding(entries) == Min(entries)

\* A byte of the bootloader's heap once the journal is undone up to length
UndoneByte(length, address) ==
  LET Covers(i) == address - rollback_info[i][1] \in 0..(WORD - 1)
      entries == {i \in (length + 1)..Len(rollback_info) : Covers(i)}
      entry == rollback_info[Deciding(entries)]
  IN IF entries = {} THEN ReadByte(heaps[FIRST], address)
     ELSE entry[2][address - entry[1] + 1]

\* The heap then.  It has every chunk that was written to since.
Undone(length) ==
  [idx \in DOMAIN heaps[FIRST] |->
     IF heaps[FIRST][idx] = << >> THEN << >>
     ELSE << [i \in 1..HEAP_CHUNK_SIZE |->
                UndoneByte(length, (idx - 1) * HEAP_CHUNK_SIZE + i - 1)] >>]

MakeSnapshot ==
  /\ request' = [op |-> "save"]
  /\ snapshot = << >>
  /\ snapshot' = << Len(rollback_info) >>
  /\ UNCHANGED << heaps, chunk_pool, rollback_info >>

\* Heaps::rollback, and the delete_history that follows
HostRollback ==
  /\ request' = [op |-> "restore"]
  /\ snapshot # << >>
  /\ heaps' = [heaps EXCEPT ![FIRST] = Undone(snapshot[1])]
  /\ rollback_info' = << >>
  /\ snapshot' = << >>
  /\ UNCHANGED chunk_pool

PopSnapshot ==
  /\ request' = [op |-> "commit"]
  /\ rollback_info' = << >>
  /\ snapshot' = << >>
  /\ UNCHANGED << heaps, chunk_pool >>

Init ==
  /\ heaps = [r \in {FIRST} |-> << >>]
  /\ chunk_pool = << >>
  /\ rollback_info = << >>
  /\ snapshot = << >>
  /\ request = [op |-> "none"]

Starts == 0..(Size - WORD)

Next ==
  \/ \E r \in Regions, start \in Starts, word \in Words :
       WriteU256(r, start, word)
  \/ \E r \in Regions, start \in Addresses :
       \E bytes \in {b \in Strings : start + Len(b) <= Size} :
         WriteBytes(r, start, bytes)
  \/ \E r \in Regions : AllocateAt(r) \/ DeallocateAt(r)
  \/ \E r \in Regions, range \in Ranges : CompactToWindow(r, range[1], range[2])
  \/ MakeSnapshot \/ HostRollback \/ PopSnapshot

Spec == Init /\ [][Next]_vars

-----------------------------------------------------------------------------
(* Properties *)

\* Chunks have their size, recycled ones are zero (heap.rs:624), and the
\* snapshot is not ahead of the journal.
TypeOK ==
  /\ FIRST \in DOMAIN heaps /\ DOMAIN heaps \subseteq Regions
  /\ \A r \in DOMAIN heaps :
       heaps[r] \in Seq({<< >>} \cup {<< chunk >> : chunk \in Chunk})
  /\ chunk_pool \in Seq({ZeroChunk})
  /\ rollback_info \in Seq(Addresses \X [1..WORD -> Bytes])
  /\ snapshot # << >> => snapshot[1] \in 0..Len(rollback_info)

Contents(heap) == [a \in Addresses |-> ReadByte(heap, a)]

\* Heaps are equal if and only if they read the same, whatever was written,
\* shrunk or recycled on the way (heap.rs:176).
EqualIfReadAlike ==
  \A r \in DOMAIN heaps, q \in DOMAIN heaps :
    Equal(heaps[r], heaps[q]) <=> Contents(heaps[r]) = Contents(heaps[q])

Dense == INSTANCE ZeroedMemory WITH
  Addresses <- Addresses, Zero <- 0, First <- FIRST,
  memory <- [r \in DOMAIN heaps |-> Contents(heaps[r])],
  saved <- IF snapshot = << >> THEN << >>
           ELSE << [a \in Addresses |-> UndoneByte(snapshot[1], a)] >>,
  request <- request

\* Chunks, pool, windows and journal cannot be observed: each operation does
\* what it would to plain zeroed memory (heap.rs:33), and whatever is written
\* since the snapshot, overlapping or not, the host gets back what it saved.
ImplementsZeroedMemory == Dense!Spec
================================================================================
