----------------------- MODULE WorldDiffTraceProofs -----------------------
(***************************************************************************)
(* Proofs about WorldDiffTrace and StorageModes, for any slots, values,    *)
(* prices, snapshots and depth of calls: the loops of rollback.rs compute  *)
(* what Rollback states in closed form, the changes reported are a true    *)
(* difference, the pubdata counter is the sum over the pending writes, the *)
(* trace of storage accesses explains itself, and a world diff without the *)
(* trace agrees with one that has it.                                      *)
(*                                                                         *)
(* The first two are inductions over data, made with LeastNatural and the  *)
(* folds of FoldProofs.  The trace rests on one inductive invariant,       *)
(* TraceInv: the trace and the twins held back are a record of the         *)
(* pending writes (GoodTrace), the journal of writes and the twins run in  *)
(* step (Mirrors), every snapshot was taken with the two in step           *)
(* (SnapshotsInStep), and what the host would get back is such a record    *)
(* too (HostKeeps).  The two modes agree by ModesInv: they keep the same   *)
(* books, their snapshots differ in the lengths of the trace only (Hush),  *)
(* and their flags in protective reads, now and at what the host's         *)
(* snapshots remember.  DedupInv adds what these flags are: a slot is      *)
(* written if a twin of it is held back, a slot is protected if the trace  *)
(* reads it where no write to it is pending, and the cache covers both.    *)
(* That the depth of the deduplication counts the pending writes is a      *)
(* bijection between undone writes and their twins.                        *)
(***************************************************************************)
EXTENDS StorageModes, FoldProofs, WorldDiffProofs

-----------------------------------------------------------------------------
(* The loops of rollback.rs *)

\* The greatest of 1..n is n.
LEMMA MaxOfPrefix ==
  ASSUME NEW n \in Nat, n # 0
  PROVE  Max(1..n) = n /\ (1..n) \ {n} = 1..(n - 1)
<1>1. n \in 1..n /\ \A y \in 1..n : n >= y
  OBVIOUS
<1>2. Max(1..n) \in 1..n /\ \A y \in 1..n : Max(1..n) >= y
  BY <1>1 DEF Max
<1>3. Max(1..n) = n
  BY <1>1, <1>2
<1> QED
  BY <1>3

\* Max picks an element of every non-empty set of positions.
LEMMA MaxOfIndices ==
  ASSUME NEW n \in Nat, NEW s \in SUBSET (1..n), s # {}
  PROVE  Max(s) \in s
<1> DEFINE S == {n - x : x \in s}
<1>0. \A x \in s : n - x \in Nat
  OBVIOUS
<1>1. S \subseteq Nat /\ S # {}
  <2>1. PICK x \in s : TRUE
    OBVIOUS
  <2> QED
    BY <1>0, <2>1
<1>2. PICK i \in S : \A j \in S : i <= j
  BY <1>1, LeastNatural
<1>3. PICK x \in s : i = n - x
  BY <1>2
<1>4. \A y \in s : n - x <= n - y
  BY <1>2, <1>3
<1>5. \A y \in s : x >= y
  BY <1>3, <1>4
<1> QED
  BY <1>3, <1>5 DEF Max

\* What Undone lists: the entries after n, newest first.
LEMMA UndoneIs ==
  ASSUME NEW K, NEW V, NEW m \in JournaledMap(K, V), NEW n \in 0..Len(m.old_entries)
  PROVE  LET len == Len(m.old_entries) IN
         /\ len \in Nat /\ len - n \in Nat
         /\ DOMAIN Undone(m, n) = 1..(len - n)
         /\ \A i \in 1..(len - n) :
              /\ Undone(m, n)[i] = m.old_entries[len - i + 1]
              /\ Undone(m, n)[i] \in [key : K, old : V \cup {None}]
<1> DEFINE Entries == [key : K, old : V \cup {None}]
           len == Len(m.old_entries)
           s == SubSeq(m.old_entries, n + 1, len)
<1>1. m.old_entries \in Seq(Entries) /\ len \in Nat
  BY LenProperties DEF JournaledMap
<1>2. \A i \in 1..len : m.old_entries[i] \in Entries
  BY <1>1, ElementOfSeq, Zenon
<1> HIDE DEF Entries
<1>3. len - n \in Nat
  BY <1>1
<1>4. /\ Len(s) = len - n
      /\ \A i \in 1..(len - n) : s[i] = m.old_entries[n + i]
  <2>1. n + 1 \in Int /\ len \in Int /\ \A i \in (n + 1)..len : m.old_entries[i] \in Entries
    BY <1>1, <1>2
  <2>2. /\ Len(s) = IF n + 1 <= len THEN len - (n + 1) + 1 ELSE 0
        /\ \A i \in 1..(len - (n + 1) + 1) : s[i] = m.old_entries[(n + 1) + i - 1]
    BY <2>1, SubSeqProperties
  <2>3. len - (n + 1) + 1 = len - n
    BY <1>1
  <2>4. \A i \in 1..(len - n) : (n + 1) + i - 1 = n + i
    BY <1>1
  <2> QED
    BY <1>1, <2>2, <2>3, <2>4
<1>5. Undone(m, n) = [i \in 1..(len - n) |-> s[(len - n) - i + 1]]
  BY <1>4, Zenon DEF Undone, Reverse
<1>6. ASSUME NEW i \in 1..(len - n)
      PROVE  Undone(m, n)[i] = m.old_entries[len - i + 1]
  <2>1. (len - n) - i + 1 \in 1..(len - n)
    BY <1>1, <1>3
  <2>2. n + ((len - n) - i + 1) = len - i + 1
    BY <1>1
  <2> QED
    BY <1>4, <1>5, <2>1, <2>2
<1>7. \A i \in 1..(len - n) : len - i + 1 \in 1..len
  BY <1>1
<1>8. \A i \in 1..(len - n) : Undone(m, n)[i] \in Entries
  BY <1>2, <1>6, <1>7
<1> QED
  BY <1>1, <1>3, <1>5, <1>6, <1>8 DEF Entries

\* Undoing one more entry puts its old value back.
PutsBack(m, n) ==
  MapAt(m, n - 1) = [MapAt(m, n) EXCEPT ![m.old_entries[n].key] = m.old_entries[n].old]

\* The closed form, one entry earlier
LEMMA MapAtStep ==
  ASSUME NEW K, NEW V, NEW m \in JournaledMap(K, V), NEW n \in 1..Len(m.old_entries)
  PROVE  PutsBack(m, n)
<1> DEFINE len == Len(m.old_entries)
           e == m.old_entries[n]
<1>1. m.map \in [K -> V \cup {None}] /\ len \in Nat
      /\ m.old_entries \in Seq([key : K, old : V \cup {None}])
  BY LenProperties DEF JournaledMap
<1>2. e.key \in K
  <2>1. n \in 1..len
    OBVIOUS
  <2>2. e \in [key : K, old : V \cup {None}]
    BY <1>1, <2>1, ElementOfSeq, Zenon
  <2> QED
    BY <2>2
<1>3. DOMAIN MapAt(m, n) = K /\ DOMAIN MapAt(m, n - 1) = K
  BY <1>1 DEF MapAt
<1>4. \A k \in K : Touched(m, n - 1, k) = Touched(m, n, k) \cup (IF k = e.key THEN {n} ELSE {})
  BY <1>1 DEF Touched
<1>5. \A k \in K \ {e.key} : MapAt(m, n - 1)[k] = MapAt(m, n)[k]
  BY <1>1, <1>4 DEF MapAt
<1>6. MapAt(m, n - 1)[e.key] = e.old
  <2> DEFINE S == Touched(m, n - 1, e.key)
  <2>1. n \in S /\ S \subseteq Nat /\ \A j \in S : n <= j
    BY <1>1, <1>2 DEF Touched
  <2>2. Oldest(S) = n
    BY <2>1, OldestIsUnique
  <2> QED
    BY <1>1, <1>2, <2>1, <2>2 DEF MapAt
<1> HIDE DEF e
<1>7. MapAt(m, n - 1) = [k \in K |-> MapAt(m, n - 1)[k]]
  BY DEF MapAt, JournaledMap
<1>8. [MapAt(m, n) EXCEPT ![e.key] = e.old]
        = [k \in K |-> IF k = e.key THEN e.old ELSE MapAt(m, n)[k]]
  BY <1>1 DEF MapAt
<1> QED
  BY <1>5, <1>6, <1>7, <1>8 DEF e, PutsBack

\* h is what DrainReverse computes on every set of positions of s.
Drains(h, base, s, n) ==
  h = [t \in SUBSET (1..n) |->
         IF t = {} THEN base
         ELSE [h[t \ {Max(t)}] EXCEPT ![s[Max(t)].key] = s[Max(t)].old]]

\* Such a function exists.
LEMMA DrainExists ==
  ASSUME NEW K, NEW V, NEW base \in [K -> V], NEW n \in Nat, NEW s,
         \A i \in 1..n : s[i] \in [key : K, old : V]
  PROVE  \E h : Drains(h, base, s, n)
<1> DEFINE S == 1..n
           A == [K -> V]
           c == [t \in SUBSET S |-> Max(t)]
           step == [p \in (SUBSET S) \X A |->
                      IF p[1] = {} THEN base
                      ELSE [p[2] EXCEPT ![s[Max(p[1])].key] = s[Max(p[1])].old]]
<1>1. IsFiniteSet(S)
  BY FS_Interval
<1>2. \A t \in SUBSET S : t # {} => Max(t) \in t
  BY MaxOfIndices
<1>3. \A t \in SUBSET S : t # {} => c[t] \in t
  BY <1>2
<1>4. ASSUME NEW t \in SUBSET S, t # {}, NEW a \in A
      PROVE  [a EXCEPT ![s[Max(t)].key] = s[Max(t)].old] \in A
  <2>1. Max(t) \in S
    BY <1>2, <1>4
  <2>2. s[Max(t)].old \in V
    BY <2>1
  <2> QED
    BY <2>2
<1>5. step \in [(SUBSET S) \X A -> A]
  BY <1>4
<1>6. \A t \in SUBSET S, a \in A : t # {} =>
        step[<< t, a >>] = [a EXCEPT ![s[Max(t)].key] = s[Max(t)].old]
  OBVIOUS
<1> HIDE DEF step, A
<1>7. \A t \in SUBSET S : c[t] = Max(t)
  OBVIOUS
<1> HIDE DEF c, S
<1>8. PICK h \in [SUBSET S -> A] : Unfolds(h, S, base, c, step)
  <2>1. base \in A
    BY DEF A
  <2> QED
    BY <1>1, <1>3, <1>5, <2>1, FoldExists, Zenon
<1>9. ASSUME NEW t \in SUBSET S, t # {}
      PROVE  h[t] = [h[t \ {Max(t)}] EXCEPT ![s[Max(t)].key] = s[Max(t)].old]
  <2>1. h[t] = step[<< t, h[t \ {Max(t)}] >>]
    BY <1>7, <1>8, <1>9 DEF Unfolds
  <2>2. h[t \ {Max(t)}] \in A
    BY <1>8
  <2> QED
    BY <1>6, <1>9, <2>1, <2>2
<1>10. \A t \in SUBSET S : t = {} => h[t] = base
  BY <1>8 DEF Unfolds
<1>11. h = [t \in SUBSET S |-> h[t]]
  BY <1>8
<1>12. Drains(h, base, s, n)
  BY <1>9, <1>10, <1>11 DEF Drains, S
<1> QED
  BY <1>12

\* Undoing entry by entry, newest first, ends where the closed form says.
LEMMA DrainIsMapAt ==
  ASSUME NEW K, NEW V, NEW m \in JournaledMap(K, V), NEW n \in 0..Len(m.old_entries)
  PROVE  DrainReverse(m, n) = MapAt(m, n)
<1> DEFINE len == Len(m.old_entries)
           s == Undone(m, n)
           h == CHOOSE g : Drains(g, m.map, s, len - n)
<1>1. /\ len \in Nat /\ len - n \in Nat
      /\ DOMAIN s = 1..(len - n)
      /\ \A i \in 1..(len - n) :
           /\ s[i] = m.old_entries[len - i + 1]
           /\ s[i] \in [key : K, old : V \cup {None}]
  BY UndoneIs
<1>2. m.map \in [K -> V \cup {None}]
  BY DEF JournaledMap
<1>3. DrainReverse(m, n) = h[1..(len - n)]
  <2>1. DrainReverse(m, n) =
          MapThenFoldSet(LAMBDA e, acc : [acc EXCEPT ![e.key] = e.old], m.map,
                         LAMBDA i : s[i], LAMBDA t : Max(t), 1..(len - n))
    BY <1>1 DEF DrainReverse, FoldLeft
  <2> QED
    BY <2>1 DEF MapThenFoldSet, Drains
<1> HIDE DEF s
<1>4. Drains(h, m.map, s, len - n)
  <2> DEFINE W == V \cup {None}
             r == len - n
  <2>1. r \in Nat /\ m.map \in [K -> W] /\ \A i \in 1..r : s[i] \in [key : K, old : W]
    BY <1>1, <1>2
  <2> HIDE DEF W, r, h
  <2>3. \E g : Drains(g, m.map, s, r)
    BY <2>1, DrainExists
  <2>4. \E g : Drains(g, m.map, s, len - n)
    BY <2>3 DEF r
  <2> QED
    BY <2>4 DEF h
<1> HIDE DEF h
<1> DEFINE Bad == {i \in 0..(len - n) : h[1..i] # MapAt(m, len - i)}
<1>5. Bad = {}
  <2> SUFFICES ASSUME Bad # {} PROVE FALSE
    OBVIOUS
  <2>1. PICK i \in Bad : \A j \in Bad : i <= j
    <3>1. Bad \subseteq Nat
      BY <1>1
    <3> QED
      BY <3>1, LeastNatural
  <2>2. i \in Nat /\ i <= len - n /\ h[1..i] # MapAt(m, len - i)
    BY <1>1, <2>1
  <2>3. i # 0
    <3>1. h[{}] = m.map
      BY <1>4 DEF Drains
    <3>2. MapAt(m, len) = m.map
      BY MapAtNow
    <3>3. i = 0 => 1..i = {} /\ len - i = len
      BY <1>1
    <3> QED
      BY <2>2, <3>1, <3>2, <3>3
  <2>4. Max(1..i) = i /\ (1..i) \ {i} = 1..(i - 1) /\ i \in 1..i
    <3>1. Max(1..i) = i /\ (1..i) \ {i} = 1..(i - 1)
      BY <2>2, <2>3, MaxOfPrefix
    <3> QED
      BY <2>2, <2>3, <3>1
  <2>5. h[1..i] = [h[1..(i - 1)] EXCEPT ![s[i].key] = s[i].old]
    <3>1. 1..i \in SUBSET (1..(len - n))
      BY <1>1, <2>2
    <3>2. \A t \in SUBSET (1..(len - n)) : t # {} =>
            h[t] = [h[t \ {Max(t)}] EXCEPT ![s[Max(t)].key] = s[Max(t)].old]
      BY <1>4 DEF Drains
    <3> DEFINE t == 1..i
    <3>3. t # {} /\ t \in SUBSET (1..(len - n)) /\ Max(t) = i /\ t \ {i} = 1..(i - 1)
      BY <2>4, <3>1
    <3> HIDE DEF t
    <3>4. h[t] = [h[t \ {Max(t)}] EXCEPT ![s[Max(t)].key] = s[Max(t)].old]
      BY <3>2, <3>3
    <3>5. h[t] = [h[1..(i - 1)] EXCEPT ![s[i].key] = s[i].old]
      BY <3>3, <3>4
    <3> QED
      BY <3>5 DEF t
  <2>6. h[1..(i - 1)] = MapAt(m, len - (i - 1))
    <3>1. i - 1 \in 0..(len - n) /\ ~(i <= i - 1)
      BY <1>1, <2>2, <2>3
    <3> QED
      BY <2>1, <3>1
  <2>7. s[i] = m.old_entries[len - i + 1]
    BY <1>1, <2>2, <2>3
  <2> DEFINE p == len - i + 1
  <2>8. p \in 1..len /\ len - (i - 1) = p /\ p - 1 = len - i
    BY <1>1, <2>2, <2>3
  <2>9. MapAt(m, p - 1) = [MapAt(m, p) EXCEPT ![m.old_entries[p].key] = m.old_entries[p].old]
    <3>1. p \in 1..len
      BY <2>8
    <3> HIDE DEF p
    <3>2. PutsBack(m, p)
      BY <3>1, MapAtStep
    <3> QED
      BY <3>2 DEF PutsBack
  <2> QED
    BY <2>2, <2>5, <2>6, <2>7, <2>8, <2>9
<1>6. h[1..(len - n)] = MapAt(m, len - (len - n))
  BY <1>1, <1>5
<1>7. len - (len - n) = n
  BY <1>1
<1> QED
  BY <1>3, <1>6, <1>7

\* What the loop of changes_after makes of a table and an entry.
Recorded(m, acc, e) ==
  [k \in DOMAIN acc \cup {e.key} |->
     IF k # e.key THEN acc[k]
     ELSE [before |-> e.old,
           after  |-> IF k \in DOMAIN acc THEN acc[k].after ELSE m.map[k]]]

\* One more entry in the closed form is one more turn of the loop.
LEMMA ChangesStep ==
  ASSUME NEW K, NEW V, NEW m \in JournaledMap(K, V), NEW n \in 1..Len(m.old_entries)
  PROVE  ChangesAfter(m, n - 1) = Recorded(m, ChangesAfter(m, n), m.old_entries[n])
<1> DEFINE e == m.old_entries[n]
           new == ChangesAfter(m, n - 1)
           acc == ChangesAfter(m, n)
           D == {j \in K : Touched(m, n, j) # {}}
<1>1. m.map \in [K -> V \cup {None}] /\ Len(m.old_entries) \in Nat /\ DOMAIN m.map = K
      /\ m.old_entries \in Seq([key : K, old : V \cup {None}])
  BY LenProperties DEF JournaledMap
<1>2. e.key \in K
  <2>1. n \in 1..Len(m.old_entries)
    OBVIOUS
  <2>2. e \in [key : K, old : V \cup {None}]
    BY <1>1, <2>1, ElementOfSeq, Zenon
  <2> QED
    BY <2>2
<1>3. \A k \in K : Touched(m, n - 1, k) = Touched(m, n, k) \cup (IF k = e.key THEN {n} ELSE {})
  BY <1>1 DEF Touched
<1>4. {j \in K : Touched(m, n - 1, j) # {}} = D \cup {e.key}
  BY <1>2, <1>3
<1>5. PutsBack(m, n) /\ DOMAIN MapAt(m, n) = K
  BY <1>1, MapAtStep DEF MapAt
<1>6. /\ \A k \in K \ {e.key} : MapAt(m, n - 1)[k] = MapAt(m, n)[k]
      /\ MapAt(m, n - 1)[e.key] = e.old
  BY <1>2, <1>5 DEF PutsBack
<1>7. acc = [k \in D |-> [before |-> MapAt(m, n)[k], after |-> m.map[k]]]
  BY <1>1 DEF ChangesAfter
<1>8. new = [k \in D \cup {e.key} |-> [before |-> MapAt(m, n - 1)[k], after |-> m.map[k]]]
  BY <1>1, <1>4 DEF ChangesAfter
<1>9. Recorded(m, acc, e) =
        [k \in D \cup {e.key} |->
           IF k # e.key THEN acc[k]
           ELSE [before |-> e.old,
                 after  |-> IF k \in D THEN acc[k].after ELSE m.map[k]]]
  BY <1>7 DEF Recorded
<1> HIDE DEF e, acc, new, D
<1>10. D \subseteq K
  BY DEF D
<1>11. ASSUME NEW k \in D \cup {e.key}
       PROVE  [before |-> MapAt(m, n - 1)[k], after |-> m.map[k]]
                = IF k # e.key THEN acc[k]
                  ELSE [before |-> e.old,
                        after  |-> IF k \in D THEN acc[k].after ELSE m.map[k]]
  <2>1. k \in D => acc[k] = [before |-> MapAt(m, n)[k], after |-> m.map[k]]
    BY <1>7
  <2>2. k \in D => acc[k].after = m.map[k]
    BY <2>1
  <2>3. k \in K
    BY <1>2, <1>10
  <2>4. CASE k # e.key
    BY <1>6, <2>1, <2>3, <2>4, <1>11
  <2>5. CASE k = e.key
    BY <1>6, <2>2, <2>5
  <2> QED
    BY <2>4, <2>5
<1>12. new = Recorded(m, acc, e)
  BY <1>8, <1>9, <1>11
<1> QED
  BY <1>12 DEF new, acc, e

\* h is what ChangesLoop computes on every set of positions of s.
Records(h, m, s, n) ==
  h = [t \in SUBSET (1..n) |->
         IF t = {} THEN << >> ELSE Recorded(m, h[t \ {Max(t)}], s[Max(t)])]

\* Such a function exists.
LEMMA RecordsExist ==
  ASSUME NEW K, NEW V, NEW m, m.map \in [K -> V], NEW n \in Nat, NEW s,
         \A i \in 1..n : s[i] \in [key : K, old : V]
  PROVE  \E h : Records(h, m, s, n)
<1> DEFINE S == 1..n
           R == [before : V, after : V]
           A == UNION {[D -> R] : D \in SUBSET K}
           c == [t \in SUBSET S |-> Max(t)]
           step == [p \in (SUBSET S) \X A |->
                      IF p[1] = {} THEN << >> ELSE Recorded(m, p[2], s[Max(p[1])])]
<1>1. IsFiniteSet(S)
  BY FS_Interval
<1>2. \A t \in SUBSET S : t # {} => Max(t) \in t
  BY MaxOfIndices
<1>3. \A t \in SUBSET S : t # {} => c[t] \in t
  BY <1>2
<1>4. ASSUME NEW i \in S, NEW a \in A
      PROVE  Recorded(m, a, s[i]) \in A
  <2>1. PICK D \in SUBSET K : a \in [D -> R]
    OBVIOUS
  <2>2. s[i].key \in K /\ s[i].old \in V
    BY <1>4
  <2> DEFINE E == D \cup {s[i].key}
  <2>3. DOMAIN a = D /\ E \in SUBSET K /\ \A k \in D : a[k] \in R /\ a[k].after \in V
    BY <2>1, <2>2
  <2> DEFINE val(k) == IF k # s[i].key THEN a[k]
                       ELSE [before |-> s[i].old,
                             after  |-> IF k \in D THEN a[k].after ELSE m.map[k]]
  <2>4. ASSUME NEW k \in E
        PROVE  val(k) \in R
    <3>1. CASE k # s[i].key
      BY <2>3, <2>4, <3>1
    <3>2. CASE k = s[i].key
      BY <2>2, <2>3, <3>2
    <3> QED
      BY <3>1, <3>2
  <2>5. Recorded(m, a, s[i]) = [k \in E |-> val(k)]
    BY <2>3 DEF Recorded
  <2> HIDE DEF val, E
  <2>6. [k \in E |-> val(k)] \in [E -> R]
    BY <2>4
  <2> QED
    BY <2>3, <2>5, <2>6
<1>5. << >> \in A
  <2>1. << >> \in [{} -> R]
    OBVIOUS
  <2> QED
    BY <2>1
<1>6. step \in [(SUBSET S) \X A -> A]
  <2>1. ASSUME NEW p \in (SUBSET S) \X A, p[1] # {}
        PROVE  Recorded(m, p[2], s[Max(p[1])]) \in A
    <3>1. p[1] \in SUBSET S /\ p[2] \in A
      OBVIOUS
    <3> HIDE DEF A
    <3>2. Max(p[1]) \in S
      BY <1>2, <2>1, <3>1
    <3> QED
      BY <1>4, <3>1, <3>2
  <2> HIDE DEF A
  <2> QED
    BY <1>5, <2>1
<1> HIDE DEF A
<1>7. \A t \in SUBSET S, a \in A : t # {} =>
        step[<< t, a >>] = Recorded(m, a, s[Max(t)])
  OBVIOUS
<1> HIDE DEF step
<1>8. \A t \in SUBSET S : c[t] = Max(t)
  OBVIOUS
<1> HIDE DEF c, S
<1>9. PICK h \in [SUBSET S -> A] : Unfolds(h, S, << >>, c, step)
  BY <1>1, <1>3, <1>5, <1>6, FoldExists, Zenon
<1>10. ASSUME NEW t \in SUBSET S, t # {}
       PROVE  h[t] = Recorded(m, h[t \ {Max(t)}], s[Max(t)])
  <2>1. h[t] = step[<< t, h[t \ {Max(t)}] >>]
    BY <1>8, <1>9, <1>10 DEF Unfolds
  <2>2. h[t \ {Max(t)}] \in A
    BY <1>9
  <2> QED
    BY <1>7, <1>10, <2>1, <2>2
<1>11. \A t \in SUBSET S : t = {} => h[t] = << >>
  BY <1>9 DEF Unfolds
<1>12. h = [t \in SUBSET S |-> h[t]]
  BY <1>9
<1>13. Records(h, m, s, n)
  BY <1>10, <1>11, <1>12 DEF Records, S
<1> QED
  BY <1>13

\* The loop of changes_after finds the closed form.
LEMMA ChangesLoopIs ==
  ASSUME NEW K, NEW V, NEW m \in JournaledMap(K, V), NEW n \in 0..Len(m.old_entries)
  PROVE  ChangesLoop(m, n) = ChangesAfter(m, n)
<1> DEFINE len == Len(m.old_entries)
           s == Undone(m, n)
           h == CHOOSE g : Records(g, m, s, len - n)
<1>1. /\ len \in Nat /\ len - n \in Nat
      /\ DOMAIN s = 1..(len - n)
      /\ \A i \in 1..(len - n) :
           /\ s[i] = m.old_entries[len - i + 1]
           /\ s[i] \in [key : K, old : V \cup {None}]
  BY UndoneIs
<1>2. m.map \in [K -> V \cup {None}]
  BY DEF JournaledMap
<1>3. ChangesLoop(m, n) = h[1..(len - n)]
  <2>1. ChangesLoop(m, n) =
          MapThenFoldSet(LAMBDA e, acc : Recorded(m, acc, e), << >>,
                         LAMBDA i : s[i], LAMBDA t : Max(t), 1..(len - n))
    BY <1>1 DEF ChangesLoop, FoldLeft, Recorded
  <2> QED
    BY <2>1 DEF MapThenFoldSet, Records
<1> HIDE DEF s
<1>4. Records(h, m, s, len - n)
  <2> DEFINE W == V \cup {None}
             r == len - n
  <2>1. r \in Nat /\ m.map \in [K -> W] /\ \A i \in 1..r : s[i] \in [key : K, old : W]
    BY <1>1, <1>2
  <2> HIDE DEF W, r, h
  <2>3. \E g : Records(g, m, s, r)
    BY <2>1, RecordsExist
  <2>4. \E g : Records(g, m, s, len - n)
    BY <2>3 DEF r
  <2> QED
    BY <2>4 DEF h
<1> HIDE DEF h
<1> DEFINE Bad == {i \in 0..(len - n) : h[1..i] # ChangesAfter(m, len - i)}
<1>5. Bad = {}
  <2> SUFFICES ASSUME Bad # {} PROVE FALSE
    OBVIOUS
  <2>1. PICK i \in Bad : \A j \in Bad : i <= j
    <3>1. Bad \subseteq Nat
      BY <1>1
    <3> QED
      BY <3>1, LeastNatural
  <2>2. i \in Nat /\ i <= len - n /\ h[1..i] # ChangesAfter(m, len - i)
    BY <1>1, <2>1
  <2>3. i # 0
    <3>1. h[{}] = << >>
      BY <1>4 DEF Records
    <3>2. ChangesAfter(m, len) = << >>
      <4>1. {j \in DOMAIN m.map : Touched(m, len, j) # {}} = {}
        BY <1>1 DEF Touched
      <4>2. ChangesAfter(m, len) =
              [k \in {} |-> [before |-> MapAt(m, len)[k], after |-> m.map[k]]]
        BY <4>1 DEF ChangesAfter
      <4>3. \A f : f = [k \in {} |-> f[k]] => f = << >>
        OBVIOUS
      <4> QED
        BY <4>2, <4>3
    <3>3. i = 0 => 1..i = {} /\ len - i = len
      BY <1>1
    <3> QED
      BY <2>2, <3>1, <3>2, <3>3
  <2>4. Max(1..i) = i /\ (1..i) \ {i} = 1..(i - 1) /\ i \in 1..i
    <3>1. Max(1..i) = i /\ (1..i) \ {i} = 1..(i - 1)
      BY <2>2, <2>3, MaxOfPrefix
    <3> QED
      BY <2>2, <2>3, <3>1
  <2>5. h[1..i] = Recorded(m, h[1..(i - 1)], s[i])
    <3>1. 1..i \in SUBSET (1..(len - n))
      BY <1>1, <2>2
    <3>2. \A t \in SUBSET (1..(len - n)) : t # {} =>
            h[t] = Recorded(m, h[t \ {Max(t)}], s[Max(t)])
      BY <1>4 DEF Records
    <3> DEFINE t == 1..i
    <3>3. t # {} /\ t \in SUBSET (1..(len - n)) /\ Max(t) = i /\ t \ {i} = 1..(i - 1)
      BY <2>4, <3>1
    <3> HIDE DEF t
    <3>4. h[t] = Recorded(m, h[t \ {Max(t)}], s[Max(t)])
      BY <3>2, <3>3
    <3>5. h[t] = Recorded(m, h[1..(i - 1)], s[i])
      BY <3>3, <3>4
    <3> QED
      BY <3>5 DEF t
  <2>6. h[1..(i - 1)] = ChangesAfter(m, len - (i - 1))
    <3>1. i - 1 \in 0..(len - n) /\ ~(i <= i - 1)
      BY <1>1, <2>2, <2>3
    <3> QED
      BY <2>1, <3>1
  <2>7. s[i] = m.old_entries[len - i + 1]
    BY <1>1, <2>2, <2>3
  <2> DEFINE p == len - i + 1
  <2>8. p \in 1..len /\ len - (i - 1) = p /\ p - 1 = len - i
    BY <1>1, <2>2, <2>3
  <2>9. ChangesAfter(m, p - 1) = Recorded(m, ChangesAfter(m, p), m.old_entries[p])
    <3>1. p \in 1..len
      BY <2>8
    <3> HIDE DEF p
    <3> QED
      BY <3>1, ChangesStep
  <2> QED
    BY <2>2, <2>5, <2>6, <2>7, <2>8, <2>9
<1>6. h[1..(len - n)] = ChangesAfter(m, len - (len - n))
  BY <1>1, <1>5
<1>7. len - (len - n) = n
  BY <1>1
<1> QED
  BY <1>3, <1>6, <1>7

\* Undoing entry by entry ends where the closed form says in every reachable
\* state, for every journal and snapshot (RollbackableMap::rollback drains its
\* journal in reverse; module Rollback states what that amounts to).
THEOREM DrainsAgree == Spec => []DrainIsOldestEntry
<1>1. TypeOK => DrainIsOldestEntry
  BY DrainIsMapAt DEF TypeOK, DrainIsOldestEntry, DrainAgrees
<1> QED
  BY <1>1, TypeInvariant, PTL

-----------------------------------------------------------------------------
(* Changes *)

\* What a step may do to the map of writes
WritesStep ==
  \/ storage_writes' = storage_writes
  \/ storage_writes' = MapDeleteHistory(storage_writes)
  \/ \E k \in Keys, e \in WriteEntries :
       storage_writes' = MapInsert(storage_writes, k, e)
  \/ \E n \in 0..Len(storage_writes.old_entries) :
       \/ storage_writes' = MapRollback(storage_writes, n)
       \/ storage_writes' = MapDeleteHistory(MapRollback(storage_writes, n))

\* A snapshot of the host or of a call is within the journal.
LEMMA SnapshotWithin ==
  ASSUME TypeOK, NEW s \in Snapshots, CanRollbackTo(s)
  PROVE  s.storage_writes \in 0..Len(storage_writes.old_entries)
<1>1. Len(storage_writes.old_entries) \in Nat /\ s.storage_writes \in Nat
  BY LenProperties DEF TypeOK, JournaledMap, Snapshots
<1>2. s.storage_writes <= Len(storage_writes.old_entries)
  BY DEF CanRollbackTo, CanRollback
<1> QED
  BY <1>1, <1>2

\* Every step does one of these to the map of writes.
LEMMA NextWrites ==
  ASSUME TypeOK, [Next]_vars
  PROVE  WritesStep
<1>1. CASE StorageStep
  <2>1. PICK k \in Keys :
          \/ ReadStorage(k)
          \/ \E v \in Values : WriteFreeStorage(k, v) \/ WriteStorage(k, v)
    BY <1>1 DEF StorageStep
  <2>2. CASE ReadStorage(k)
    BY <2>2 DEF ReadStorage, rolled_back, WritesStep
  <2>3. ASSUME NEW v \in Values, WriteFreeStorage(k, v) \/ WriteStorage(k, v)
        PROVE  WritesStep
    <3>1. Paid(storage_writes.map[k]) \in Nat /\ WriteCost[k][v] \in Nat
      BY PaidType, SlotAssumption
    <3>2. \E e \in WriteEntries : storage_writes' = MapInsert(storage_writes, k, e)
      BY <2>3, <3>1 DEF WriteFreeStorage, WriteStorage, WriteEntries
    <3> QED
      BY <3>2 DEF WritesStep
  <2> QED
    BY <2>1, <2>2, <2>3
<1>2. CASE TransientStep \/ MessageStep \/ DecommitStep \/ UNCHANGED vars
  BY <1>2 DEF TransientStep, ReadTransientStorage, WriteTransientStorage, MessageStep,
       RecordEvent, RecordL2ToL1Log, ChargePubdata, DecommitStep, DecommitOpcode,
       vars, rolled_back, WritesStep
<1>3. CASE NearCall \/ FarCall \/ ReturnOk \/ MakeSnapshot \/ StartNewTx
  BY <1>3 DEF NearCall, FarCall, ReturnOk, MakeSnapshot, StartNewTx, rolled_back, WritesStep
<1>4. CASE ReturnFailed
  <2> DEFINE s == Top.world_before_this_frame
  <2>1. /\ frames # << >> /\ CanRollbackTo(s)
        /\ storage_writes' = MapRollback(storage_writes, s.storage_writes)
    BY <1>4 DEF ReturnFailed, RollbackTo
  <2>2. s \in Snapshots
    BY <2>1, PoppedType
  <2> HIDE DEF s
  <2>3. s.storage_writes \in 0..Len(storage_writes.old_entries)
    BY <2>1, <2>2, SnapshotWithin
  <2> QED
    BY <2>1, <2>3 DEF WritesStep
<1>5. CASE HostRollback
  <2> DEFINE s == snapshot[1].internal_snapshot
  <2>1. /\ snapshot # << >> /\ CanRollbackTo(s)
        /\ storage_writes' = MapDeleteHistory(MapRollback(storage_writes, s.storage_writes))
    BY <1>5 DEF HostRollback, CanRollbackExternally
  <2>2. s \in Snapshots
    <3>1. snapshot \in Seq(ExternalSnapshots)
      BY DEF TypeOK
    <3>2. snapshot[1] \in ExternalSnapshots
      BY <2>1, <3>1
    <3> QED
      BY <3>2 DEF ExternalSnapshots
  <2> HIDE DEF s
  <2>3. s.storage_writes \in 0..Len(storage_writes.old_entries)
    BY <2>1, <2>2, SnapshotWithin
  <2> QED
    BY <2>1, <2>3 DEF WritesStep
<1>6. CASE PopSnapshot
  BY <1>6 DEF PopSnapshot, WritesStep
<1> QED
  BY <1>1, <1>2, <1>3, <1>4, <1>5, <1>6 DEF Next, CallStep, HostStep

\* Once a key is in the journal it is in the map at every later point.
StaysPresent(m) ==
  \A n \in 0..Len(m.old_entries) : \A i \in 1..n :
    MapAt(m, n)[m.old_entries[i].key] # None

\* Inserting keeps what the journal names in the map.
LEMMA InsertStaysPresent ==
  ASSUME NEW K, NEW V, NEW m \in JournaledMap(K, V), StaysPresent(m),
         NEW k \in K, NEW v \in V, None \notin V
  PROVE  StaysPresent(MapInsert(m, k, v))
<1> DEFINE len == Len(m.old_entries)
           m2 == MapInsert(m, k, v)
<1>1. /\ m2 \in JournaledMap(K, V) /\ Len(m2.old_entries) = len + 1
      /\ \A n \in 0..len : MapAt(m2, n) = MapAt(m, n)
  BY InsertGrows DEF MapGrows
<1>2. len \in Nat /\ m.old_entries \in Seq([key : K, old : V \cup {None}])
      /\ m.map \in [K -> V \cup {None}]
  BY LenProperties DEF JournaledMap
<1>3. /\ m2.map = [m.map EXCEPT ![k] = v]
      /\ m2.old_entries = Append(m.old_entries, [key |-> k, old |-> m.map[k]])
  BY DEF MapInsert
<1>4. /\ \A i \in 1..len : m2.old_entries[i] = m.old_entries[i]
      /\ m2.old_entries[len + 1].key = k
  BY <1>2, <1>3
<1>5. MapAt(m2, len + 1) = m2.map
  BY <1>1, MapAtNow
<1>6. MapAt(m, len) = m.map
  BY MapAtNow
<1>7. \A i \in 1..len : m.old_entries[i].key \in K
  <2>1. \A i \in 1..len : m.old_entries[i] \in [key : K, old : V \cup {None}]
    BY <1>2, ElementOfSeq, Zenon
  <2> QED
    BY <2>1
<1>8. \A n \in 0..len : \A i \in 1..n : MapAt(m, n)[m.old_entries[i].key] # None
  BY DEF StaysPresent
<1> HIDE DEF len, m2
<1>9. ASSUME NEW n \in 0..(len + 1), NEW i \in 1..n
      PROVE  MapAt(m2, n)[m2.old_entries[i].key] # None
  <2>1. CASE n \in 0..len
    <3>1. i \in 1..len
      BY <1>2, <2>1
    <3> QED
      BY <1>1, <1>4, <1>8, <2>1, <3>1
  <2>2. CASE n = len + 1 /\ i \in 1..len
    <3>1. m.map[m.old_entries[i].key] # None
      <4>1. len \in 0..len /\ i \in 1..len
        BY <1>2, <2>2
      <4> QED
        BY <1>6, <1>8, <4>1
    <3>2. m2.map[m2.old_entries[i].key] # None
      <4> DEFINE x == m.old_entries[i].key
      <4>1. x \in K /\ m2.old_entries[i].key = x /\ m.map[x] # None
        BY <1>4, <1>7, <2>2, <3>1
      <4> HIDE DEF x
      <4>2. m2.map[x] = IF x = k THEN v ELSE m.map[x]
        BY <1>2, <1>3, <4>1
      <4>3. v # None
        OBVIOUS
      <4> QED
        BY <4>1, <4>2, <4>3
    <3> QED
      BY <1>5, <2>2, <3>2
  <2>3. CASE n = len + 1 /\ i = len + 1
    <3>1. m2.map[m2.old_entries[i].key] = v
      BY <1>2, <1>3, <1>4, <2>3
    <3> QED
      BY <1>5, <2>3, <3>1
  <2>4. n \in 0..len \/ n = len + 1
    BY <1>2
  <2>5. n = len + 1 => i \in 1..len \/ i = len + 1
    BY <1>2
  <2> QED
    BY <2>1, <2>2, <2>3, <2>4, <2>5
<1> QED
  BY <1>1, <1>9 DEF StaysPresent, m2

\* Rolling back does too.
LEMMA RollbackStaysPresent ==
  ASSUME NEW K, NEW V, NEW m \in JournaledMap(K, V), StaysPresent(m),
         NEW p \in 0..Len(m.old_entries)
  PROVE  StaysPresent(MapRollback(m, p))
<1> DEFINE m2 == MapRollback(m, p)
           len == Len(m.old_entries)
<1>1. /\ Len(m2.old_entries) = p
      /\ \A n \in 0..p : MapAt(m2, n) = MapAt(m, n)
  BY RollbackKeepsEarlier
<1>2. len \in Nat /\ m.old_entries \in Seq([key : K, old : V \cup {None}])
  BY LenProperties DEF JournaledMap
<1>3. \A i \in 1..p : m2.old_entries[i] = m.old_entries[i]
  <2>1. m2.old_entries = SubSeq(m.old_entries, 1, p)
    BY DEF MapRollback
  <2> QED
    BY <1>2, <2>1
<1>4. \A n \in 0..len : \A i \in 1..n : MapAt(m, n)[m.old_entries[i].key] # None
  BY DEF StaysPresent
<1>5. p \in 0..len
  OBVIOUS
<1> HIDE DEF m2, len
<1>6. ASSUME NEW n \in 0..p, NEW i \in 1..n
      PROVE  MapAt(m2, n)[m2.old_entries[i].key] # None
  <2>1. n \in 0..len /\ i \in 1..p
    BY <1>2, <1>5
  <2> QED
    BY <1>1, <1>3, <1>4, <2>1
<1> QED
  BY <1>1, <1>6 DEF StaysPresent, m2

\* Without a journal there is nothing to name.
LEMMA ForgottenStaysPresent ==
  ASSUME NEW m
  PROVE  StaysPresent(MapDeleteHistory(m))
<1>1. Len(MapDeleteHistory(m).old_entries) = 0
  BY DEF MapDeleteHistory
<1>2. \A n \in 0..0 : 1..n = {}
  OBVIOUS
<1> QED
  BY <1>1, <1>2 DEF StaysPresent

\* So does every step.
LEMMA NextStaysPresent ==
  ASSUME None \notin WriteEntries, TypeOK, StaysPresent(storage_writes), WritesStep
  PROVE  StaysPresent(storage_writes')
<1>1. storage_writes \in JournaledMap(Keys, WriteEntries)
  BY DEF TypeOK
<1> QED
  BY <1>1, InsertStaysPresent, RollbackStaysPresent, ForgottenStaysPresent DEF WritesStep

\* What the loop of changes_after finds is a true difference.
LEMMA ChangesAre ==
  ASSUME TypeOK, StaysPresent(storage_writes)
  PROVE  ChangesAreADiff
<1> DEFINE m == storage_writes
           len == Len(m.old_entries)
<1>1. /\ m \in JournaledMap(Keys, WriteEntries) /\ DOMAIN m.map = Keys /\ len \in Nat
      /\ m.old_entries \in Seq([key : Keys, old : WriteEntries \cup {None}])
  BY LenProperties DEF TypeOK, JournaledMap
<1>2. MapAt(m, len) = m.map
  BY <1>1, MapAtNow
<1> HIDE DEF m
<1>3. ASSUME NEW n \in 0..len
      PROVE  LET changes == ChangesAfter(m, n) IN
             /\ ChangesLoop(m, n) = changes
             /\ \A k \in DOMAIN changes : changes[k].after # None
             /\ \A k \in Keys \ DOMAIN changes : MapAt(m, n)[k] = m.map[k]
  <2> DEFINE changes == ChangesAfter(m, n)
             D == {j \in Keys : Touched(m, n, j) # {}}
  <2>1. ChangesLoop(m, n) = changes
    BY <1>1, ChangesLoopIs
  <2>2. changes = [k \in D |-> [before |-> MapAt(m, n)[k], after |-> m.map[k]]]
    BY <1>1 DEF ChangesAfter
  <2>3. ASSUME NEW k \in D
        PROVE  m.map[k] # None
    <3>1. PICK i \in 1..len : m.old_entries[i].key = k
      BY <1>1, <2>3 DEF Touched
    <3>2. len \in 0..Len(m.old_entries) /\ i \in 1..len
      BY <1>1
    <3>3. MapAt(m, len)[m.old_entries[i].key] # None
      BY <3>2 DEF StaysPresent, m
    <3> QED
      BY <1>2, <3>1, <3>3
  <2>4. \A k \in Keys \ D : MapAt(m, n)[k] = m.map[k]
    BY <1>1 DEF MapAt
  <2> HIDE DEF D
  <2> QED
    BY <2>1, <2>2, <2>3, <2>4
<1> QED
  BY <1>3 DEF ChangesAreADiff, m

\* changes_after reports the value every touched slot had at the snapshot and has
\* now, finds each of them in the map, and misses no slot that differs, after any
\* rollbacks of frames and of the host (RollbackableMap::changes_after).
THEOREM ChangesAreReported ==
  ASSUME None \notin WriteEntries
  PROVE  Spec => []ChangesAreADiff
<1> DEFINE Present == StaysPresent(storage_writes)
<1>1. Init => Present
  <2>1. \A n \in 0..0 : 1..n = {}
    OBVIOUS
  <2> QED
    BY <2>1 DEF Init, EmptyMap, StaysPresent
<1>2. TypeOK /\ Present /\ [Next]_vars => Present'
  <2> SUFFICES ASSUME TypeOK, Present, [Next]_vars PROVE Present'
    OBVIOUS
  <2>1. StaysPresent(storage_writes')
    BY NextWrites, NextStaysPresent
  <2> QED
    BY <2>1 DEF StaysPresent, MapAt, Touched
<1>3. TypeOK /\ Present => ChangesAreADiff
  BY ChangesAre
<1> QED
  BY <1>1, <1>2, <1>3, TypeInvariant, PTL DEF Spec

-----------------------------------------------------------------------------
(* The trace and its twins: the inductive invariant *)

\* What a map of writes says is in every slot
ValuesIn(writes) ==
  [k \in Keys |-> IF writes[k] # None THEN writes[k].value ELSE InitialValue[k]]

\* The parts of the trace's invariant, for any trace
WritesIn(logs, i, k) == {j \in 1..(i - 1) : logs[j].key = k /\ logs[j].rw_flag}

ReplayedIn(logs, i, k) ==
  IF WritesIn(logs, i, k) = {} THEN InitialValue[k]
  ELSE After(logs[Max(WritesIn(logs, i, k))])

\* Replaying logs explains every entry and ends in values.
Replays(logs, values) ==
  /\ \A i \in 1..Len(logs) : Before(logs[i]) = ReplayedIn(logs, i, logs[i].key)
  /\ \A k \in Keys : values[k] = ReplayedIn(logs, Len(logs) + 1, k)

IsForward(log) == log.rw_flag /\ ~log.rollback

\* Rollback entries undo one earlier write each.
UndoesOnce(logs) ==
  \A i \in 1..Len(logs) : logs[i].rollback =>
    /\ WriteOf(logs[i]) \in 1..(i - 1)
    /\ logs[WriteOf(logs[i])] = [logs[i] EXCEPT !.rollback = FALSE]
    /\ \A j \in 1..Len(logs) :
         logs[j].rollback /\ j # i => WriteOf(logs[j]) # WriteOf(logs[i])

\* held is the twins of the writes that are not undone, oldest first.
Holds(logs, held) ==
  /\ \A i \in 1..Len(held) :
       /\ WriteOf(held[i]) \in 1..Len(logs)
       /\ IsForward(logs[WriteOf(held[i])])
       /\ held[i] = [logs[WriteOf(held[i])] EXCEPT !.rollback = TRUE]
       /\ \A j \in 1..Len(logs) : logs[j].rollback => WriteOf(logs[j]) # WriteOf(held[i])
  /\ \A p \in 1..Len(logs) : IsForward(logs[p]) =>
       \/ \E i \in 1..Len(held) : WriteOf(held[i]) = p
       \/ \E j \in 1..Len(logs) : logs[j].rollback /\ WriteOf(logs[j]) = p
  /\ \A i, j \in 1..Len(held) : i < j => WriteOf(held[i]) < WriteOf(held[j])

\* The flags of the slots that logs accesses
FlagsFollow(flags, logs) ==
  \A k \in Keys :
    /\ (flags[k] = None) <=> \A j \in 1..Len(logs) : logs[j].key # k
    /\ flags[k] # None =>
         /\ SLOT_READ \in flags[k]
         /\ (SLOT_WRITTEN \in flags[k]) <=>
              \E j \in 1..Len(logs) : logs[j].key = k /\ IsForward(logs[j])
         /\ SLOT_PROTECTIVE_READ \notin flags[k]

GoodTrace(logs, held, values, flags) ==
  /\ UndoesOnce(logs)
  /\ Holds(logs, held)
  /\ Replays(logs, values)
  /\ FlagsFollow(flags, logs)

\* The journal of writes and the twins held back run in step: a twin for every
\* journal entry since the host last dropped the journal.
Offset(held, m) == Len(held) - Len(m.old_entries)

Mirrors(held, m, off) ==
  \A i \in 1..Len(m.old_entries) :
    LET k == m.old_entries[i].key
    IN /\ held[off + i].key = k
       /\ held[off + i].read_value = ValuesIn(MapAt(m, i - 1))[k]
       /\ held[off + i].written_value = ValuesIn(MapAt(m, i))[k]

Pending(m, held, logs, flags) ==
  /\ Offset(held, m) \in Nat
  /\ Mirrors(held, m, Offset(held, m))
  /\ GoodTrace(logs, held, ValuesIn(m.map), flags.map)

InStep(s, off) == s.rollback_storage_logs_len = s.storage_writes + off

\* The host would get such a trace back.
GoodCopy(copy, s, held) ==
  GoodTrace(copy.trace, LogRollback(held, s.internal_snapshot.rollback_storage_logs_len),
            ValuesIn(copy.world.writes), copy.ledger.flags)

\* Every snapshot was taken with the two in step.
SnapshotsInStep(calls, host, off) ==
  /\ \A i \in 1..Len(calls) : InStep(calls[i].world_before_this_frame, off)
  /\ \A b \in 1..Len(host) : InStep(host[b].internal_snapshot, off)

HostKeeps(copies, host, held) ==
  \A b \in 1..Len(host) : GoodCopy(copies[b], host[b], held)

TraceInv ==
  ~skip_storage_logs =>
    /\ Pending(storage_writes, rollback_storage_logs, storage_logs, slot_flags)
    /\ SnapshotsInStep(frames, snapshot, Offset(rollback_storage_logs, storage_writes))
    /\ HostKeeps(Batch, snapshot, rollback_storage_logs)

-----------------------------------------------------------------------------
(* One more entry: what it means for the replay *)

\* A trace with one more entry
Extends(new, logs, e) ==
  /\ logs \in Seq(LogQueries) /\ e \in LogQueries /\ new \in Seq(LogQueries)
  /\ Len(logs) \in Nat /\ Len(new) = Len(logs) + 1
  /\ \A i \in 1..Len(logs) : new[i] = logs[i]
  /\ new[Len(logs) + 1] = e

\* Appending is such an extension.
LEMMA AppendExtends ==
  ASSUME NEW logs \in Seq(LogQueries), NEW e \in LogQueries
  PROVE  Extends(Append(logs, e), logs, e)
  BY LenProperties, AppendProperties DEF Extends

\* Max finds the greatest element.
LEMMA MaxIs ==
  ASSUME NEW S, NEW x \in S, S \subseteq Int, \A y \in S : x >= y
  PROVE  Max(S) = x
<1>1. Max(S) \in S /\ \A y \in S : Max(S) >= y
  BY DEF Max
<1>2. Max(S) \in Int /\ x \in Int /\ Max(S) >= x /\ x >= Max(S)
  BY <1>1
<1> QED
  BY <1>2

\* An entry is replayed from those before it; then it decides its slot if it
\* writes.
LEMMA ReplayedExtends ==
  ASSUME NEW logs, NEW e, NEW new, Extends(new, logs, e)
  PROVE  /\ \A k : \A i \in 1..(Len(logs) + 1) : ReplayedIn(new, i, k) = ReplayedIn(logs, i, k)
         /\ \A k : ReplayedIn(new, Len(new) + 1, k) =
                     IF e.key = k /\ e.rw_flag THEN After(e)
                     ELSE ReplayedIn(logs, Len(logs) + 1, k)
<1> DEFINE n == Len(logs)
<1>1. n \in Nat /\ Len(new) = n + 1 /\ (\A i \in 1..n : new[i] = logs[i]) /\ new[n + 1] = e
  BY DEF Extends
<1> HIDE DEF n
<1>2. ASSUME NEW k, NEW i \in 1..(n + 1)
      PROVE  /\ WritesIn(new, i, k) = WritesIn(logs, i, k)
             /\ WritesIn(logs, i, k) \in SUBSET (1..n)
  <2>1. \A j \in 1..(i - 1) : j \in 1..n /\ new[j] = logs[j]
    BY <1>1
  <2> QED
    BY <2>1 DEF WritesIn
<1>3. ASSUME NEW k, NEW i \in 1..(n + 1), WritesIn(logs, i, k) # {}
      PROVE  Max(WritesIn(logs, i, k)) \in 1..n
  BY <1>1, <1>2, <1>3, MaxOfIndices
<1>4. ASSUME NEW k, NEW i \in 1..(n + 1)
      PROVE  ReplayedIn(new, i, k) = ReplayedIn(logs, i, k)
  <2>1. CASE WritesIn(logs, i, k) = {}
    BY <1>2, <2>1 DEF ReplayedIn
  <2>2. CASE WritesIn(logs, i, k) # {}
    <3> DEFINE j == Max(WritesIn(logs, i, k))
    <3>1. j \in 1..n
      BY <1>3, <2>2
    <3>2. WritesIn(new, i, k) = WritesIn(logs, i, k)
      BY <1>2
    <3>3. ReplayedIn(new, i, k) = After(new[j]) /\ ReplayedIn(logs, i, k) = After(logs[j])
      BY <2>2, <3>2 DEF ReplayedIn
    <3> HIDE DEF j
    <3> QED
      BY <1>1, <3>1, <3>3
  <2> QED
    BY <2>1, <2>2
<1>5. ASSUME NEW k
      PROVE  ReplayedIn(new, n + 2, k) =
               IF e.key = k /\ e.rw_flag THEN After(e) ELSE ReplayedIn(logs, n + 1, k)
  <2> DEFINE W == WritesIn(new, n + 2, k)
             V == WritesIn(new, n + 1, k)
  <2>1. n + 1 \in 1..(n + 1) /\ (n + 2) - 1 = n + 1 /\ (n + 1) - 1 = n
    BY <1>1
  <2>2. W = V \cup (IF e.key = k /\ e.rw_flag THEN {n + 1} ELSE {})
    <3>1. \A j : j \in 1..(n + 1) <=> j \in 1..n \/ j = n + 1
      BY <1>1
    <3> QED
      BY <1>1, <2>1, <3>1 DEF WritesIn
  <2>3. CASE e.key = k /\ e.rw_flag
    <3>1. V \in SUBSET (1..n)
      BY <1>2, <2>1
    <3>2. n + 1 \in W /\ W \subseteq Int /\ \A y \in W : n + 1 >= y
      <4>1. \A y \in W : y = n + 1 \/ y \in 1..n
        BY <2>2, <3>1
      <4>2. n + 1 \in W
        BY <2>2, <2>3
      <4> HIDE DEF W
      <4> QED
        BY <1>1, <4>1, <4>2
    <3> HIDE DEF W
    <3>3. Max(W) = n + 1 /\ W # {}
      BY <3>2, MaxIs
    <3>4. ReplayedIn(new, n + 2, k) = After(new[Max(W)])
      BY <3>3 DEF ReplayedIn, W
    <3> QED
      BY <1>1, <2>3, <3>3, <3>4
  <2>4. CASE ~(e.key = k /\ e.rw_flag)
    <3>1. W = V
      BY <2>2, <2>4
    <3>2. ReplayedIn(new, n + 2, k) = ReplayedIn(new, n + 1, k)
      BY <3>1 DEF ReplayedIn
    <3> QED
      BY <1>4, <2>1, <2>4, <3>2
  <2> QED
    BY <2>3, <2>4
<1>6. Len(new) + 1 = n + 2
  BY <1>1
<1> QED
  BY <1>4, <1>5, <1>6 DEF n

\* An entry that expects what is in its slot extends the replay.
LEMMA ReplaysExtends ==
  ASSUME NEW logs, NEW e, NEW new, Extends(new, logs, e),
         NEW values, Replays(logs, values), Before(e) = values[e.key],
         NEW after, \A k \in Keys : after[k] = IF e.key = k /\ e.rw_flag THEN After(e)
                                               ELSE values[k]
  PROVE  Replays(new, after)
<1> DEFINE n == Len(logs)
<1>1. n \in Nat /\ Len(new) = n + 1 /\ (\A i \in 1..n : new[i] = logs[i]) /\ new[n + 1] = e
      /\ e.key \in Keys
  BY DEF Extends, LogQueries
<1>2. /\ \A k : \A i \in 1..(n + 1) : ReplayedIn(new, i, k) = ReplayedIn(logs, i, k)
      /\ \A k : ReplayedIn(new, Len(new) + 1, k) =
                  IF e.key = k /\ e.rw_flag THEN After(e) ELSE ReplayedIn(logs, n + 1, k)
  BY ReplayedExtends
<1>3. /\ \A i \in 1..n : Before(logs[i]) = ReplayedIn(logs, i, logs[i].key)
      /\ \A k \in Keys : values[k] = ReplayedIn(logs, n + 1, k)
  BY DEF Replays
<1> HIDE DEF n
<1>4. ASSUME NEW i \in 1..(n + 1)
      PROVE  Before(new[i]) = ReplayedIn(new, i, new[i].key)
  <2>1. CASE i \in 1..n
    BY <1>1, <1>2, <1>3, <2>1
  <2>2. CASE i = n + 1
    BY <1>1, <1>2, <1>3, <2>2
  <2> QED
    BY <1>1, <2>1, <2>2
<1>5. \A k \in Keys : after[k] = ReplayedIn(new, Len(new) + 1, k)
  BY <1>2, <1>3
<1> QED
  BY <1>1, <1>4, <1>5 DEF Replays

\* A write or read undoes nothing.
LEMMA UndoesOnceForward ==
  ASSUME NEW logs, NEW e, NEW new, Extends(new, logs, e), UndoesOnce(logs), ~e.rollback
  PROVE  UndoesOnce(new)
<1> DEFINE n == Len(logs)
<1>1. n \in Nat /\ Len(new) = n + 1 /\ (\A i \in 1..n : new[i] = logs[i]) /\ new[n + 1] = e
  BY DEF Extends
<1>2. \A i \in 1..n : logs[i].rollback =>
        /\ WriteOf(logs[i]) \in 1..(i - 1)
        /\ logs[WriteOf(logs[i])] = [logs[i] EXCEPT !.rollback = FALSE]
        /\ \A j \in 1..n :
             logs[j].rollback /\ j # i => WriteOf(logs[j]) # WriteOf(logs[i])
  BY DEF UndoesOnce
<1> HIDE DEF n
<1>3. ASSUME NEW i \in 1..(n + 1), new[i].rollback
      PROVE  /\ WriteOf(new[i]) \in 1..(i - 1)
             /\ new[WriteOf(new[i])] = [new[i] EXCEPT !.rollback = FALSE]
             /\ \A j \in 1..(n + 1) :
                  new[j].rollback /\ j # i => WriteOf(new[j]) # WriteOf(new[i])
  <2>1. i \in 1..n /\ new[i] = logs[i] /\ logs[i].rollback
    BY <1>1, <1>3
  <2>2. \A j \in 1..(n + 1) : new[j].rollback => j \in 1..n /\ new[j] = logs[j]
    BY <1>1
  <2>3. WriteOf(logs[i]) \in 1..(i - 1)
    BY <1>2, <2>1
  <2>4. WriteOf(logs[i]) \in 1..n
    BY <1>1, <2>1, <2>3
  <2>5. new[WriteOf(new[i])] = [new[i] EXCEPT !.rollback = FALSE]
    BY <1>1, <1>2, <2>1, <2>4
  <2> QED
    BY <1>2, <2>1, <2>2, <2>3, <2>5
<1> QED
  BY <1>1, <1>3 DEF UndoesOnce

\* Appending the newest twin undoes the newest write not undone yet.
LEMMA UndoesOnceTwin ==
  ASSUME NEW logs, NEW held, NEW new, Len(held) \in Nat \ {0},
         Extends(new, logs, held[Len(held)]),
         UndoesOnce(logs), Holds(logs, held)
  PROVE  UndoesOnce(new)
<1> DEFINE n == Len(logs)
           e == held[Len(held)]
           p == WriteOf(e)
<1>1. n \in Nat /\ Len(new) = n + 1 /\ (\A i \in 1..n : new[i] = logs[i]) /\ new[n + 1] = e
      /\ e \in LogQueries /\ logs \in Seq(LogQueries)
  BY DEF Extends
<1>2. \A i \in 1..n : logs[i].rollback =>
        /\ WriteOf(logs[i]) \in 1..(i - 1)
        /\ logs[WriteOf(logs[i])] = [logs[i] EXCEPT !.rollback = FALSE]
        /\ \A j \in 1..n :
             logs[j].rollback /\ j # i => WriteOf(logs[j]) # WriteOf(logs[i])
  BY DEF UndoesOnce
<1>3. /\ p \in 1..n /\ IsForward(logs[p]) /\ e = [logs[p] EXCEPT !.rollback = TRUE]
      /\ \A j \in 1..n : logs[j].rollback => WriteOf(logs[j]) # p
  <2>1. Len(held) \in 1..Len(held)
    OBVIOUS
  <2> QED
    BY <2>1 DEF Holds
<1> HIDE DEF n, e, p
<1>4. logs[p] = [e EXCEPT !.rollback = FALSE]
  <2>1. logs[p] \in LogQueries
    BY <1>1, <1>3, ElementOfSeq, Zenon DEF n
  <2>2. logs[p].rollback = FALSE
    BY <1>3, <2>1 DEF IsForward, LogQueries
  <2> QED
    BY <1>3, <2>1, <2>2 DEF LogQueries
<1>5. ASSUME NEW i \in 1..(n + 1), new[i].rollback
      PROVE  /\ WriteOf(new[i]) \in 1..(i - 1)
             /\ new[WriteOf(new[i])] = [new[i] EXCEPT !.rollback = FALSE]
             /\ \A j \in 1..(n + 1) :
                  new[j].rollback /\ j # i => WriteOf(new[j]) # WriteOf(new[i])
  <2>1. CASE i = n + 1
    <3>1. WriteOf(new[i]) = p /\ p \in 1..(i - 1)
      BY <1>1, <1>3, <2>1 DEF p
    <3>2. new[p] = [new[i] EXCEPT !.rollback = FALSE]
      BY <1>1, <1>3, <1>4, <2>1
    <3>3. \A j \in 1..(n + 1) : j # i => j \in 1..n /\ new[j] = logs[j]
      BY <1>1, <2>1
    <3> QED
      BY <1>3, <3>1, <3>2, <3>3
  <2>2. CASE i \in 1..n
    <3>1. new[i] = logs[i] /\ logs[i].rollback
      BY <1>1, <1>5, <2>2
    <3>2. WriteOf(logs[i]) \in 1..(i - 1) /\ WriteOf(logs[i]) # p
      BY <1>2, <1>3, <2>2, <3>1
    <3>3. WriteOf(logs[i]) \in 1..n
      BY <1>1, <2>2, <3>2
    <3>4. new[WriteOf(new[i])] = [new[i] EXCEPT !.rollback = FALSE]
      BY <1>1, <1>2, <2>2, <3>1, <3>3
    <3>5. \A j \in 1..(n + 1) : \/ j = n + 1 /\ WriteOf(new[j]) = p
                                \/ j \in 1..n /\ new[j] = logs[j]
      BY <1>1 DEF p
    <3>6. WriteOf(new[i]) \in 1..(i - 1) /\ WriteOf(new[i]) # p
      BY <3>1, <3>2
    <3>7. ASSUME NEW j \in 1..n, logs[j].rollback, j # i
          PROVE  WriteOf(logs[j]) # WriteOf(new[i])
      BY <1>2, <2>2, <3>1, <3>7
    <3>8. \A j \in 1..(n + 1) : new[j].rollback /\ j # i => WriteOf(new[j]) # WriteOf(new[i])
      BY <3>5, <3>6, <3>7
    <3> QED
      BY <3>4, <3>6, <3>8
  <2> QED
    BY <1>1, <2>1, <2>2
<1> QED
  BY <1>1, <1>5 DEF UndoesOnce

-----------------------------------------------------------------------------
(* One more entry: the twins held back *)

\* A twin is in the trace's records, marked.
LEMMA TwinOf ==
  ASSUME NEW w \in LogQueries
  PROVE  LET e == [w EXCEPT !.rollback = TRUE]
         IN /\ e \in LogQueries /\ e.rollback /\ e.key = w.key
            /\ WriteOf(e) = WriteOf(w) /\ WriteOf(w) = w.timestamp + 1
            /\ e.read_value = w.read_value /\ e.written_value = w.written_value
            /\ e.rw_flag = w.rw_flag
  BY DEF LogQueries, WriteOf

\* A read is neither undone nor undoes.
LEMMA HoldsRead ==
  ASSUME NEW logs, NEW e, NEW new, Extends(new, logs, e), ~e.rollback, ~e.rw_flag,
         NEW held, Holds(logs, held)
  PROVE  Holds(new, held)
<1> DEFINE n == Len(logs)
<1>1. n \in Nat /\ Len(new) = n + 1 /\ (\A i \in 1..n : new[i] = logs[i]) /\ new[n + 1] = e
  BY DEF Extends
<1>2. /\ \A i \in 1..Len(held) :
           /\ WriteOf(held[i]) \in 1..n
           /\ IsForward(logs[WriteOf(held[i])])
           /\ held[i] = [logs[WriteOf(held[i])] EXCEPT !.rollback = TRUE]
           /\ \A j \in 1..n : logs[j].rollback => WriteOf(logs[j]) # WriteOf(held[i])
      /\ \A p \in 1..n : IsForward(logs[p]) =>
           \/ \E i \in 1..Len(held) : WriteOf(held[i]) = p
           \/ \E j \in 1..n : logs[j].rollback /\ WriteOf(logs[j]) = p
      /\ \A i, j \in 1..Len(held) : i < j => WriteOf(held[i]) < WriteOf(held[j])
  BY DEF Holds
<1> HIDE DEF n
<1>3. /\ \A j \in 1..(n + 1) : j \in 1..n \/ j = n + 1
      /\ \A j \in 1..n : j \in 1..(n + 1)
  BY <1>1
<1>4. ASSUME NEW i \in 1..Len(held)
      PROVE  /\ WriteOf(held[i]) \in 1..(n + 1)
             /\ IsForward(new[WriteOf(held[i])])
             /\ held[i] = [new[WriteOf(held[i])] EXCEPT !.rollback = TRUE]
             /\ \A j \in 1..(n + 1) : new[j].rollback => WriteOf(new[j]) # WriteOf(held[i])
  <2> DEFINE p == WriteOf(held[i])
  <2>1. p \in 1..n
    BY <1>2
  <2>2. p \in 1..(n + 1) /\ new[p] = logs[p]
    BY <1>1, <1>3, <2>1
  <2>3. \A j \in 1..(n + 1) : new[j].rollback => WriteOf(new[j]) # p
    BY <1>1, <1>2, <1>3
  <2> QED
    BY <1>2, <2>2, <2>3
<1>5. ASSUME NEW p \in 1..(n + 1), IsForward(new[p])
      PROVE  \/ \E i \in 1..Len(held) : WriteOf(held[i]) = p
             \/ \E j \in 1..(n + 1) : new[j].rollback /\ WriteOf(new[j]) = p
  <2>1. p \in 1..n /\ IsForward(logs[p])
    BY <1>1, <1>3, <1>5 DEF IsForward
  <2>2. \A j \in 1..n : j \in 1..(n + 1) /\ new[j] = logs[j]
    BY <1>1, <1>3
  <2> QED
    BY <1>2, <2>1, <2>2
<1> QED
  BY <1>1, <1>2, <1>4, <1>5 DEF Holds

\* A write's twin is held back with it.
LEMMA HoldsWrite ==
  ASSUME NEW logs, NEW w, NEW new, Extends(new, logs, w), IsForward(w),
         w.timestamp = Len(logs),
         NEW held, NEW more, Extends(more, held, [w EXCEPT !.rollback = TRUE]),
         UndoesOnce(logs), Holds(logs, held)
  PROVE  Holds(new, more)
<1> DEFINE n == Len(logs)
           h == Len(held)
           e == [w EXCEPT !.rollback = TRUE]
<1>1. n \in Nat /\ Len(new) = n + 1 /\ (\A i \in 1..n : new[i] = logs[i]) /\ new[n + 1] = w
  BY DEF Extends
<1>2. h \in Nat /\ Len(more) = h + 1 /\ (\A i \in 1..h : more[i] = held[i]) /\ more[h + 1] = e
  BY DEF Extends
<1>3. /\ \A i \in 1..h :
           /\ WriteOf(held[i]) \in 1..n
           /\ IsForward(logs[WriteOf(held[i])])
           /\ held[i] = [logs[WriteOf(held[i])] EXCEPT !.rollback = TRUE]
           /\ \A j \in 1..n : logs[j].rollback => WriteOf(logs[j]) # WriteOf(held[i])
      /\ \A p \in 1..n : IsForward(logs[p]) =>
           \/ \E i \in 1..h : WriteOf(held[i]) = p
           \/ \E j \in 1..n : logs[j].rollback /\ WriteOf(logs[j]) = p
      /\ \A i, j \in 1..h : i < j => WriteOf(held[i]) < WriteOf(held[j])
  BY DEF Holds
<1>4. WriteOf(e) = n + 1 /\ ~w.rollback
  <2>1. w \in LogQueries
    BY DEF Extends
  <2>2. WriteOf(e) = w.timestamp + 1
    BY <2>1, TwinOf
  <2> QED
    BY <2>2 DEF IsForward
<1>5. \A j \in 1..n : logs[j].rollback => WriteOf(logs[j]) \in 1..n
  <2>1. \A i \in 1..n : logs[i].rollback => WriteOf(logs[i]) \in 1..(i - 1)
    BY DEF UndoesOnce
  <2> HIDE DEF n
  <2> QED
    BY <1>1, <2>1
<1> HIDE DEF n, h, e
<1>6. /\ \A j \in 1..(n + 1) : j \in 1..n \/ j = n + 1
      /\ \A j \in 1..n : j \in 1..(n + 1) /\ j # n + 1 /\ j < n + 1
      /\ \A j \in 1..(h + 1) : j \in 1..h \/ j = h + 1
      /\ \A j \in 1..h : j \in 1..(h + 1)
      /\ n + 1 \in 1..(n + 1) /\ h + 1 \in 1..(h + 1)
  BY <1>1, <1>2
<1>7. ASSUME NEW i \in 1..(h + 1)
      PROVE  /\ WriteOf(more[i]) \in 1..(n + 1)
             /\ IsForward(new[WriteOf(more[i])])
             /\ more[i] = [new[WriteOf(more[i])] EXCEPT !.rollback = TRUE]
             /\ \A j \in 1..(n + 1) : new[j].rollback => WriteOf(new[j]) # WriteOf(more[i])
  <2>1. CASE i \in 1..h
    <3> DEFINE p == WriteOf(held[i])
    <3>1. more[i] = held[i] /\ p \in 1..n
      BY <1>2, <1>3, <2>1
    <3>2. p \in 1..(n + 1) /\ new[p] = logs[p]
      BY <1>1, <1>6, <3>1
    <3>3. \A j \in 1..n : logs[j].rollback => WriteOf(logs[j]) # p
      BY <1>3, <2>1
    <3>4. \A j \in 1..(n + 1) : new[j].rollback => WriteOf(new[j]) # p
      BY <1>1, <1>4, <1>6, <3>3
    <3> QED
      BY <1>3, <2>1, <3>1, <3>2, <3>4
  <2>2. CASE i = h + 1
    <3>1. more[i] = e /\ WriteOf(more[i]) = n + 1 /\ new[n + 1] = w
      BY <1>1, <1>2, <1>4, <2>2
    <3>2. \A j \in 1..(n + 1) : new[j].rollback => WriteOf(new[j]) # n + 1
      BY <1>1, <1>4, <1>5, <1>6
    <3> QED
      BY <1>6, <3>1, <3>2 DEF e
  <2> QED
    BY <1>6, <2>1, <2>2
<1>8. ASSUME NEW p \in 1..(n + 1), IsForward(new[p])
      PROVE  \/ \E i \in 1..(h + 1) : WriteOf(more[i]) = p
             \/ \E j \in 1..(n + 1) : new[j].rollback /\ WriteOf(new[j]) = p
  <2>1. CASE p = n + 1
    BY <1>2, <1>4, <1>6, <2>1
  <2>2. CASE p \in 1..n
    <3>1. IsForward(logs[p])
      BY <1>1, <1>8, <2>2
    <3>2. /\ \A j \in 1..n : j \in 1..(n + 1) /\ new[j] = logs[j]
          /\ \A i \in 1..h : i \in 1..(h + 1) /\ more[i] = held[i]
      BY <1>1, <1>2, <1>6
    <3> QED
      BY <1>3, <2>2, <3>1, <3>2
  <2> QED
    BY <1>6, <2>1, <2>2
<1>9. ASSUME NEW i \in 1..(h + 1), NEW j \in 1..(h + 1), i < j
      PROVE  WriteOf(more[i]) < WriteOf(more[j])
  <2>1. i \in 1..h /\ more[i] = held[i]
    BY <1>2, <1>9
  <2>2. CASE j \in 1..h
    BY <1>2, <1>3, <1>9, <2>1, <2>2
  <2>3. CASE j = h + 1
    <3>1. WriteOf(held[i]) \in 1..n /\ WriteOf(more[j]) = n + 1
      BY <1>2, <1>3, <1>4, <2>1, <2>3
    <3> QED
      BY <1>6, <2>1, <3>1
  <2> QED
    BY <1>6, <2>2, <2>3
<1> QED
  BY <1>1, <1>2, <1>7, <1>8, <1>9 DEF Holds

\* The newest twin leaves for the trace.
LEMMA HoldsTwin ==
  ASSUME NEW logs, NEW e, NEW new, Extends(new, logs, e),
         NEW held, NEW front, Extends(held, front, e), Holds(logs, held)
  PROVE  Holds(new, front)
<1> DEFINE n == Len(logs)
           h == Len(front)
<1>1. n \in Nat /\ Len(new) = n + 1 /\ (\A i \in 1..n : new[i] = logs[i]) /\ new[n + 1] = e
      /\ logs \in Seq(LogQueries)
  BY DEF Extends
<1>2. h \in Nat /\ Len(held) = h + 1 /\ (\A i \in 1..h : held[i] = front[i]) /\ held[h + 1] = e
  BY DEF Extends
<1>3. /\ \A i \in 1..(h + 1) :
           /\ WriteOf(held[i]) \in 1..n
           /\ IsForward(logs[WriteOf(held[i])])
           /\ held[i] = [logs[WriteOf(held[i])] EXCEPT !.rollback = TRUE]
           /\ \A j \in 1..n : logs[j].rollback => WriteOf(logs[j]) # WriteOf(held[i])
      /\ \A p \in 1..n : IsForward(logs[p]) =>
           \/ \E i \in 1..(h + 1) : WriteOf(held[i]) = p
           \/ \E j \in 1..n : logs[j].rollback /\ WriteOf(logs[j]) = p
      /\ \A i, j \in 1..(h + 1) : i < j => WriteOf(held[i]) < WriteOf(held[j])
  BY <1>2 DEF Holds
<1> HIDE DEF h
<1>4. /\ \A j \in 1..(n + 1) : j \in 1..n \/ j = n + 1
      /\ \A j \in 1..n : j \in 1..(n + 1)
      /\ \A j \in 1..(h + 1) : j \in 1..h \/ j = h + 1
      /\ \A j \in 1..h : j \in 1..(h + 1) /\ j < h + 1
      /\ n + 1 \in 1..(n + 1) /\ h + 1 \in 1..(h + 1)
  BY <1>1, <1>2
<1>5. e.rollback
  <2> DEFINE q == WriteOf(e)
  <2>1. q \in 1..n /\ e = [logs[q] EXCEPT !.rollback = TRUE]
    BY <1>2, <1>3, <1>4
  <2>2. logs[q] \in LogQueries
    BY <1>1, <2>1, ElementOfSeq, Zenon
  <2> QED
    BY <2>1, <2>2, TwinOf
<1> HIDE DEF n
<1>6. ASSUME NEW i \in 1..h
      PROVE  /\ WriteOf(front[i]) \in 1..(n + 1)
             /\ IsForward(new[WriteOf(front[i])])
             /\ front[i] = [new[WriteOf(front[i])] EXCEPT !.rollback = TRUE]
             /\ \A j \in 1..(n + 1) : new[j].rollback => WriteOf(new[j]) # WriteOf(front[i])
  <2> DEFINE p == WriteOf(front[i])
  <2>1. i \in 1..(h + 1) /\ held[i] = front[i] /\ i < h + 1
    BY <1>2, <1>4
  <2>2. p \in 1..n
    BY <1>3, <2>1
  <2>3. p \in 1..(n + 1) /\ new[p] = logs[p]
    BY <1>1, <1>4, <2>2
  <2>4. p < WriteOf(e) /\ WriteOf(e) \in 1..n
    BY <1>2, <1>3, <1>4, <2>1
  <2>5. p # WriteOf(e)
    <3> DEFINE q == WriteOf(e)
    <3>1. p \in 1..n /\ q \in 1..n /\ p < q
      BY <2>2, <2>4
    <3> HIDE DEF p, q
    <3>2. p # q
      BY <3>1
    <3> QED
      BY <3>2 DEF q
  <2>6. \A j \in 1..n : logs[j].rollback => WriteOf(logs[j]) # p
    BY <1>3, <2>1
  <2>7. \A j \in 1..(n + 1) : new[j].rollback => WriteOf(new[j]) # p
    BY <1>1, <1>4, <2>5, <2>6
  <2>8. IsForward(logs[p]) /\ front[i] = [logs[p] EXCEPT !.rollback = TRUE]
    BY <1>3, <2>1
  <2> QED
    BY <2>3, <2>7, <2>8
<1>7. ASSUME NEW p \in 1..(n + 1), IsForward(new[p])
      PROVE  \/ \E i \in 1..h : WriteOf(front[i]) = p
             \/ \E j \in 1..(n + 1) : new[j].rollback /\ WriteOf(new[j]) = p
  <2>1. p \in 1..n /\ IsForward(logs[p])
    BY <1>1, <1>4, <1>5, <1>7 DEF IsForward
  <2>2. CASE \E i \in 1..(h + 1) : WriteOf(held[i]) = p
    BY <1>1, <1>2, <1>4, <1>5, <2>2
  <2>3. CASE \E j \in 1..n : logs[j].rollback /\ WriteOf(logs[j]) = p
    BY <1>1, <1>4, <2>3
  <2> QED
    BY <1>3, <2>1, <2>2, <2>3
<1>8. \A i, j \in 1..h : i < j => WriteOf(front[i]) < WriteOf(front[j])
  BY <1>2, <1>3, <1>4
<1> QED
  BY <1>1, <1>6, <1>7, <1>8 DEF Holds, h

-----------------------------------------------------------------------------
(* One more entry: the flags *)

\* What an access leaves in the flags of its slot, and in no other
FlagsAfter(new, flags, k, is_write) ==
  /\ \A j \in Keys : j # k => new[j] = flags[j]
  /\ new[k] # None /\ SLOT_READ \in new[k] /\ SLOT_PROTECTIVE_READ \notin new[k]
  /\ SLOT_WRITTEN \in new[k] <=> is_write \/ (flags[k] # None /\ SLOT_WRITTEN \in flags[k])

\* An access sets the flags its entry calls for.
LEMMA FlagsFollowAccess ==
  ASSUME NEW logs, NEW e, NEW new, Extends(new, logs, e), ~e.rollback,
         NEW flags, FlagsFollow(flags, logs),
         NEW after, FlagsAfter(after, flags, e.key, e.rw_flag)
  PROVE  FlagsFollow(after, new)
<1> DEFINE n == Len(logs)
<1>1. n \in Nat /\ Len(new) = n + 1 /\ (\A i \in 1..n : new[i] = logs[i]) /\ new[n + 1] = e
      /\ e \in LogQueries
  BY DEF Extends
<1>2. \A k \in Keys :
        /\ (flags[k] = None) <=> \A j \in 1..n : logs[j].key # k
        /\ flags[k] # None =>
             /\ SLOT_READ \in flags[k]
             /\ (SLOT_WRITTEN \in flags[k]) <=>
                  \E j \in 1..n : logs[j].key = k /\ IsForward(logs[j])
             /\ SLOT_PROTECTIVE_READ \notin flags[k]
  BY DEF FlagsFollow
<1> HIDE DEF n
<1>3. /\ \A j \in 1..(n + 1) : (j \in 1..n /\ new[j] = logs[j]) \/ j = n + 1
      /\ \A j \in 1..n : j \in 1..(n + 1) /\ new[j] = logs[j]
      /\ n + 1 \in 1..(n + 1)
  BY <1>1
<1>4. IsForward(e) <=> e.rw_flag
  BY DEF IsForward
<1>5. ASSUME NEW k \in Keys
      PROVE  /\ (after[k] = None) <=> \A j \in 1..(n + 1) : new[j].key # k
             /\ after[k] # None =>
                  /\ SLOT_READ \in after[k]
                  /\ (SLOT_WRITTEN \in after[k]) <=>
                       \E j \in 1..(n + 1) : new[j].key = k /\ IsForward(new[j])
                  /\ SLOT_PROTECTIVE_READ \notin after[k]
  <2>1. /\ (\A j \in 1..(n + 1) : new[j].key # k) <=>
             e.key # k /\ \A j \in 1..n : logs[j].key # k
        /\ (\E j \in 1..(n + 1) : new[j].key = k /\ IsForward(new[j])) <=>
             \/ e.key = k /\ e.rw_flag
             \/ \E j \in 1..n : logs[j].key = k /\ IsForward(logs[j])
    <3>1. (\E j \in 1..(n + 1) : new[j].key = k /\ IsForward(new[j])) <=>
             \/ new[n + 1].key = k /\ IsForward(new[n + 1])
             \/ \E j \in 1..n : new[j].key = k /\ IsForward(new[j])
      BY <1>3
    <3> QED
      BY <1>1, <1>3, <1>4, <3>1
  <2>2. CASE k # e.key
    <3>1. after[k] = flags[k]
      BY <2>2 DEF FlagsAfter
    <3> QED
      BY <1>2, <2>1, <2>2, <3>1
  <2>3. CASE k = e.key
    <3>1. /\ after[k] # None /\ SLOT_READ \in after[k] /\ SLOT_PROTECTIVE_READ \notin after[k]
          /\ SLOT_WRITTEN \in after[k] <=>
               e.rw_flag \/ (flags[k] # None /\ SLOT_WRITTEN \in flags[k])
      BY <2>3 DEF FlagsAfter
    <3>2. flags[k] = None => ~\E j \in 1..n : logs[j].key = k /\ IsForward(logs[j])
      BY <1>2
    <3>3. (flags[k] # None /\ SLOT_WRITTEN \in flags[k]) <=>
            \E j \in 1..n : logs[j].key = k /\ IsForward(logs[j])
      BY <1>2, <3>2
    <3> QED
      BY <2>1, <2>3, <3>1, <3>3
  <2> QED
    BY <2>2, <2>3
<1> QED
  BY <1>1, <1>5 DEF FlagsFollow

\* A twin's slot was accessed by the write it undoes.
LEMMA FlagsFollowTwin ==
  ASSUME NEW logs, NEW e, NEW new, Extends(new, logs, e), e.rollback,
         NEW p \in 1..Len(logs), logs[p].key = e.key,
         NEW flags, FlagsFollow(flags, logs)
  PROVE  FlagsFollow(flags, new)
<1> DEFINE n == Len(logs)
<1>1. n \in Nat /\ Len(new) = n + 1 /\ (\A i \in 1..n : new[i] = logs[i]) /\ new[n + 1] = e
      /\ p \in 1..n
  BY DEF Extends
<1>2. \A k \in Keys :
        /\ (flags[k] = None) <=> \A j \in 1..n : logs[j].key # k
        /\ flags[k] # None =>
             /\ SLOT_READ \in flags[k]
             /\ (SLOT_WRITTEN \in flags[k]) <=>
                  \E j \in 1..n : logs[j].key = k /\ IsForward(logs[j])
             /\ SLOT_PROTECTIVE_READ \notin flags[k]
  BY DEF FlagsFollow
<1> HIDE DEF n
<1>3. /\ \A j \in 1..(n + 1) : (j \in 1..n /\ new[j] = logs[j]) \/ j = n + 1
      /\ \A j \in 1..n : j \in 1..(n + 1) /\ new[j] = logs[j]
  BY <1>1
<1>4. ~IsForward(e)
  BY DEF IsForward
<1>5. ASSUME NEW k \in Keys
      PROVE  /\ (\A j \in 1..(n + 1) : new[j].key # k) <=> \A j \in 1..n : logs[j].key # k
             /\ (\E j \in 1..(n + 1) : new[j].key = k /\ IsForward(new[j])) <=>
                  \E j \in 1..n : logs[j].key = k /\ IsForward(logs[j])
  <2>1. (\A j \in 1..n : logs[j].key # k) => e.key # k
    BY <1>1
  <2> QED
    BY <1>1, <1>3, <1>4, <2>1
<1> QED
  BY <1>1, <1>2, <1>5 DEF FlagsFollow

-----------------------------------------------------------------------------
(* The trace's invariant, entry by entry *)

\* One value changes.
Updates(now, values, k, v) == \A j \in Keys : now[j] = IF j = k THEN v ELSE values[j]

\* A trace stays good with a read of the present value.
LEMMA GoodRead ==
  ASSUME NEW logs, NEW held, NEW values, NEW flags, GoodTrace(logs, held, values, flags),
         NEW e, NEW new, Extends(new, logs, e), ~e.rollback, ~e.rw_flag,
         e.read_value = values[e.key],
         NEW after, FlagsAfter(after, flags, e.key, FALSE)
  PROVE  GoodTrace(new, held, values, after)
<1>1. UndoesOnce(new)
  BY UndoesOnceForward DEF GoodTrace
<1>2. Holds(new, held)
  BY HoldsRead DEF GoodTrace
<1>3. Replays(new, values)
  <2>1. /\ Replays(logs, values) /\ Before(e) = values[e.key]
        /\ \A k \in Keys : values[k] = IF e.key = k /\ e.rw_flag THEN After(e) ELSE values[k]
    BY DEF GoodTrace, Before
  <2> QED
    BY <2>1, ReplaysExtends
<1>4. FlagsFollow(after, new)
  <2>1. FlagsFollow(flags, logs) /\ FlagsAfter(after, flags, e.key, e.rw_flag)
    BY DEF GoodTrace, FlagsAfter
  <2> QED
    BY <2>1, FlagsFollowAccess
<1> QED
  BY <1>1, <1>2, <1>3, <1>4 DEF GoodTrace

\* It stays good with a write, whose twin is held back.
LEMMA GoodWrite ==
  ASSUME NEW logs, NEW held, NEW values, NEW flags, GoodTrace(logs, held, values, flags),
         NEW w, NEW new, Extends(new, logs, w), IsForward(w), w.timestamp = Len(logs),
         NEW more, Extends(more, held, [w EXCEPT !.rollback = TRUE]),
         w.read_value = values[w.key],
         NEW now, Updates(now, values, w.key, w.written_value),
         NEW after, FlagsAfter(after, flags, w.key, TRUE)
  PROVE  GoodTrace(new, more, now, after)
<1>1. UndoesOnce(new)
  BY UndoesOnceForward DEF GoodTrace, IsForward
<1>2. Holds(new, more)
  BY HoldsWrite DEF GoodTrace
<1>3. Replays(new, now)
  <2>1. /\ Replays(logs, values) /\ Before(w) = values[w.key]
        /\ \A k \in Keys : now[k] = IF w.key = k /\ w.rw_flag THEN After(w) ELSE values[k]
    BY DEF GoodTrace, Before, After, IsForward, Updates
  <2> QED
    BY <2>1, ReplaysExtends
<1>4. FlagsFollow(after, new)
  <2>1. FlagsFollow(flags, logs) /\ FlagsAfter(after, flags, w.key, w.rw_flag) /\ ~w.rollback
    BY DEF GoodTrace, FlagsAfter, IsForward
  <2> QED
    BY <2>1, FlagsFollowAccess
<1> QED
  BY <1>1, <1>2, <1>3, <1>4 DEF GoodTrace

\* It stays good when the newest twin leaves for the trace and its value returns.
LEMMA GoodTwin ==
  ASSUME NEW logs, NEW held, NEW values, NEW flags, GoodTrace(logs, held, values, flags),
         NEW e, NEW front, Extends(held, front, e),
         NEW new, Extends(new, logs, e),
         e.written_value = values[e.key],
         NEW now, Updates(now, values, e.key, e.read_value)
  PROVE  GoodTrace(new, front, now, flags)
<1>1. Len(held) \in Nat \ {0} /\ held[Len(held)] = e /\ logs \in Seq(LogQueries)
      /\ Len(held) \in 1..Len(held)
  BY DEF Extends
<1> DEFINE p == WriteOf(e)
<1>2. /\ p \in 1..Len(logs) /\ IsForward(logs[p]) /\ e = [logs[p] EXCEPT !.rollback = TRUE]
  BY <1>1 DEF GoodTrace, Holds
<1>3. logs[p] \in LogQueries
  BY <1>1, <1>2, ElementOfSeq, Zenon
<1>4. e.rollback /\ e.rw_flag /\ logs[p].key = e.key
  BY <1>2, <1>3, TwinOf DEF IsForward
<1>5. UndoesOnce(new)
  BY <1>1, UndoesOnceTwin DEF GoodTrace
<1>6. Holds(new, front)
  BY HoldsTwin DEF GoodTrace
<1>7. Replays(new, now)
  <2>1. /\ Replays(logs, values) /\ Before(e) = values[e.key]
        /\ \A k \in Keys : now[k] = IF e.key = k /\ e.rw_flag THEN After(e) ELSE values[k]
    BY <1>4 DEF GoodTrace, Before, After, Updates
  <2> QED
    BY <2>1, ReplaysExtends
<1>8. FlagsFollow(flags, new)
  BY <1>2, <1>4, FlagsFollowTwin DEF GoodTrace
<1> QED
  BY <1>5, <1>6, <1>7, <1>8 DEF GoodTrace

-----------------------------------------------------------------------------
(* Sequences, one entry longer at a time *)

\* What a prefix holds
LEMMA PrefixIs ==
  ASSUME NEW s \in Seq(LogQueries), NEW n \in 0..Len(s)
  PROVE  /\ SubSeq(s, 1, n) \in Seq(LogQueries)
         /\ Len(SubSeq(s, 1, n)) = n
         /\ \A i \in 1..n : SubSeq(s, 1, n)[i] = s[i]
<1>1. Len(s) \in Nat
  BY LenProperties
<1>2. \A i \in 1..n : i \in 1..Len(s)
  BY <1>1
<1>3. \A i \in 1..n : s[i] \in LogQueries
  BY <1>2, ElementOfSeq, Zenon
<1>4. 1 \in Int /\ n \in Int
  BY <1>1
<1> QED
  BY <1>1, <1>3, <1>4, SubSeqProperties

\* A prefix with one more entry
LEMMA PrefixExtends ==
  ASSUME NEW s \in Seq(LogQueries), NEW n \in 1..Len(s)
  PROVE  Extends(SubSeq(s, 1, n), SubSeq(s, 1, n - 1), s[n])
<1>1. Len(s) \in Nat /\ n \in 0..Len(s) /\ n - 1 \in 0..Len(s) /\ n \in Nat /\ (n - 1) + 1 = n
      /\ n - 1 \in Nat
  BY LenProperties
<1> DEFINE new == SubSeq(s, 1, n)
           logs == SubSeq(s, 1, n - 1)
<1>2. /\ new \in Seq(LogQueries) /\ Len(new) = n
      /\ \A i \in 1..n : new[i] = s[i]
  BY <1>1, PrefixIs
<1>3. /\ logs \in Seq(LogQueries) /\ Len(logs) = n - 1
      /\ \A i \in 1..(n - 1) : logs[i] = s[i]
  BY <1>1, PrefixIs
<1>4. s[n] \in LogQueries
  BY ElementOfSeq, Zenon
<1> HIDE DEF new, logs
<1>5. \A i \in 1..Len(logs) : new[i] = logs[i]
  <2>1. \A i \in 1..(n - 1) : i \in 1..n
    BY <1>1
  <2> QED
    BY <1>2, <1>3, <2>1
<1>6. new[Len(logs) + 1] = s[n]
  BY <1>1, <1>2, <1>3
<1> QED
  BY <1>1, <1>2, <1>3, <1>4, <1>5, <1>6 DEF Extends, new, logs

\* The prefix of full length is the sequence.
LEMMA WholePrefix ==
  ASSUME NEW s \in Seq(LogQueries)
  PROVE  SubSeq(s, 1, Len(s)) = s
<1>1. Len(s) \in Nat
  BY LenProperties
<1>2. Len(s) \in 0..Len(s)
  BY <1>1
<1>3. /\ SubSeq(s, 1, Len(s)) \in Seq(LogQueries) /\ Len(SubSeq(s, 1, Len(s))) = Len(s)
      /\ \A i \in 1..Len(s) : SubSeq(s, 1, Len(s))[i] = s[i]
  BY <1>2, PrefixIs
<1> QED
  BY <1>3, SeqEqual

\* Prefixes of a prefix are its own.
LEMMA SamePrefix ==
  ASSUME NEW s \in Seq(LogQueries), NEW t \in Seq(LogQueries),
         Len(t) <= Len(s), \A i \in 1..Len(t) : s[i] = t[i]
  PROVE  SubSeq(s, 1, Len(t)) = t
<1>1. Len(s) \in Nat /\ Len(t) \in Nat
  BY LenProperties
<1>2. Len(t) \in 0..Len(s)
  BY <1>1
<1>3. /\ SubSeq(s, 1, Len(t)) \in Seq(LogQueries) /\ Len(SubSeq(s, 1, Len(t))) = Len(t)
      /\ \A i \in 1..Len(t) : SubSeq(s, 1, Len(t))[i] = s[i]
  BY <1>2, PrefixIs
<1> QED
  BY <1>3, SeqEqual

\* A journal of writes, or of values.
Journal(m) == m \in JournaledMap(Keys, WriteEntries)

\* What undoing one journal entry does to the values
Restores(m, p, e) ==
  Updates(ValuesIn(MapAt(m, p - 1)), ValuesIn(MapAt(m, p)), e.key, e.read_value)

\* A journal entry holds what its slot had before it.
LEMMA UndoneValues ==
  ASSUME NEW m, Journal(m), NEW p \in 1..Len(m.old_entries),
         NEW e, e.key = m.old_entries[p].key,
         e.read_value = ValuesIn(MapAt(m, p - 1))[e.key]
  PROVE  Restores(m, p, e)
<1>1. Len(m.old_entries) \in Nat
  BY MapLength DEF Journal
<1>2. PutsBack(m, p)
  BY MapAtStep DEF Journal
<1>3. MapAt(m, p) \in [Keys -> WriteEntries \cup {None}]
  BY <1>1, MapAtType DEF Journal
<1>4. MapAt(m, p - 1) = [MapAt(m, p) EXCEPT ![e.key] = m.old_entries[p].old]
  BY <1>2 DEF PutsBack
<1>5. \A k \in Keys : k # e.key => MapAt(m, p - 1)[k] = MapAt(m, p)[k]
  BY <1>3, <1>4
<1> QED
  BY <1>5 DEF ValuesIn, Restores, Updates

\* Undoing the journal down to n appends the twins held back since, newest
\* first.
LEMMA UndoRun ==
  ASSUME NEW m, Journal(m), NEW held \in Seq(LogQueries),
         NEW logs \in Seq(LogQueries), NEW flags, Pending(m, held, logs, flags),
         NEW n \in 0..Len(m.old_entries), NEW final \in Seq(LogQueries),
         Len(final) = Len(logs) + (Len(m.old_entries) - n),
         \A i \in 1..Len(logs) : final[i] = logs[i],
         \A j \in 1..(Len(m.old_entries) - n) :
           final[Len(logs) + j] = held[(Len(held) + 1) - j]
  PROVE  GoodTrace(final, SubSeq(held, 1, Offset(held, m) + n),
                   ValuesIn(MapAt(m, n)), flags.map)
<1> DEFINE off == Offset(held, m)
           L == Len(logs)
           M == Len(m.old_entries)
           H == Len(held)
           Good(d) == GoodTrace(SubSeq(final, 1, L + d), SubSeq(held, 1, H - d),
                                ValuesIn(MapAt(m, M - d)), flags.map)
           Bad == {d \in 0..(M - n) : ~Good(d)}
<1>1. /\ off \in Nat /\ L \in Nat /\ M \in Nat /\ H \in Nat /\ H = off + M
      /\ M - n \in Nat /\ n \in Nat /\ Len(final) = L + (M - n)
  <2>1. L \in Nat /\ H \in Nat /\ M \in Nat
    BY LenProperties, MapLength DEF Journal
  <2> QED
    BY <2>1 DEF Pending, Offset
<1>2. Mirrors(held, m, off) /\ GoodTrace(logs, held, ValuesIn(m.map), flags.map)
  BY DEF Pending
<1>0. \A j \in 1..(M - n) : final[L + j] = held[(H + 1) - j]
  BY Zenon
<1> HIDE DEF off
<1>3. Good(0)
  <2>1. L + 0 = L /\ H - 0 = H /\ M - 0 = M
    BY <1>1
  <2>2. SubSeq(final, 1, L) = logs /\ SubSeq(held, 1, H) = held
    <3>1. Len(logs) <= Len(final)
      BY <1>1
    <3> QED
      BY <3>1, SamePrefix, WholePrefix
  <2>3. MapAt(m, M) = m.map
    BY MapAtNow DEF Journal
  <2>4. GoodTrace(SubSeq(final, 1, L), SubSeq(held, 1, H), ValuesIn(MapAt(m, M)), flags.map)
    BY <1>2, <2>2, <2>3
  <2> HIDE DEF L, H, M
  <2> QED
    BY <2>1, <2>4
<1> HIDE DEF L, H, M, Good, Bad
<1>4. ASSUME NEW d \in 0..(M - n), d + 1 \in 0..(M - n), Good(d)
      PROVE  Good(d + 1)
  <2> DEFINE e == held[H - d]
             p == M - d
             new == SubSeq(final, 1, L + (d + 1))
             front == SubSeq(held, 1, H - (d + 1))
  <2>0. d \in Nat /\ d + 1 <= M - n
    BY <1>1, <1>4
  <2>1. /\ p \in 1..M /\ H - d \in 1..H /\ L + (d + 1) \in 1..Len(final) /\ off + p = H - d
        /\ (L + (d + 1)) - 1 = L + d /\ (H - d) - 1 = H - (d + 1) /\ M - (d + 1) = p - 1
        /\ d + 1 \in 1..(M - n) /\ (H + 1) - (d + 1) = H - d
    <3> HIDE DEF e, new, front
    <3> DEFINE F == Len(final)
    <3>1. F \in Nat /\ F = L + (M - n)
      BY <1>1
    <3> HIDE DEF F
    <3>2. p \in 1..M /\ H - d \in 1..H /\ off + p = H - d
      BY <1>1, <2>0
    <3>3. L + (d + 1) \in 1..F
      BY <1>1, <2>0, <3>1
    <3>4. (L + (d + 1)) - 1 = L + d /\ (H - d) - 1 = H - (d + 1) /\ M - (d + 1) = p - 1
      BY <1>1, <2>0
    <3>5. d + 1 \in 1..(M - n) /\ (H + 1) - (d + 1) = H - d
      BY <1>1, <2>0
    <3> QED
      BY <3>2, <3>3, <3>4, <3>5 DEF F
  <2>2. e \in LogQueries
    BY <2>1, ElementOfSeq DEF H
  <2>3. Extends(SubSeq(held, 1, H - d), front, e)
    <3> DEFINE x == H - d
    <3>1. x \in 1..Len(held)
      BY <2>1 DEF H
    <3> HIDE DEF x
    <3>2. Extends(SubSeq(held, 1, x), SubSeq(held, 1, x - 1), held[x])
      BY <3>1, PrefixExtends
    <3> QED
      BY <2>1, <3>2 DEF x
  <2>4. Extends(new, SubSeq(final, 1, L + d), e)
    <3> DEFINE y == L + (d + 1)
    <3>1. y \in 1..Len(final)
      BY <2>1
    <3> HIDE DEF y
    <3>2. Extends(SubSeq(final, 1, y), SubSeq(final, 1, y - 1), final[y])
      BY <3>1, PrefixExtends
    <3>3. final[L + (d + 1)] = held[(H + 1) - (d + 1)]
      BY <1>0, <2>1
    <3> QED
      BY <2>1, <3>2, <3>3 DEF y
  <2>5. /\ e.key = m.old_entries[p].key
        /\ e.read_value = ValuesIn(MapAt(m, p - 1))[e.key]
        /\ e.written_value = ValuesIn(MapAt(m, p))[e.key]
    <3>1. held[off + p].key = m.old_entries[p].key
          /\ held[off + p].read_value = ValuesIn(MapAt(m, p - 1))[m.old_entries[p].key]
          /\ held[off + p].written_value = ValuesIn(MapAt(m, p))[m.old_entries[p].key]
      BY <1>2, <2>1 DEF Mirrors, M
    <3> QED
      BY <2>1, <3>1
  <2> HIDE DEF e, new, front, p
  <2>6. Restores(m, p, e)
    <3>1. p \in 1..Len(m.old_entries)
      BY <2>1 DEF M
    <3> HIDE DEF M
    <3>2. e.key = m.old_entries[p].key /\ e.read_value = ValuesIn(MapAt(m, p - 1))[e.key]
      BY <2>5
    <3> QED
      BY <3>1, <3>2, UndoneValues
  <2>7. GoodTrace(SubSeq(final, 1, L + d), SubSeq(held, 1, H - d),
                  ValuesIn(MapAt(m, p)), flags.map)
    BY <1>4 DEF Good, p
  <2>8. GoodTrace(new, front, ValuesIn(MapAt(m, p - 1)), flags.map)
    <3> DEFINE now == ValuesIn(MapAt(m, p - 1))
               values == ValuesIn(MapAt(m, p))
    <3>1. Updates(now, values, e.key, e.read_value)
      BY <2>6 DEF Restores
    <3>2. e.written_value = values[e.key]
      BY <2>5
    <3>3. GoodTrace(SubSeq(final, 1, L + d), SubSeq(held, 1, H - d), values, flags.map)
      BY <2>7
    <3> HIDE DEF now, values
    <3>4. GoodTrace(new, front, now, flags.map)
      BY <2>3, <2>4, <3>1, <3>2, <3>3, GoodTwin
    <3> QED
      BY <3>4 DEF now
  <2> QED
    BY <2>1, <2>8 DEF Good, new, front
<1>5. Bad = {}
  <2> SUFFICES ASSUME Bad # {} PROVE FALSE
    OBVIOUS
  <2> USE DEF Bad
  <2>1. PICK d \in Bad : \A j \in Bad : d <= j
    <3>1. Bad \subseteq Nat
      BY <1>1
    <3> QED
      BY <3>1, LeastNatural
  <2>2. d \in Nat /\ d <= M - n /\ ~Good(d)
    BY <1>1, <2>1
  <2>3. d # 0
    BY <1>3, <2>2
  <2> DEFINE c == d - 1
  <2>4. c \in 0..(M - n) /\ c + 1 = d /\ ~(d <= c) /\ d \in 0..(M - n)
    BY <1>1, <2>2, <2>3
  <2> HIDE DEF c
  <2>5. Good(c)
    BY <2>1, <2>4
  <2> QED
    BY <1>4, <2>2, <2>4, <2>5
<1>6. Good(M - n)
  <2>1. M - n \in 0..(M - n)
    BY <1>1
  <2> QED
    BY <1>5, <2>1 DEF Bad
<1>7. L + (M - n) = Len(final) /\ H - (M - n) = off + n /\ M - (M - n) = n
  BY <1>1
<1>8. SubSeq(final, 1, Len(final)) = final
  BY WholePrefix
<1> QED
  BY <1>6, <1>7, <1>8 DEF Good, off

-----------------------------------------------------------------------------
(* What a read, a write and a failure make of a trace *)

FlagMap(flags) == flags \in JournaledMap(Keys, SUBSET SlotFlags)

\* add_flags unites.
Unites(new, flags, k, f) ==
  /\ FlagMap(new)
  /\ \A j \in Keys : j # k => new.map[j] = flags.map[j]
  /\ new.map[k] # None
  /\ new.map[k] = f \cup (IF flags.map[k] = None THEN {} ELSE flags.map[k])

\* add_flags does.
LEMMA AddFlagsUnites ==
  ASSUME None \notin SUBSET SlotFlags, NEW flags, FlagMap(flags), NEW k \in Keys,
         NEW f \in SUBSET SlotFlags
  PROVE  Unites(AddFlags(flags, k, f), flags, k, f)
<1>1. /\ flags.map \in [Keys -> (SUBSET SlotFlags) \cup {None}]
      /\ flags.map[k] \in (SUBSET SlotFlags) \cup {None}
  BY DEF FlagMap, JournaledMap
<1>2. FlagMap(AddFlags(flags, k, f))
  BY AddFlagsType DEF FlagMap
<1>3. CASE AddsFlags(flags, k, f)
  <2> DEFINE v == IF flags.map[k] = None THEN f ELSE flags.map[k] \cup f
  <2>1. AddFlags(flags, k, f).map = [flags.map EXCEPT ![k] = v]
    BY <1>3 DEF AddFlags, MapInsert
  <2>2. /\ v \in SUBSET SlotFlags
        /\ v = f \cup (IF flags.map[k] = None THEN {} ELSE flags.map[k])
    BY <1>1
  <2>3. v # None
    BY <2>2
  <2> HIDE DEF v
  <2> QED
    BY <1>1, <1>2, <2>1, <2>2, <2>3 DEF Unites
<1>4. CASE ~AddsFlags(flags, k, f)
  <2>1. AddFlags(flags, k, f) = flags /\ flags.map[k] # None /\ f \subseteq flags.map[k]
    BY <1>4 DEF AddFlags, AddsFlags
  <2>2. flags.map[k] = f \cup flags.map[k]
    BY <2>1
  <2> QED
    BY <1>2, <2>1, <2>2 DEF Unites
<1> QED
  BY <1>3, <1>4

\* What is in the union of flags
LEMMA UnitedFlags ==
  ASSUME NEW logs, NEW flags, FlagsFollow(flags.map, logs), NEW k \in Keys,
         NEW f \in {{SLOT_READ}, {SLOT_READ, SLOT_WRITTEN}}, NEW new, Unites(new, flags, k, f)
  PROVE  FlagsAfter(new.map, flags.map, k, f = {SLOT_READ, SLOT_WRITTEN})
<1>1. flags.map[k] # None => SLOT_PROTECTIVE_READ \notin flags.map[k]
  BY DEF FlagsFollow
<1>2. /\ SLOT_READ # SLOT_WRITTEN /\ SLOT_READ # SLOT_PROTECTIVE_READ
      /\ SLOT_WRITTEN # SLOT_PROTECTIVE_READ
  BY DEF SLOT_READ, SLOT_WRITTEN, SLOT_PROTECTIVE_READ
<1>3. SLOT_WRITTEN \in f <=> f = {SLOT_READ, SLOT_WRITTEN}
  BY <1>2
<1>4. SLOT_READ \in f /\ SLOT_PROTECTIVE_READ \notin f
  BY <1>2
<1> QED
  BY <1>1, <1>3, <1>4 DEF Unites, FlagsAfter

\* A read keeps record and journal in step.
LEMMA PendingRead ==
  ASSUME None \notin SUBSET SlotFlags,
         NEW m, NEW held, NEW logs \in Seq(LogQueries), NEW flags, FlagMap(flags),
         Pending(m, held, logs, flags),
         NEW e \in LogQueries, ~e.rw_flag, ~e.rollback,
         e.read_value = ValuesIn(m.map)[e.key]
  PROVE  Pending(m, held, Append(logs, e), AddFlags(flags, e.key, {SLOT_READ}))
<1> DEFINE new == AddFlags(flags, e.key, {SLOT_READ})
<1>1. e.key \in Keys
  BY DEF LogQueries
<1>2. GoodTrace(logs, held, ValuesIn(m.map), flags.map)
  BY DEF Pending
<1>3. Unites(new, flags, e.key, {SLOT_READ})
  BY <1>1, FlagSets, AddFlagsUnites
<1> HIDE DEF new
<1>4. FlagsAfter(new.map, flags.map, e.key, FALSE)
  <2>1. {SLOT_READ} # {SLOT_READ, SLOT_WRITTEN}
    <3>1. SLOT_WRITTEN # SLOT_READ
      BY DEF SLOT_READ, SLOT_WRITTEN
    <3>2. SLOT_WRITTEN \notin {SLOT_READ} /\ SLOT_WRITTEN \in {SLOT_READ, SLOT_WRITTEN}
      BY <3>1
    <3> QED
      BY <3>2, Zenon
  <2>2. FlagsAfter(new.map, flags.map, e.key, {SLOT_READ} = {SLOT_READ, SLOT_WRITTEN})
    BY <1>1, <1>2, <1>3, UnitedFlags DEF GoodTrace
  <2> QED
    BY <2>1, <2>2 DEF FlagsAfter
<1>5. Extends(Append(logs, e), logs, e)
  BY AppendExtends
<1>6. GoodTrace(Append(logs, e), held, ValuesIn(m.map), new.map)
  BY <1>2, <1>4, <1>5, GoodRead
<1> QED
  BY <1>6 DEF Pending, new

\* The flags a write leaves: WRITTEN at least, and READ already or now.
LEMMA WrittenFlags ==
  ASSUME None \notin SUBSET SlotFlags, NEW logs, NEW flags, FlagMap(flags),
         FlagsFollow(flags.map, logs), NEW k \in Keys,
         NEW new,
         \/ new = AddFlags(AddFlags(flags, k, {SLOT_WRITTEN}), k, {SLOT_READ})
         \/ ~AddsFlags(flags, k, {SLOT_WRITTEN}) /\ new = AddFlags(flags, k, {SLOT_WRITTEN})
  PROVE  FlagsAfter(new.map, flags.map, k, TRUE)
<1> DEFINE mid == AddFlags(flags, k, {SLOT_WRITTEN})
<1>1. Unites(mid, flags, k, {SLOT_WRITTEN})
  BY FlagSets, AddFlagsUnites
<1>2. FlagMap(mid)
  BY <1>1 DEF Unites
<1>3. Unites(AddFlags(mid, k, {SLOT_READ}), mid, k, {SLOT_READ})
  BY <1>2, FlagSets, AddFlagsUnites
<1>4. Unites(new, flags, k, {SLOT_READ, SLOT_WRITTEN})
  <2>1. CASE new = AddFlags(mid, k, {SLOT_READ})
    <3> HIDE DEF mid
    <3>1. Unites(new, mid, k, {SLOT_READ})
      BY <1>3, <2>1
    <3> QED
      BY <1>1, <3>1 DEF Unites
  <2>2. CASE ~AddsFlags(flags, k, {SLOT_WRITTEN}) /\ new = mid
    <3>1. flags.map[k] # None /\ SLOT_READ \in flags.map[k]
      BY <2>2 DEF AddsFlags, FlagsFollow
    <3>2. Unites(new, flags, k, {SLOT_WRITTEN})
      BY <1>1, <2>2
    <3> QED
      BY <3>1, <3>2 DEF Unites
  <2> QED
    BY <2>1, <2>2
<1>5. FlagsAfter(new.map, flags.map, k, {SLOT_READ, SLOT_WRITTEN} = {SLOT_READ, SLOT_WRITTEN})
  BY <1>4, UnitedFlags
<1> QED
  BY <1>5 DEF FlagsAfter

\* A write journals what was there, and its twin remembers the same.
LEMMA MirrorsWrite ==
  ASSUME None \notin WriteEntries, NEW m, Journal(m), NEW held \in Seq(LogQueries),
         Offset(held, m) \in Nat, Mirrors(held, m, Offset(held, m)),
         NEW e \in LogQueries, e.read_value = ValuesIn(m.map)[e.key],
         NEW x \in WriteEntries, e.written_value = x.value
  PROVE  /\ Offset(Append(held, e), MapInsert(m, e.key, x)) = Offset(held, m)
         /\ Mirrors(Append(held, e), MapInsert(m, e.key, x), Offset(held, m))
<1> DEFINE more == Append(held, e)
           m2 == MapInsert(m, e.key, x)
           M == Len(m.old_entries)
           off == Offset(held, m)
<1>1. e.key \in Keys /\ m \in JournaledMap(Keys, WriteEntries)
  BY DEF LogQueries, Journal
<1>2. M \in Nat /\ off \in Nat /\ Len(held) = off + M /\ Len(held) \in Nat
  <2>1. M \in Nat /\ Len(held) \in Nat
    BY <1>1, MapLength, LenProperties
  <2> QED
    BY <2>1 DEF Offset
<1>3. /\ Len(more) = Len(held) + 1 /\ more[Len(held) + 1] = e
      /\ \A i \in 1..Len(held) : more[i] = held[i]
  BY AppendProperties
<1>4. /\ m2 \in JournaledMap(Keys, WriteEntries) /\ Len(m2.old_entries) = M + 1
      /\ \A n \in 0..M : MapAt(m2, n) = MapAt(m, n)
  BY <1>1, InsertGrows DEF MapGrows
<1>5. /\ m2.old_entries = Append(m.old_entries, [key |-> e.key, old |-> m.map[e.key]])
      /\ m2.map = [m.map EXCEPT ![e.key] = x]
  BY DEF MapInsert
<1>6. /\ m2.old_entries[M + 1].key = e.key
      /\ \A i \in 1..M : m2.old_entries[i] = m.old_entries[i]
  <2>1. /\ m.old_entries \in Seq([key : Keys, old : WriteEntries \cup {None}])
        /\ m.map[e.key] \in WriteEntries \cup {None}
    BY <1>1 DEF JournaledMap
  <2>2. [key |-> e.key, old |-> m.map[e.key]] \in [key : Keys, old : WriteEntries \cup {None}]
    BY <1>1, <2>1
  <2> QED
    BY <1>5, <2>1, <2>2, AppendProperties
<1>7. ValuesIn(MapAt(m2, M)) = ValuesIn(m.map) /\ MapAt(m2, M + 1) = m2.map
  <2>1. MapAt(m2, M) = MapAt(m, M) /\ MapAt(m, M) = m.map
    BY <1>1, <1>2, <1>4, MapAtNow
  <2>2. MapAt(m2, Len(m2.old_entries)) = m2.map
    BY <1>4, MapAtNow
  <2> QED
    BY <1>4, <2>1, <2>2
<1>8. ValuesIn(m2.map)[e.key] = x.value
  <2>1. m2.map[e.key] = x
    BY <1>1, <1>5 DEF JournaledMap
  <2>2. x # None
    OBVIOUS
  <2> QED
    BY <1>1, <2>1, <2>2 DEF ValuesIn
<1>9. Offset(more, m2) = off
  <2> HIDE DEF more, m2
  <2> QED
    BY <1>2, <1>3, <1>4 DEF Offset
<1>10. \A i \in 1..M :
        /\ held[off + i].key = m.old_entries[i].key
        /\ held[off + i].read_value = ValuesIn(MapAt(m, i - 1))[m.old_entries[i].key]
        /\ held[off + i].written_value = ValuesIn(MapAt(m, i))[m.old_entries[i].key]
  BY DEF Mirrors
<1> HIDE DEF more, m2, M, off
<1>11. ASSUME NEW i \in 1..(M + 1)
       PROVE  /\ more[off + i].key = m2.old_entries[i].key
              /\ more[off + i].read_value = ValuesIn(MapAt(m2, i - 1))[m2.old_entries[i].key]
              /\ more[off + i].written_value = ValuesIn(MapAt(m2, i))[m2.old_entries[i].key]
  <2>1. CASE i = M + 1
    <3>1. more[off + i] = e /\ i - 1 = M
      <4>1. off + i = Len(held) + 1 /\ i - 1 = M
        BY <1>2, <2>1
      <4> QED
        BY <1>3, <4>1
    <3> QED
      BY <1>6, <1>7, <1>8, <2>1, <3>1
  <2>2. CASE i \in 1..M
    <3>1. off + i \in 1..Len(held) /\ i - 1 \in 0..M /\ i \in 0..M
      BY <1>2, <2>2
    <3>2. more[off + i] = held[off + i] /\ m2.old_entries[i] = m.old_entries[i]
          /\ MapAt(m2, i - 1) = MapAt(m, i - 1) /\ MapAt(m2, i) = MapAt(m, i)
      BY <1>3, <1>4, <1>6, <2>2, <3>1
    <3> QED
      BY <1>10, <2>2, <3>2
  <2>3. i = M + 1 \/ i \in 1..M
    BY <1>2
  <2> QED
    BY <2>1, <2>2, <2>3
<1>12. Mirrors(more, m2, off)
  BY <1>4, <1>11 DEF Mirrors
<1> QED
  BY <1>9, <1>12 DEF more, m2, off

\* So does a write.
LEMMA PendingWrite ==
  ASSUME NoneIsNoRecord, NEW m, Journal(m), NEW held \in Seq(LogQueries),
         NEW logs \in Seq(LogQueries), NEW flags, FlagMap(flags),
         Pending(m, held, logs, flags),
         NEW w \in LogQueries, w.rw_flag, ~w.rollback, w.timestamp = Len(logs),
         w.read_value = ValuesIn(m.map)[w.key],
         NEW x \in WriteEntries, w.written_value = x.value,
         NEW new,
         \/ new = AddFlags(AddFlags(flags, w.key, {SLOT_WRITTEN}), w.key, {SLOT_READ})
         \/ /\ ~AddsFlags(flags, w.key, {SLOT_WRITTEN})
            /\ new = AddFlags(flags, w.key, {SLOT_WRITTEN})
  PROVE  /\ Pending(MapInsert(m, w.key, x), Append(held, [w EXCEPT !.rollback = TRUE]),
                    Append(logs, w), new)
         /\ Offset(Append(held, [w EXCEPT !.rollback = TRUE]), MapInsert(m, w.key, x))
              = Offset(held, m)
<1> DEFINE e == [w EXCEPT !.rollback = TRUE]
           m2 == MapInsert(m, w.key, x)
           more == Append(held, e)
<1>1. w.key \in Keys /\ e \in LogQueries /\ e.key = w.key /\ e.read_value = w.read_value
      /\ e.written_value = w.written_value
  BY TwinOf DEF LogQueries
<1>2. /\ Offset(held, m) \in Nat /\ Mirrors(held, m, Offset(held, m))
      /\ GoodTrace(logs, held, ValuesIn(m.map), flags.map)
  BY DEF Pending
<1>3. None \notin WriteEntries /\ None \notin SUBSET SlotFlags
  BY DEF NoneIsNoRecord
<1>4. m2.map = [m.map EXCEPT ![w.key] = x] /\ m.map \in [Keys -> WriteEntries \cup {None}]
  BY DEF MapInsert, Journal, JournaledMap
<1> HIDE DEF e
<1>5. Offset(more, m2) = Offset(held, m) /\ Mirrors(more, m2, Offset(held, m))
  <2>1. e.read_value = ValuesIn(m.map)[e.key] /\ e.written_value = x.value
    BY <1>1
  <2>2. /\ Offset(Append(held, e), MapInsert(m, e.key, x)) = Offset(held, m)
        /\ Mirrors(Append(held, e), MapInsert(m, e.key, x), Offset(held, m))
    BY <1>1, <1>2, <1>3, <2>1, MirrorsWrite
  <2> QED
    BY <1>1, <2>2
<1> HIDE DEF m2
<1>6. FlagsAfter(new.map, flags.map, w.key, TRUE)
  BY <1>1, <1>2, <1>3, WrittenFlags DEF GoodTrace
<1>7. Extends(Append(logs, w), logs, w) /\ Extends(more, held, [w EXCEPT !.rollback = TRUE])
  BY <1>1, AppendExtends DEF e
<1> HIDE DEF more
<1> DEFINE now == ValuesIn(m2.map)
           values == ValuesIn(m.map)
<1>8. Updates(now, values, w.key, w.written_value)
  BY <1>1, <1>3, <1>4 DEF ValuesIn, Updates
<1>9. w.read_value = values[w.key] /\ GoodTrace(logs, held, values, flags.map) /\ IsForward(w)
  BY <1>2 DEF IsForward
<1> HIDE DEF now, values
<1>10. GoodTrace(Append(logs, w), more, now, new.map)
  BY <1>6, <1>7, <1>8, <1>9, GoodWrite
<1> QED
  BY <1>2, <1>5, <1>10 DEF Pending, now, m2, more, e

\* What a concatenation holds
LEMMA ConcatSimple ==
  ASSUME NEW s \in Seq(LogQueries), NEW t \in Seq(LogQueries)
  PROVE  /\ s \o t \in Seq(LogQueries) /\ Len(s \o t) = Len(s) + Len(t)
         /\ \A i \in 1..Len(s) : (s \o t)[i] = s[i]
         /\ \A j \in 1..Len(t) : (s \o t)[Len(s) + j] = t[j]
<1>1. /\ s \o t \in Seq(LogQueries) /\ Len(s \o t) = Len(s) + Len(t)
      /\ \A i \in 1..(Len(s) + Len(t)) :
           (s \o t)[i] = IF i <= Len(s) THEN s[i] ELSE t[i - Len(s)]
  BY ConcatProperties
<1>2. Len(s) \in Nat /\ Len(t) \in Nat
  BY LenProperties
<1>3. ASSUME NEW j \in 1..Len(t)
      PROVE  (s \o t)[Len(s) + j] = t[j]
  <2>1. Len(s) + j \in 1..(Len(s) + Len(t)) /\ ~(Len(s) + j <= Len(s))
        /\ (Len(s) + j) - Len(s) = j
    BY <1>2
  <2> DEFINE p == Len(s) + j
  <2>2. p \in 1..(Len(s) + Len(t)) /\ ~(p <= Len(s)) /\ p - Len(s) = j
    BY <2>1
  <2> HIDE DEF p
  <2>3. (s \o t)[p] = t[p - Len(s)]
    BY <1>1, <2>2
  <2> QED
    BY <2>2, <2>3 DEF p
<1>4. \A i \in 1..Len(s) : i \in 1..(Len(s) + Len(t)) /\ i <= Len(s)
  BY <1>2
<1> QED
  BY <1>1, <1>3, <1>4

\* The newest entries, newest first, and what is left without them
LEMMA SuffixIs ==
  ASSUME NEW s \in Seq(LogQueries), NEW r \in 0..Len(s)
  PROVE  LET rev == ReverseSeq(SubSeq(s, r + 1, Len(s)))
         IN /\ rev \in Seq(LogQueries) /\ Len(rev) = Len(s) - r
            /\ \A j \in 1..(Len(s) - r) : rev[j] = s[(Len(s) + 1) - j]
<1> DEFINE undone == SubSeq(s, r + 1, Len(s))
           n == Len(s)
<1>1. n \in Nat /\ r \in Nat /\ n - r \in Nat /\ r <= n
  <2>1. n \in Nat
    BY LenProperties
  <2> QED
    BY <2>1
<1>2. \A i \in (r + 1)..n : s[i] \in LogQueries
  <2>1. \A i \in (r + 1)..n : i \in 1..n
    BY <1>1
  <2> QED
    BY <2>1, ElementOfSeq, Zenon
<1>3. /\ Len(undone) = n - r
      /\ \A j \in 1..(n - r) : undone[j] = s[r + j]
  <2>1. r + 1 \in Int /\ n \in Int
    BY <1>1
  <2>2. /\ Len(undone) = IF r + 1 <= n THEN n - (r + 1) + 1 ELSE 0
        /\ \A j \in 1..(n - (r + 1) + 1) : undone[j] = s[(r + 1) + j - 1]
    BY <1>2, <2>1, SubSeqProperties
  <2> HIDE DEF undone, n
  <2>3. n - (r + 1) + 1 = n - r /\ \A j \in 1..(n - r) : (r + 1) + j - 1 = r + j
    BY <1>1
  <2>4. Len(undone) = n - r
    BY <1>1, <2>2
  <2> QED
    BY <2>2, <2>3, <2>4
<1> HIDE DEF undone, n
<1>4. ReverseSeq(undone) = [j \in 1..(n - r) |-> undone[(n - r) + 1 - j]]
  BY <1>3 DEF ReverseSeq
<1>5. \A j \in 1..(n - r) : /\ (n - r) + 1 - j \in 1..(n - r)
                            /\ r + ((n - r) + 1 - j) = (n + 1) - j
                            /\ (n + 1) - j \in (r + 1)..n
  BY <1>1
<1>6. \A j \in 1..(n - r) : ReverseSeq(undone)[j] = s[(n + 1) - j]
  BY <1>3, <1>4, <1>5
<1>7. \A j \in 1..(n - r) : undone[(n - r) + 1 - j] \in LogQueries
  BY <1>2, <1>3, <1>5
<1>8. ReverseSeq(undone) \in Seq(LogQueries) /\ Len(ReverseSeq(undone)) = n - r
  BY <1>1, <1>4, <1>7
<1> QED
  BY <1>6, <1>8 DEF undone, n

\* What a log is after its rollback
LEMMA KeptIs ==
  ASSUME NEW s \in Seq(LogQueries), NEW r \in 0..Len(s)
  PROVE  LogRollback(s, r) = SubSeq(s, 1, r)
<1>1. Len(s) \in Nat
  BY LenProperties
<1>2. r < Len(s) \/ r = Len(s)
  BY <1>1
<1> QED
  BY <1>2, WholePrefix DEF LogRollback

\* The journal cut back to n still mirrors what is left of the twins.
LEMMA MirrorsUndo ==
  ASSUME NEW m, Journal(m), NEW held \in Seq(LogQueries), NEW off \in Nat,
         NEW n \in 0..Len(m.old_entries), NEW kept, Mirrors(held, m, off),
         \A i \in 1..(off + n) : kept[i] = held[i]
  PROVE  Mirrors(kept, MapRollback(m, n), off)
<1> DEFINE m2 == MapRollback(m, n)
           M == Len(m.old_entries)
           Entries == [key : Keys, old : WriteEntries \cup {None}]
<1>1. M \in Nat /\ n \in Nat /\ m.old_entries \in Seq(Entries)
  <2>1. M \in Nat
    BY MapLength DEF Journal
  <2>2. m.old_entries \in Seq(Entries)
    BY DEF Journal, JournaledMap
  <2> QED
    BY <2>1, <2>2
<1>2. Len(m2.old_entries) = n /\ \A i \in 0..n : MapAt(m2, i) = MapAt(m, i)
  BY RollbackKeepsEarlier DEF Journal
<1>3. \A i \in 1..n : m2.old_entries[i] = m.old_entries[i]
  <2>1. m2.old_entries = SubSeq(m.old_entries, 1, n)
    BY DEF MapRollback
  <2> HIDE DEF Entries
  <2>2. \A i \in 1..n : i \in 1..M
    BY <1>1
  <2>3. \A i \in 1..n : m.old_entries[i] \in Entries
    BY <1>1, <2>2, ElementOfSeq, Zenon
  <2>4. 1 \in Int /\ n \in Int
    BY <1>1
  <2> QED
    BY <1>1, <2>1, <2>3, <2>4, SubSeqProperties
<1> HIDE DEF m2
<1>4. ASSUME NEW i \in 1..n
      PROVE  /\ kept[off + i] = held[off + i] /\ m2.old_entries[i] = m.old_entries[i]
             /\ MapAt(m2, i - 1) = MapAt(m, i - 1) /\ MapAt(m2, i) = MapAt(m, i)
             /\ i \in 1..M
  <2>1. off + i \in 1..(off + n) /\ i - 1 \in 0..n /\ i \in 0..n /\ i \in 1..M
    BY <1>1
  <2> QED
    BY <1>2, <1>3, <2>1
<1> QED
  BY <1>2, <1>4 DEF Mirrors, m2

\* The offset stays when journal and twins are cut at the same point.
LEMMA Cutting ==
  ASSUME NEW M \in Nat, NEW H \in Nat, NEW off \in Nat, H = off + M,
         NEW n \in 0..M, NEW r, r = n + off
  PROVE  /\ n \in Nat /\ n <= M /\ M - n \in Nat /\ r \in 0..H /\ H - r = M - n
         /\ off + n = r /\ r \in Nat
  OBVIOUS

\* A failed call takes the writes back and puts their twins in the trace.
LEMMA PendingUndo ==
  ASSUME NEW m, Journal(m), NEW held \in Seq(LogQueries),
         NEW logs \in Seq(LogQueries), NEW flags, Pending(m, held, logs, flags),
         NEW n \in 0..Len(m.old_entries), NEW r, r = n + Offset(held, m),
         NEW final,
         final = logs \o ReverseSeq(SubSeq(held, r + 1, Len(held)))
  PROVE  /\ Pending(MapRollback(m, n), LogRollback(held, r), final, flags)
         /\ Offset(LogRollback(held, r), MapRollback(m, n)) = Offset(held, m)
<1> DEFINE M == Len(m.old_entries)
           H == Len(held)
           L == Len(logs)
           off == Offset(held, m)
           rev == ReverseSeq(SubSeq(held, r + 1, H))
           m2 == MapRollback(m, n)
           kept == LogRollback(held, r)
<1>1. M \in Nat /\ H \in Nat /\ L \in Nat /\ off \in Nat /\ H = off + M
  <2>1. M \in Nat /\ H \in Nat /\ L \in Nat
    BY MapLength, LenProperties DEF Journal
  <2>2. off \in Nat /\ off = H - M
    BY DEF Pending, Offset
  <2> HIDE DEF off, H, M
  <2> QED
    BY <2>1, <2>2
<1>2. n \in 0..M /\ r = n + off
  OBVIOUS
<1>3. rev = ReverseSeq(SubSeq(held, r + 1, Len(held))) /\ final = logs \o rev
  OBVIOUS
<1> HIDE DEF M, H, L, off, rev, m2, kept
<1>4. /\ n \in Nat /\ n <= M /\ M - n \in Nat /\ r \in 0..H /\ H - r = M - n /\ off + n = r
      /\ r \in Nat
  BY <1>1, <1>2, Cutting
<1>5. /\ rev \in Seq(LogQueries) /\ Len(rev) = M - n
      /\ \A j \in 1..(M - n) : rev[j] = held[(H + 1) - j]
  <2>1. r \in 0..Len(held) /\ Len(held) - r = M - n
    BY <1>4 DEF H
  <2>2. /\ rev \in Seq(LogQueries) /\ Len(rev) = Len(held) - r
        /\ \A j \in 1..(Len(held) - r) : rev[j] = held[(Len(held) + 1) - j]
    BY <1>3, <2>1, SuffixIs
  <2> QED
    BY <2>1, <2>2 DEF H
<1>6. /\ final \in Seq(LogQueries) /\ Len(final) = L + (M - n)
      /\ \A i \in 1..L : final[i] = logs[i]
      /\ \A j \in 1..(M - n) : final[L + j] = held[(H + 1) - j]
  <2>1. /\ logs \o rev \in Seq(LogQueries) /\ Len(logs \o rev) = L + Len(rev)
        /\ \A i \in 1..L : (logs \o rev)[i] = logs[i]
        /\ \A j \in 1..Len(rev) : (logs \o rev)[L + j] = rev[j]
    BY <1>1, <1>5, ConcatSimple DEF L
  <2> QED
    BY <1>3, <1>5, <2>1
<1>7. kept = SubSeq(held, 1, r)
  BY <1>4, KeptIs DEF H, kept
<1>8. Len(kept) = r /\ \A i \in 1..r : kept[i] = held[i]
  <2>1. r \in 0..Len(held)
    BY <1>4 DEF H
  <2> QED
    BY <1>7, <2>1, PrefixIs
<1>9. GoodTrace(final, kept, ValuesIn(MapAt(m, n)), flags.map)
  <2>1. /\ n \in 0..Len(m.old_entries)
        /\ Len(final) = Len(logs) + (Len(m.old_entries) - n)
        /\ \A i \in 1..Len(logs) : final[i] = logs[i]
        /\ \A j \in 1..(Len(m.old_entries) - n) :
             final[Len(logs) + j] = held[(Len(held) + 1) - j]
    BY <1>2, <1>6 DEF L, M, H
  <2>2. final \in Seq(LogQueries)
    BY <1>6
  <2>3. GoodTrace(final, SubSeq(held, 1, Offset(held, m) + n), ValuesIn(MapAt(m, n)), flags.map)
    BY <2>1, <2>2, UndoRun, Zenon
  <2> QED
    BY <1>4, <1>7, <2>3 DEF off
<1>10. /\ m2.map = MapAt(m, n) /\ Len(m2.old_entries) = n
  BY <1>2, RollbackKeepsEarlier DEF Journal, MapRollback, m2, M
<1>11. Offset(kept, m2) = off
  <2>1. r - n = off
    BY <1>1, <1>4
  <2>2. Offset(kept, m2) = r - n
    BY <1>8, <1>10, Zenon DEF Offset
  <2> QED
    BY <2>1, <2>2
<1>12. Mirrors(kept, m2, off)
  <2>1. Mirrors(held, m, off)
    BY DEF Pending, off
  <2>2. \A i \in 1..(off + n) : kept[i] = held[i]
    BY <1>4, <1>8
  <2> QED
    BY <1>1, <1>2, <2>1, <2>2, MirrorsUndo DEF m2, M
<1>13. Pending(m2, kept, final, flags)
  BY <1>1, <1>9, <1>10, <1>11, <1>12 DEF Pending
<1> QED
  BY <1>11, <1>13 DEF m2, kept, off

-----------------------------------------------------------------------------
(* The steps of the specification *)

\* The invariant after a step, its parts written with primed variables
NewTraceInv ==
  ~skip_storage_logs' =>
    /\ Pending(storage_writes', rollback_storage_logs', storage_logs', slot_flags')
    /\ SnapshotsInStep(frames', snapshot', Offset(rollback_storage_logs', storage_writes'))
    /\ HostKeeps(Batch', snapshot', rollback_storage_logs')

\* It is the invariant in the next state.
LEMMA NewTraceInvIs ==
  ASSUME NewTraceInv
  PROVE  TraceInv'
  BY Zenon DEF NewTraceInv, TraceInv, Pending, SnapshotsInStep, HostKeeps, GoodCopy, InStep,
     Offset, Mirrors, ValuesIn, MapAt, Touched, LogRollback, GoodTrace, UndoesOnce, Holds,
     Replays, FlagsFollow, IsForward, ReplayedIn, WritesIn, Before, After, WriteOf

\* The trace's state has the types the lemmas above ask for.
LEMMA TraceTypes ==
  ASSUME TypeOK
  PROVE  /\ Journal(storage_writes) /\ FlagMap(slot_flags)
         /\ storage_logs \in Seq(LogQueries) /\ rollback_storage_logs \in Seq(LogQueries)
         /\ Len(storage_writes.old_entries) \in Nat /\ Len(rollback_storage_logs) \in Nat
         /\ Len(storage_logs) \in Nat
         /\ \A k \in Keys : CurrentValue(k) = ValuesIn(storage_writes.map)[k]
<1>1. Journal(storage_writes) /\ FlagMap(slot_flags)
  BY DEF TypeOK, Journal, FlagMap
<1>2. storage_logs \in Seq(LogQueries) /\ rollback_storage_logs \in Seq(LogQueries)
  BY DEF TypeOK
<1>3. Len(storage_writes.old_entries) \in Nat
  BY MapLength DEF TypeOK
<1>4. \A k \in Keys : CurrentValue(k) = ValuesIn(storage_writes.map)[k]
  BY DEF CurrentValue, ValuesIn
<1> QED
  BY <1>1, <1>2, <1>3, <1>4, LenProperties

\* Where the twins of open calls and of the host's snapshot begin
LEMMA SnapshotPositions ==
  ASSUME TypeOK, SnapshotsNest, NEW off \in Nat,
         off = Offset(rollback_storage_logs, storage_writes),
         SnapshotsInStep(frames, snapshot, off)
  PROVE  /\ \A i \in 1..Len(frames) :
              LET s == frames[i].world_before_this_frame
              IN /\ s.storage_writes \in 0..Len(storage_writes.old_entries)
                 /\ s.rollback_storage_logs_len = s.storage_writes + off
                 /\ s.rollback_storage_logs_len \in 0..Len(rollback_storage_logs)
         /\ \A b \in 1..Len(snapshot) :
              LET s == snapshot[b].internal_snapshot
              IN /\ s.rollback_storage_logs_len \in 0..Len(rollback_storage_logs)
                 /\ \A i \in 1..Len(frames) :
                      s.rollback_storage_logs_len
                        <= frames[i].world_before_this_frame.rollback_storage_logs_len
<1> DEFINE M == Len(storage_writes.old_entries)
           H == Len(rollback_storage_logs)
<1>1. M \in Nat /\ H \in Nat /\ off = H - M
  BY TraceTypes DEF Offset
<1>2. ASSUME NEW s \in Snapshots, NoLaterThan(s, Snapshot), InStep(s, off)
      PROVE  /\ s.storage_writes \in 0..M
             /\ s.rollback_storage_logs_len = s.storage_writes + off
             /\ s.rollback_storage_logs_len \in 0..H
  <2>1. s.storage_writes \in Nat /\ s.storage_writes <= M
        /\ s.rollback_storage_logs_len = s.storage_writes + off
    BY <1>2 DEF Snapshots, NoLaterThan, Snapshot, MapSnapshot, InStep
  <2> HIDE DEF M, H
  <2> DEFINE w == s.storage_writes
  <2>2. w \in Nat /\ w <= M /\ s.rollback_storage_logs_len = w + off
    BY <2>1
  <2> HIDE DEF w
  <2>3. w \in 0..M /\ w + off \in 0..H
    BY <1>1, <2>2
  <2> QED
    BY <2>2, <2>3 DEF w
<1>3. ASSUME NEW i \in 1..Len(frames)
      PROVE  LET s == frames[i].world_before_this_frame
             IN /\ s.storage_writes \in 0..M
                /\ s.rollback_storage_logs_len = s.storage_writes + off
                /\ s.rollback_storage_logs_len \in 0..H
  <2>1. /\ frames[i].world_before_this_frame \in Snapshots
        /\ NoLaterThan(frames[i].world_before_this_frame, Snapshot)
    BY NestedWithin
  <2>2. InStep(frames[i].world_before_this_frame, off)
    BY DEF SnapshotsInStep
  <2> QED
    BY <1>2, <2>1, <2>2
<1>4. ASSUME NEW b \in 1..Len(snapshot)
      PROVE  LET s == snapshot[b].internal_snapshot
             IN /\ s.storage_writes \in 0..M
                /\ s.rollback_storage_logs_len = s.storage_writes + off
                /\ s.rollback_storage_logs_len \in 0..H
  <2>1. /\ snapshot[b].internal_snapshot \in Snapshots
        /\ NoLaterThan(snapshot[b].internal_snapshot, Snapshot)
    BY NestedWithin
  <2>2. InStep(snapshot[b].internal_snapshot, off)
    BY DEF SnapshotsInStep
  <2> QED
    BY <1>2, <2>1, <2>2
<1>5. ASSUME NEW b \in 1..Len(snapshot), NEW i \in 1..Len(frames)
      PROVE  snapshot[b].internal_snapshot.rollback_storage_logs_len
               <= frames[i].world_before_this_frame.rollback_storage_logs_len
  <2> DEFINE x == snapshot[b].internal_snapshot.storage_writes
             y == frames[i].world_before_this_frame.storage_writes
  <2>1. x <= y
    BY DEF SnapshotsNest, NoLaterThan
  <2>2. /\ x \in 0..M /\ y \in 0..M
        /\ snapshot[b].internal_snapshot.rollback_storage_logs_len = x + off
        /\ frames[i].world_before_this_frame.rollback_storage_logs_len = y + off
    BY <1>3, <1>4
  <2> HIDE DEF x, y, M
  <2>3. x + off <= y + off
    BY <1>1, <2>1, <2>2
  <2> QED
    BY <2>2, <2>3
<1> QED
  BY <1>3, <1>4, <1>5

\* Twins that are only added, or dropped down to an open call's, leave the host
\* what it would get back.
LEMMA HostStillKeeps ==
  ASSUME NEW copies, NEW host, NEW held, NEW held2, HostKeeps(copies, host, held),
         \A b \in 1..Len(host) :
           LogRollback(held2, host[b].internal_snapshot.rollback_storage_logs_len)
             = LogRollback(held, host[b].internal_snapshot.rollback_storage_logs_len)
  PROVE  HostKeeps(copies, host, held2)
  BY Zenon DEF HostKeeps, GoodCopy

-----------------------------------------------------------------------------
(* The invariant is kept, step by step *)

\* What the invariant says while the trace is recorded
Recording ==
  /\ ~skip_storage_logs
  /\ Pending(storage_writes, rollback_storage_logs, storage_logs, slot_flags)
  /\ SnapshotsInStep(frames, snapshot, Offset(rollback_storage_logs, storage_writes))
  /\ HostKeeps(Batch, snapshot, rollback_storage_logs)

\* Steps that change neither writes nor twins
LEMMA QuietStep ==
  ASSUME Recording, Batch' = Batch,
         UNCHANGED << storage_writes, rollback_storage_logs, snapshot >>,
         Pending(storage_writes, rollback_storage_logs, storage_logs', slot_flags'),
         SnapshotsInStep(frames', snapshot, Offset(rollback_storage_logs, storage_writes))
  PROVE  NewTraceInv
  BY Zenon DEF Recording, NewTraceInv

\* The parts of the invariant that a read touches
LEMMA ReadKeepsPending ==
  ASSUME NoneIsNoRecord, TypeOK, Recording, NEW k \in Keys, ReadStorageInner(k)
  PROVE  /\ Pending(storage_writes, rollback_storage_logs, storage_logs', slot_flags')
         /\ rollback_storage_logs' = rollback_storage_logs
<1> DEFINE e == Log(k, CurrentValue(k), CurrentValue(k), FALSE)
<1>1. /\ slot_flags' = AddFlags(slot_flags, k, {SLOT_READ})
      /\ storage_logs' = Append(storage_logs, e)
      /\ rollback_storage_logs' = rollback_storage_logs
  BY DEF Recording, ReadStorageInner
<1>2. e \in LogQueries
  BY CurrentValueType, LogType
<1>3. ~e.rw_flag /\ ~e.rollback /\ e.key = k /\ e.read_value = CurrentValue(k)
  BY DEF Log
<1>4. CurrentValue(k) = ValuesIn(storage_writes.map)[k]
  BY TraceTypes
<1>5. storage_logs \in Seq(LogQueries) /\ FlagMap(slot_flags)
  BY TraceTypes
<1> HIDE DEF e
<1>6. Pending(storage_writes, rollback_storage_logs, Append(storage_logs, e),
              AddFlags(slot_flags, e.key, {SLOT_READ}))
  BY <1>2, <1>3, <1>4, <1>5, PendingRead DEF NoneIsNoRecord, Recording
<1> QED
  BY <1>1, <1>3, <1>6

\* A read keeps the invariant.
LEMMA ReadTraces ==
  ASSUME NoneIsNoRecord, TypeOK, SnapshotsNest, Recording, NEW k \in Keys, ReadStorage(k),
         Batch' = Batch
  PROVE  NewTraceInv
<1>1. ReadStorageInner(k) /\ UNCHANGED << storage_writes, frames, snapshot >>
  BY DEF ReadStorage, rolled_back, control
<1>2. /\ Pending(storage_writes, rollback_storage_logs, storage_logs', slot_flags')
      /\ rollback_storage_logs' = rollback_storage_logs
  BY <1>1, ReadKeepsPending
<1>3. SnapshotsInStep(frames', snapshot, Offset(rollback_storage_logs, storage_writes))
  BY <1>1 DEF Recording
<1> QED
  BY <1>1, <1>2, <1>3, QuietStep

\* What a write does, free or not
Writing(k, x, w) ==
  /\ storage_writes' = MapInsert(storage_writes, k, x)
  /\ storage_logs' = Append(storage_logs, w)
  /\ rollback_storage_logs' = Append(rollback_storage_logs, [w EXCEPT !.rollback = TRUE])
  /\ \/ slot_flags' = AddFlags(AddFlags(slot_flags, k, {SLOT_WRITTEN}), k, {SLOT_READ})
     \/ /\ ~AddsFlags(slot_flags, k, {SLOT_WRITTEN})
        /\ slot_flags' = AddFlags(slot_flags, k, {SLOT_WRITTEN})

\* Free writes and paid ones differ in what is charged only.
LEMMA WritesAre ==
  ASSUME TypeOK, TypeOK', ~skip_storage_logs, NEW k \in Keys, NEW v \in Values,
         WriteFreeStorage(k, v) \/ WriteStorage(k, v)
  PROVE  \E x \in WriteEntries :
           x.value = v /\ Writing(k, x, Log(k, CurrentValue(k), v, TRUE))
<1>1. RecordWrite(k, v)
  BY DEF WriteFreeStorage, WriteStorage
<1>2. /\ storage_logs' = Append(storage_logs, Log(k, CurrentValue(k), v, TRUE))
      /\ rollback_storage_logs' =
           Append(rollback_storage_logs,
                  [Log(k, CurrentValue(k), v, TRUE) EXCEPT !.rollback = TRUE])
  BY <1>1 DEF RecordWrite
<1>3. \/ slot_flags' = AddFlags(AddFlags(slot_flags, k, {SLOT_WRITTEN}), k, {SLOT_READ})
      \/ /\ ~AddsFlags(slot_flags, k, {SLOT_WRITTEN})
         /\ slot_flags' = AddFlags(slot_flags, k, {SLOT_WRITTEN})
  BY DEF WriteFreeStorage, WriteStorage
<1>4. CASE WriteFreeStorage(k, v)
  <2> DEFINE x == [value |-> v, paid |-> Paid(storage_writes.map[k])]
  <2>1. x \in WriteEntries /\ x.value = v
    <3>1. Paid(storage_writes.map[k]) \in Nat
      BY PaidType
    <3> QED
      BY <3>1 DEF WriteEntries
  <2>2. storage_writes' = MapInsert(storage_writes, k, x)
    BY <1>4 DEF WriteFreeStorage
  <2> HIDE DEF x
  <2> QED
    BY <1>2, <1>3, <2>1, <2>2 DEF Writing
<1>5. CASE WriteStorage(k, v)
  <2> DEFINE x == [value |-> v, paid |-> WriteCost[k][v]]
  <2>1. x \in WriteEntries /\ x.value = v
    BY SlotAssumption DEF WriteEntries
  <2>2. storage_writes' = MapInsert(storage_writes, k, x)
    BY <1>5 DEF WriteStorage
  <2> HIDE DEF x
  <2> QED
    BY <1>2, <1>3, <2>1, <2>2 DEF Writing
<1> QED
  BY <1>4, <1>5

\* A write keeps the invariant.
LEMMA WriteTraces ==
  ASSUME NoneIsNoRecord, TypeOK, TypeOK', SnapshotsNest, Recording, NEW k \in Keys,
         NEW v \in Values, WriteFreeStorage(k, v) \/ WriteStorage(k, v), Batch' = Batch
  PROVE  NewTraceInv
<1> DEFINE w == Log(k, CurrentValue(k), v, TRUE)
           off == Offset(rollback_storage_logs, storage_writes)
<1>1. frames' = frames /\ snapshot' = snapshot
  BY DEF WriteFreeStorage, WriteStorage, control
<1>2. PICK x \in WriteEntries : x.value = v /\ Writing(k, x, w)
  BY WritesAre DEF Recording
<1>3. w \in LogQueries
  BY CurrentValueType, LogType
<1>4. /\ w.rw_flag /\ ~w.rollback /\ w.key = k /\ w.read_value = CurrentValue(k)
      /\ w.written_value = v /\ w.timestamp = Len(storage_logs)
  BY DEF Log
<1>5. /\ Journal(storage_writes) /\ FlagMap(slot_flags)
      /\ storage_logs \in Seq(LogQueries) /\ rollback_storage_logs \in Seq(LogQueries)
      /\ CurrentValue(k) = ValuesIn(storage_writes.map)[k]
  BY TraceTypes
<1> HIDE DEF w
<1>6. /\ Pending(storage_writes', rollback_storage_logs', storage_logs', slot_flags')
      /\ Offset(rollback_storage_logs', storage_writes') = off
  <2> DEFINE new == slot_flags'
  <2>1. \/ new = AddFlags(AddFlags(slot_flags, w.key, {SLOT_WRITTEN}), w.key, {SLOT_READ})
        \/ /\ ~AddsFlags(slot_flags, w.key, {SLOT_WRITTEN})
           /\ new = AddFlags(slot_flags, w.key, {SLOT_WRITTEN})
    BY <1>2, <1>4 DEF Writing
  <2>2. w.read_value = ValuesIn(storage_writes.map)[w.key] /\ w.written_value = x.value
    BY <1>2, <1>4, <1>5
  <2>3. Pending(storage_writes, rollback_storage_logs, storage_logs, slot_flags)
    BY DEF Recording
  <2> HIDE DEF new
  <2>4. /\ Pending(MapInsert(storage_writes, w.key, x),
                   Append(rollback_storage_logs, [w EXCEPT !.rollback = TRUE]),
                   Append(storage_logs, w), new)
        /\ Offset(Append(rollback_storage_logs, [w EXCEPT !.rollback = TRUE]),
                  MapInsert(storage_writes, w.key, x))
             = Offset(rollback_storage_logs, storage_writes)
    BY <1>3, <1>4, <1>5, <2>1, <2>2, <2>3, PendingWrite
  <2> QED
    BY <1>2, <1>4, <2>4 DEF Writing, new
<1>7. HostKeeps(Batch', snapshot', rollback_storage_logs')
  <2> DEFINE e == [w EXCEPT !.rollback = TRUE]
  <2>1. e \in LogQueries
    BY <1>3, TwinOf
  <2> HIDE DEF e
  <2>2. LogGrows(rollback_storage_logs, Append(rollback_storage_logs, e))
    BY <1>5, <2>1, AppendGrows
  <2>3. rollback_storage_logs' = Append(rollback_storage_logs, e)
    BY <1>2 DEF Writing, e
  <2>4. \A b \in 1..Len(snapshot) :
          snapshot[b].internal_snapshot.rollback_storage_logs_len
            \in 0..Len(rollback_storage_logs)
    <3>1. off \in Nat /\ SnapshotsInStep(frames, snapshot, off)
      BY DEF Recording, Pending
    <3> HIDE DEF off
    <3>2. off = Offset(rollback_storage_logs, storage_writes)
      BY DEF off
    <3> QED
      BY <3>1, <3>2, SnapshotPositions
  <2>5. \A b \in 1..Len(snapshot) :
          LogRollback(rollback_storage_logs',
                      snapshot[b].internal_snapshot.rollback_storage_logs_len)
            = LogRollback(rollback_storage_logs,
                          snapshot[b].internal_snapshot.rollback_storage_logs_len)
    BY <2>2, <2>3, <2>4 DEF LogGrows
  <2>6. HostKeeps(Batch, snapshot, rollback_storage_logs)
    BY DEF Recording
  <2>7. HostKeeps(Batch, snapshot, rollback_storage_logs')
    BY <2>5, <2>6, HostStillKeeps
  <2> QED
    BY <1>1, <2>7
<1>8. SnapshotsInStep(frames', snapshot', Offset(rollback_storage_logs', storage_writes'))
  BY <1>1, <1>6 DEF Recording
<1> QED
  BY <1>6, <1>7, <1>8 DEF NewTraceInv

\* Every access to storage does.
LEMMA StorageTraces ==
  ASSUME NoneIsNoRecord, TypeOK, TypeOK', SnapshotsNest, Recording, StorageStep
  PROVE  NewTraceInv
<1>1. Batch' = Batch
  BY StorageStepGrows, CopiesKept
<1> QED
  BY <1>1, ReadTraces, WriteTraces DEF StorageStep

\* Other steps inside a call do not touch storage.
LEMMA OtherStepTraces ==
  ASSUME TypeOK, SnapshotsNest, Recording,
         TransientStep \/ MessageStep \/ DecommitStep \/ UNCHANGED vars
  PROVE  NewTraceInv
<1>1. Batch' = Batch
  BY TransientStepGrows, MessageStepGrows, DecommitStepGrows, ReturnOkGrows, CopiesKept
     DEF vars
<1>2. UNCHANGED << storage_writes, trace, slot_flags, frames, snapshot >>
  BY DEF TransientStep, ReadTransientStorage, WriteTransientStorage, MessageStep,
         RecordEvent, RecordL2ToL1Log, ChargePubdata, DecommitStep, DecommitOpcode,
         control, slots, rolled_back, vars
<1> QED
  BY <1>1, <1>2, QuietStep DEF trace, Recording

\* A call's snapshot is taken with journal and twins in step.
LEMMA EnterTraces ==
  ASSUME NoneIsNoRecord, TypeOK, TypeOK', SnapshotsNest, Recording, NearCall \/ FarCall
  PROVE  NewTraceInv
<1> DEFINE off == Offset(rollback_storage_logs, storage_writes)
<1>1. Batch' = Batch
  BY CallRefines DEF Abstract!Enter
<1>2. UNCHANGED << storage_writes, snapshot >>
  BY DEF NearCall, FarCall, rolled_back
<1>3. /\ Pending(storage_writes, rollback_storage_logs, storage_logs', slot_flags')
      /\ rollback_storage_logs' = rollback_storage_logs
  <2>1. CASE UNCHANGED << trace, slots >>
    BY <2>1 DEF trace, slots, Recording
  <2>2. CASE \E k \in Keys : ReadStorageInner(k)
    BY <2>2, ReadKeepsPending
  <2> QED
    BY <2>1, <2>2 DEF NearCall, FarCall, FarCallDecommit
<1>4. PICK kind, n : frames' = Append(frames, Frame(kind, n))
  BY DEF NearCall, FarCall
<1>5. SnapshotsInStep(frames', snapshot, off)
  <2> DEFINE f == Frame(kind, n)
  <2>1. InStep(f.world_before_this_frame, off)
    <3>1. /\ f.world_before_this_frame.storage_writes = Len(storage_writes.old_entries)
          /\ f.world_before_this_frame.rollback_storage_logs_len = Len(rollback_storage_logs)
      BY DEF Frame, Snapshot, MapSnapshot
    <3>2. Len(storage_writes.old_entries) \in Nat /\ Len(rollback_storage_logs) \in Nat
      BY TraceTypes
    <3> HIDE DEF f
    <3>3. Len(rollback_storage_logs) = Len(storage_writes.old_entries) + off
      BY <3>2 DEF Offset
    <3> QED
      BY <3>1, <3>3 DEF InStep
  <2>2. SnapshotsInStep(frames, snapshot, off)
    BY DEF Recording
  <2>3. /\ frames \in Seq(Frames) /\ frames' \in Seq(Frames) /\ Len(frames) \in Nat
        /\ Len(frames') = Len(frames) + 1
    BY <1>4, LenProperties DEF TypeOK
  <2>4. \A i \in 1..Len(frames') :
          \/ i \in 1..Len(frames) /\ frames'[i] = frames[i]
          \/ frames'[i] = f
    BY <1>4, <2>3
  <2> HIDE DEF f, off
  <2> QED
    BY <2>1, <2>2, <2>4 DEF SnapshotsInStep
<1> QED
  BY <1>1, <1>2, <1>3, <1>5, QuietStep

\* A call that succeeds drops its snapshot only.
LEMMA ReturnOkTraces ==
  ASSUME TypeOK, SnapshotsNest, Recording, ReturnOk
  PROVE  NewTraceInv
<1>1. Batch' = Batch
  BY ReturnOkRefines DEF Abstract!Leave
<1>2. UNCHANGED << storage_writes, trace, slot_flags, snapshot >> /\ frames' = Popped
  BY DEF ReturnOk, rolled_back, slots
<1>3. \A i \in 1..Len(Popped) : i \in 1..Len(frames) /\ Popped[i] = frames[i]
  BY PoppedType DEF ReturnOk
<1>4. SnapshotsInStep(frames', snapshot, Offset(rollback_storage_logs, storage_writes))
  BY <1>2, <1>3 DEF SnapshotsInStep, Recording
<1> QED
  BY <1>1, <1>2, <1>4, QuietStep DEF trace, Recording

\* A call that fails undoes its writes and gives their twins to the trace.
LEMMA ReturnFailedTraces ==
  ASSUME TypeOK, TypeOK', SnapshotsNest, Recording, ReturnFailed
  PROVE  NewTraceInv
<1> DEFINE s == Top.world_before_this_frame
           n == s.storage_writes
           r == s.rollback_storage_logs_len
           off == Offset(rollback_storage_logs, storage_writes)
<1>1. Batch' = Batch /\ snapshot' = snapshot
  BY ReturnFailedRefines DEF Abstract!Fail, ReturnFailed
<1>2. /\ frames # << >> /\ AppendRollbackLogs(s) /\ RollbackTo(s) /\ frames' = Popped
      /\ slot_flags' = slot_flags
  BY DEF ReturnFailed, slots
<1>3. /\ storage_writes' = MapRollback(storage_writes, n)
      /\ rollback_storage_logs' = LogRollback(rollback_storage_logs, r)
      /\ storage_logs' =
           storage_logs \o ReverseSeq(SubSeq(rollback_storage_logs, r + 1,
                                             Len(rollback_storage_logs)))
  BY <1>2 DEF AppendRollbackLogs, RollbackTo
<1>4. /\ Len(frames) \in 1..Len(frames) /\ Top = frames[Len(frames)]
      /\ \A i \in 1..Len(Popped) : i \in 1..Len(frames) /\ Popped[i] = frames[i]
  BY <1>2, PoppedType DEF Top
<1>5. /\ off \in Nat /\ SnapshotsInStep(frames, snapshot, off)
      /\ Pending(storage_writes, rollback_storage_logs, storage_logs, slot_flags)
      /\ HostKeeps(Batch, snapshot, rollback_storage_logs)
      /\ off = Offset(rollback_storage_logs, storage_writes)
  BY DEF Recording, Pending
<1>6. /\ Journal(storage_writes)
      /\ storage_logs \in Seq(LogQueries) /\ rollback_storage_logs \in Seq(LogQueries)
  BY TraceTypes
<1> HIDE DEF off
<1>7. /\ n \in 0..Len(storage_writes.old_entries) /\ r = n + off
      /\ r \in 0..Len(rollback_storage_logs)
      /\ \A b \in 1..Len(snapshot) :
           /\ snapshot[b].internal_snapshot.rollback_storage_logs_len
                \in 0..Len(rollback_storage_logs)
           /\ snapshot[b].internal_snapshot.rollback_storage_logs_len <= r
  BY <1>4, <1>5, SnapshotPositions
<1> HIDE DEF n, r, s
<1>8. /\ Pending(storage_writes', rollback_storage_logs', storage_logs', slot_flags')
      /\ Offset(rollback_storage_logs', storage_writes') = off
  <2>1. r = n + Offset(rollback_storage_logs, storage_writes)
    BY <1>5, <1>7
  <2> DEFINE final == storage_logs \o ReverseSeq(SubSeq(rollback_storage_logs, r + 1,
                                                        Len(rollback_storage_logs)))
  <2>2. final = storage_logs \o ReverseSeq(SubSeq(rollback_storage_logs, r + 1,
                                                  Len(rollback_storage_logs)))
    OBVIOUS
  <2> HIDE DEF final
  <2>3. /\ Pending(MapRollback(storage_writes, n), LogRollback(rollback_storage_logs, r),
                   final, slot_flags)
        /\ Offset(LogRollback(rollback_storage_logs, r), MapRollback(storage_writes, n))
             = Offset(rollback_storage_logs, storage_writes)
    BY <1>5, <1>6, <1>7, <2>1, <2>2, PendingUndo
  <2> QED
    BY <1>2, <1>3, <1>5, <2>2, <2>3
<1>9. HostKeeps(Batch', snapshot', rollback_storage_logs')
  <2>1. \A p \in 0..r : LogRollback(rollback_storage_logs', p)
                          = LogRollback(rollback_storage_logs, p)
    BY <1>3, <1>6, <1>7, LogRollbackKeepsEarlier
  <2>2. Len(rollback_storage_logs) \in Nat
    BY TraceTypes
  <2>3. \A b \in 1..Len(snapshot) :
          snapshot[b].internal_snapshot.rollback_storage_logs_len \in 0..r
    BY <1>7, <2>2
  <2>4. HostKeeps(Batch, snapshot, rollback_storage_logs')
    BY <1>5, <2>1, <2>3, HostStillKeeps
  <2> QED
    BY <1>1, <2>4
<1>10. SnapshotsInStep(frames', snapshot', off)
  BY <1>1, <1>2, <1>4, <1>5 DEF SnapshotsInStep
<1> QED
  BY <1>8, <1>9, <1>10 DEF NewTraceInv

-----------------------------------------------------------------------------
(* Pubdata *)

\* A copy of the world whose pubdata is what its writes paid
PaysUp(w) ==
  /\ \A k \in Keys : Paid(w.writes[k]) \in Int
  /\ w.pubdata = TotalPaid(w.writes)

\* All worlds that there are: the current one and the copies a failure or the
\* host can put back
AllPaid ==
  /\ PaysUp(World)
  /\ \A i \in 1..Len(frames) : PaysUp(Saved[i])
  /\ \A i \in 1..Len(snapshot) : PaysUp(Batch[i].world)

\* The copies the host can put back
LEMMA BatchIs ==
  ASSUME TypeOK
  PROVE  /\ Len(Batch) = Len(snapshot) /\ Len(snapshot) \in Nat
         /\ Batch = [i \in 1..Len(snapshot) |-> Batch[i]]
<1>1. Len(snapshot) \in Nat
  BY LogLength DEF TypeOK
<1>2. Batch = [i \in 1..Len(snapshot) |-> Batch[i]]
  BY Mapping
<1> QED
  BY <1>1, <1>2, FunctionAsSequence

\* Only the writes and the pubdata of a world matter.
LEMMA SamePays ==
  ASSUME NEW w, NEW v, PaysUp(w), v.writes = w.writes, v.pubdata = w.pubdata
  PROVE  PaysUp(v)
  BY DEF PaysUp

\* An entry changes the total by what it pays more than the entry before.
LEMMA WritePays ==
  ASSUME NEW w, NEW v, PaysUp(w), NEW k \in Keys, NEW e \in WriteEntries,
         w.writes \in [Keys -> WriteEntries \cup {None}],
         None \notin WriteEntries,
         v.writes = [w.writes EXCEPT ![k] = e],
         v.pubdata = w.pubdata + (e.paid - Paid(w.writes[k]))
  PROVE  PaysUp(v)
<1> DEFINE f == [j \in Keys |-> Paid(w.writes[j])]
           g == [j \in Keys |-> Paid(v.writes[j])]
<1>1. \A j \in Keys : f[j] \in Int
  BY DEF PaysUp
<1>2. Paid(e) = e.paid /\ e.paid \in Int
  BY DEF Paid, WriteEntries
<1>3. g[k] = e.paid /\ \A j \in Keys \ {k} : g[j] = f[j]
  BY <1>2
<1>4. \A j \in Keys : g[j] \in Int
  BY <1>1, <1>2, <1>3
<1>5. DOMAIN f = Keys /\ DOMAIN g = Keys
  OBVIOUS
<1>6. /\ TotalPaid(w.writes) = SumFunctionOnSet(f, Keys)
      /\ TotalPaid(v.writes) = SumFunctionOnSet(g, Keys)
  BY DEF TotalPaid, SumFunction
<1>7. f[k] = Paid(w.writes[k]) /\ \A j \in Keys : g[j] = Paid(v.writes[j])
  OBVIOUS
<1> HIDE DEF f, g
<1>8. SumFunctionOnSet(g, Keys) = SumFunctionOnSet(f, Keys) + (g[k] - f[k])
  BY <1>1, <1>3, <1>4, KeysAssumption, SumUpdate
<1>9. v.pubdata = TotalPaid(v.writes)
  BY <1>3, <1>6, <1>7, <1>8 DEF PaysUp
<1> QED
  BY <1>4, <1>7, <1>9 DEF PaysUp

\* No step inside the open calls touches their copies.
LEMMA InsidePays ==
  ASSUME TypeOK, AllPaid, CopiesStay, UNCHANGED << frames, snapshot >>, PaysUp(World')
  PROVE  AllPaid'
  BY DEF AllPaid, CopiesStay

\* Writes keep every copy of the world paid up.
LEMMA WritingPays ==
  ASSUME NoneIsNoRecord, TypeOK, TypeOK', SnapshotsNest, AllPaid, StorageStep
  PROVE  AllPaid'
<1>1. CopiesStay
  BY StorageStepGrows, CopiesKept DEF CopiesStay
<1>2. UNCHANGED << frames, snapshot >>
  BY DEF StorageStep, ReadStorage, WriteFreeStorage, WriteStorage, control
<1>3. World.writes \in [Keys -> WriteEntries \cup {None}] /\ World'.writes = storage_writes'.map
  BY NewWorld DEF World, TypeOK, JournaledMap
<1>4. CASE Abstract!Observe
  BY <1>1, <1>2, <1>4, InsidePays DEF AllPaid, Abstract!Observe
<1>5. CASE Abstract!Write
  <2>1. PICK k \in Keys :
          /\ World'.writes[k] # None
          /\ World' = [World EXCEPT
               !.writes  = [@ EXCEPT ![k] = World'.writes[k]],
               !.pubdata = @ + World'.writes[k].paid - Abstract!Paid(World.writes[k])]
    BY <1>5, Zenon DEF Abstract!Write
  <2> DEFINE e == World'.writes[k]
  <2>2. e \in WriteEntries
    BY <1>3, <2>1 DEF TypeOK, JournaledMap
  <2>3. Abstract!Paid(World.writes[k]) = Paid(World.writes[k])
    BY DEF Abstract!Paid, Paid
  <2>4. /\ World'.writes = [World.writes EXCEPT ![k] = e]
        /\ World'.pubdata = World.pubdata + (e.paid - Paid(World.writes[k]))
    <3> HIDE DEF e
    <3> DEFINE x == [World.writes EXCEPT ![k] = e]
               y == World.pubdata + (e.paid - Paid(World.writes[k]))
    <3>1. World' = [World EXCEPT !.writes = x, !.pubdata = y]
      BY <2>1, <2>3, Zenon DEF e
    <3> HIDE DEF x, y
    <3>2. World'.writes = x /\ World'.pubdata = y
      BY <3>1, WorldExcept
    <3> QED
      BY <3>2 DEF x, y
  <2> HIDE DEF e
  <2>5. PaysUp(World')
    BY <1>3, <2>2, <2>4, WritePays DEF AllPaid, NoneIsNoRecord
  <2> QED
    BY <1>1, <1>2, <2>5, InsidePays
<1> QED
  BY <1>4, <1>5, StorageStepRefines

\* Other steps inside a call neither write nor pay.
LEMMA OtherInnerStepPays ==
  ASSUME PubdataExtras = {}, TypeOK, TypeOK', SnapshotsNest, AllPaid,
         TransientStep \/ MessageStep \/ DecommitStep
  PROVE  AllPaid'
<1>1. CopiesStay
  BY TransientStepGrows, MessageStepGrows, DecommitStepGrows, CopiesKept DEF CopiesStay
<1>2. UNCHANGED << frames, snapshot, storage_writes, pubdata >>
  BY DEF TransientStep, ReadTransientStorage, WriteTransientStorage, MessageStep,
         RecordEvent, RecordL2ToL1Log, DecommitStep, DecommitOpcode, control, rolled_back
<1>3. World'.writes = World.writes /\ World'.pubdata = World.pubdata
  BY <1>2, NewWorld DEF World
<1>4. PaysUp(World')
  BY <1>3, SamePays DEF AllPaid
<1> QED
  BY <1>1, <1>2, <1>4, InsidePays

\* Entering and leaving a call moves copies, paid up as they are.
LEMMA CallPays ==
  ASSUME NoneIsNoRecord, TypeOK, TypeOK', SnapshotsNest, AllPaid, CallStep
  PROVE  AllPaid'
<1>1. snapshot' = snapshot
  BY DEF CallStep, NearCall, FarCall, ReturnOk, ReturnFailed
<1> DEFINE n == Len(frames)
<1>2. n \in Nat /\ Len(Saved) = n /\ Saved = [i \in 1..n |-> Saved[i]]
  BY SavedIs
<1> HIDE DEF n
<1>3. CASE NearCall \/ FarCall
  <2>1. World' = World /\ Batch' = Batch /\ Saved' = Append(Saved, World)
    BY <1>3, CallRefines DEF Abstract!Enter
  <2>2. Len(frames') = n + 1
    <3>1. \E f : frames' = Append(frames, f)
      BY <1>3 DEF NearCall, FarCall
    <3> QED
      BY <3>1 DEF TypeOK, n
  <2>3. Saved' = [i \in 1..(n + 1) |-> IF i <= n THEN Saved[i] ELSE World]
    BY <1>2, <2>1, FunctionAsSequence
  <2>4. \A i \in 1..(n + 1) : (Saved'[i] = Saved[i] /\ i \in 1..n) \/ Saved'[i] = World
    BY <1>2, <2>3
  <2> QED
    BY <1>1, <2>1, <2>2, <2>4 DEF AllPaid, n
<1>4. ASSUME ReturnOk \/ ReturnFailed
      PROVE  /\ n # 0 /\ Len(frames') = n - 1
             /\ Batch' = Batch
             /\ \A i \in 1..(n - 1) : Saved'[i] = Saved[i] /\ i \in 1..n
             /\ World' = World \/ World' = Saved[n]
  <2>1. /\ Saved' = SubSeq(Saved, 1, Len(Saved) - 1) /\ Batch' = Batch
        /\ World' = World \/ World' = Saved[Len(Saved)]
    BY <1>4, ReturnOkRefines, ReturnFailedRefines DEF Abstract!Leave, Abstract!Fail
  <2>2. frames # << >> /\ frames' = Popped
    BY <1>4 DEF ReturnOk, ReturnFailed
  <2>3. n # 0 /\ Len(frames') = n - 1
    <3>1. Len(frames) \in Nat \ {0} /\ Len(Popped) = Len(frames) - 1
      BY <2>2, PoppedType
    <3> QED
      BY <2>2, <3>1 DEF n
  <2>4. SubSeq(Saved, 1, n - 1) = [i \in 1..(n - 1) |-> Saved[i]]
    BY <1>2, <2>3, FunctionAsSequence
  <2>5. \A i \in 1..(n - 1) : i \in 1..n
    BY <1>2
  <2> QED
    BY <1>2, <2>1, <2>3, <2>4, <2>5
<1>5. CASE ReturnOk \/ ReturnFailed
  <2>1. n \in 1..n
    BY <1>2, <1>4, <1>5
  <2> QED
    BY <1>1, <1>4, <1>5, <2>1 DEF AllPaid, n
<1> QED
  BY <1>3, <1>5 DEF CallStep

\* So do the host's snapshots and rollbacks.
LEMMA HostPays ==
  ASSUME ~HostAnywhere, TypeOK, TypeOK', SnapshotsNest, AllPaid, HostStep
  PROVE  AllPaid'
<1>1. frames = << >>
  BY DEF HostStep, MakeSnapshot, HostRollback, PopSnapshot, StartNewTx, HostMayAct
<1>2. Len(frames') = 0
  <2>1. frames' = << >>
    <3>1. CASE HostRollback
      <4>1. snapshot \in Seq(ExternalSnapshots) /\ snapshot # << >> /\ Len(snapshot) <= 1
        BY <3>1 DEF HostRollback, TypeOK
      <4>2. 1 \in 1..Len(snapshot)
        BY <4>1
      <4> QED
        BY <3>1, <4>2 DEF HostRollback, SnapshotsNest
    <3> QED
      BY <1>1, <3>1 DEF HostStep, MakeSnapshot, PopSnapshot, StartNewTx, control
  <2> QED
    BY <2>1
<1>3. Len(Batch) = Len(snapshot) /\ Len(snapshot) \in Nat
  BY BatchIs
<1>4. /\ Len(Batch') = Len(snapshot') /\ Len(snapshot') \in Nat
      /\ Batch' = [i \in 1..Len(snapshot') |-> Batch'[i]]
  <2>1. Len(snapshot') \in Nat
    BY LogLength DEF TypeOK
  <2>2. Batch' = [i \in 1..Len(snapshot') |-> Batch'[i]]
    BY Mapping
  <2> QED
    BY <2>1, <2>2, FunctionAsSequence
<1>5. CASE MakeSnapshot
  <2>1. /\ World' = World
        /\ Batch' = << [world  |-> [World EXCEPT !.transient = Floor],
                        ledger |-> Ledger, trace |-> storage_logs] >>
    BY <1>5, MakeSnapshotRefines DEF Abstract!HoldBatch, Floor
  <2>2. /\ [World EXCEPT !.transient = Floor].writes = World.writes
        /\ [World EXCEPT !.transient = Floor].pubdata = World.pubdata
    BY DEF World
  <2>3. Len(snapshot') = 1 /\ Batch'[1].world = [World EXCEPT !.transient = Floor]
    BY <1>4, <2>1
  <2>4. PaysUp([World EXCEPT !.transient = Floor])
    <3> DEFINE v == [World EXCEPT !.transient = Floor]
    <3>1. v.writes = World.writes /\ v.pubdata = World.pubdata
      BY <2>2
    <3> HIDE DEF v
    <3>2. PaysUp(v)
      BY <3>1, SamePays DEF AllPaid
    <3> QED
      BY <3>2 DEF v
  <2> QED
    BY <1>2, <2>1, <2>3, <2>4 DEF AllPaid
<1>6. CASE HostRollback
  <2>1. Batch # << >> /\ World' = Batch[1].world /\ Batch' = << >>
    BY <1>6, HostRollbackRefines DEF Abstract!UndoBatch
  <2>2. 1 \in 1..Len(snapshot) /\ Len(snapshot') = 0
    <3>1. snapshot # << >> /\ snapshot' = << >>
      BY <1>6 DEF HostRollback
    <3>2. snapshot \in Seq(ExternalSnapshots)
      BY DEF TypeOK
    <3> QED
      BY <3>1, <3>2
  <2> QED
    BY <1>2, <2>1, <2>2 DEF AllPaid
<1>7. CASE PopSnapshot
  <2>1. World' = World /\ Len(snapshot') = 0
    BY <1>7, PopSnapshotRefines DEF Abstract!CommitBatch, PopSnapshot
  <2> QED
    BY <1>2, <2>1 DEF AllPaid
<1>8. CASE StartNewTx
  <2> DEFINE absent == Abstract!Absent(TransientKeys)
  <2>1. /\ World' = [World EXCEPT !.transient = absent]
        /\ Batch' = [i \in 1..Len(Batch) |->
                       [Batch[i] EXCEPT !.world.transient = absent]]
    BY <1>8, StartNewTxRefines DEF Abstract!StartTx
  <2>2. snapshot' = snapshot
    BY <1>8 DEF StartNewTx, control
  <2>3. World'.writes = World.writes /\ World'.pubdata = World.pubdata
    BY <2>1 DEF World
  <2>4. ASSUME NEW i \in 1..Len(snapshot)
        PROVE  PaysUp(Batch'[i].world)
    <3> HIDE DEF absent
    <3>1. /\ Batch[i].world = Copy(snapshot[i].internal_snapshot)
          /\ Batch[i] = [world |-> Batch[i].world, ledger |-> Batch[i].ledger,
                         trace |-> Batch[i].trace]
      BY Mapping DEF HostCopy
    <3> DEFINE w == Batch[i].world
               v == [w EXCEPT !.transient = absent]
    <3>2. Batch'[i] = [Batch[i] EXCEPT !.world = v]
      BY <1>3, <2>1
    <3>3. Batch'[i].world = v
      BY <3>1, <3>2
    <3>4. v.writes = w.writes /\ v.pubdata = w.pubdata
      BY <3>1 DEF Copy, WorldOf
    <3>5. PaysUp(w)
      BY DEF AllPaid
    <3> HIDE DEF v, w
    <3> QED
      BY <3>3, <3>4, <3>5, SamePays
  <2>5. PaysUp(World')
    BY <2>3, SamePays DEF AllPaid
  <2> QED
    BY <1>2, <2>2, <2>4, <2>5 DEF AllPaid
<1> QED
  BY <1>5, <1>6, <1>7, <1>8 DEF HostStep

\* Every step keeps every copy paid up.
LEMMA NextPays ==
  ASSUME ~HostAnywhere, NoneIsNoRecord, PubdataExtras = {}, TypeOK, TypeOK', SnapshotsNest,
         AllPaid, [Next]_vars
  PROVE  AllPaid'
<1>1. CASE UNCHANGED vars
  <2>1. UNCHANGED << frames, snapshot >> /\ World' = World
    BY <1>1 DEF vars, control, World, rolled_back
  <2>2. CopiesStay
    BY <1>1, ReturnOkGrows, CopiesKept DEF CopiesStay, vars
  <2> QED
    BY <2>1, <2>2, InsidePays DEF AllPaid
<1> QED
  BY <1>1, WritingPays, OtherInnerStepPays, CallPays, HostPays DEF Next

\* Nothing is written and nothing paid at first.
LEMMA InitPays ==
  ASSUME Init
  PROVE  AllPaid
<1> DEFINE f == [k \in Keys |-> Paid(World.writes[k])]
<1>1. \A k \in Keys : f[k] = 0 /\ Paid(World.writes[k]) = 0
  BY DEF Init, EmptyMap, World, Paid
<1>2. World.pubdata = 0 /\ Len(frames) = 0 /\ Len(snapshot) = 0
  BY DEF Init, World
<1>3. TotalPaid(World.writes) = SumFunctionOnSet(f, Keys)
  BY DEF TotalPaid, SumFunction
<1> HIDE DEF f
<1>4. SumFunctionOnSet(f, Keys) = 0
  BY <1>1, KeysAssumption, SumZero
<1> QED
  BY <1>1, <1>2, <1>3, <1>4 DEF AllPaid, PaysUp

\* The pubdata counter is what the pending writes paid, for any number of slots,
\* prices and calls: WorldDiff keeps a running counter, charges the difference to
\* what a slot paid before and restores the counter with the journal, and never
\* sums anything (write_storage, WorldDiff::rollback, external_rollback).
THEOREM PubdataSums ==
  ASSUME ~HostAnywhere, NoneIsNoRecord
  PROVE  Spec => []PubdataIsPaid
<1>1. CASE PubdataExtras = {}
  <2>1. Init => AllPaid
    BY InitPays
  <2>2. TypeOK /\ TypeOK' /\ SnapshotsNest /\ AllPaid /\ [Next]_vars => AllPaid'
    BY <1>1, NextPays
  <2>3. AllPaid => PubdataIsPaid
    BY DEF AllPaid, PaysUp, World, PubdataIsPaid
  <2> QED
    BY <2>1, <2>2, <2>3, TypeInvariant, Nesting, PTL DEF Spec
<1>2. CASE PubdataExtras # {}
  <2>1. PubdataIsPaid
    BY <1>2 DEF PubdataIsPaid
  <2> QED
    BY <2>1, PTL
<1> QED
  BY <1>1, <1>2

-----------------------------------------------------------------------------
(* The invariant is kept by the host *)

\* A journal without history, and twins that go with it
LEMMA PendingAfresh ==
  ASSUME NEW m, m.old_entries = << >>, NEW held \in Seq(LogQueries), NEW logs, NEW flags,
         GoodTrace(logs, held, ValuesIn(m.map), flags.map)
  PROVE  Pending(m, held, logs, flags)
<1>1. Len(m.old_entries) = 0 /\ Len(held) \in Nat
  BY LenProperties
<1>2. Offset(held, m) \in Nat
  BY <1>1 DEF Offset
<1>3. Mirrors(held, m, Offset(held, m))
  BY <1>1 DEF Mirrors
<1> QED
  BY <1>2, <1>3 DEF Pending

\* Without open calls and without the host's snapshot there is nothing to keep.
LEMMA NothingSaved ==
  ASSUME NEW off, NEW copies, NEW held
  PROVE  SnapshotsInStep(<< >>, << >>, off) /\ HostKeeps(copies, << >>, held)
  BY DEF SnapshotsInStep, HostKeeps

\* The host takes its snapshot with journal and twins in step.
LEMMA MakeSnapshotTraces ==
  ASSUME ~HostAnywhere, TypeOK, Recording, MakeSnapshot
  PROVE  NewTraceInv
<1> DEFINE copy == [world  |-> [World EXCEPT !.transient = Floor],
                    ledger |-> Ledger, trace |-> storage_logs]
           s == ExternalSnapshot
           i == s.internal_snapshot
           off == Offset(rollback_storage_logs, storage_writes)
<1>1. Batch' = << copy >>
  BY MakeSnapshotRefines DEF Abstract!HoldBatch, Floor
<1>2. /\ UNCHANGED << storage_writes, trace, slot_flags, frames, skip_storage_logs >>
      /\ snapshot' = << s >>
  BY DEF MakeSnapshot, rolled_back, slots
<1>3. /\ copy.trace = storage_logs /\ copy.world.writes = storage_writes.map
      /\ copy.ledger.flags = slot_flags.map
  BY DEF World, Ledger
<1>4. /\ i.storage_writes = Len(storage_writes.old_entries)
      /\ i.rollback_storage_logs_len = Len(rollback_storage_logs)
  BY DEF ExternalSnapshot, Snapshot, MapSnapshot
<1>5. /\ rollback_storage_logs \in Seq(LogQueries)
      /\ Len(storage_writes.old_entries) \in Nat /\ Len(rollback_storage_logs) \in Nat
  BY TraceTypes
<1>6. GoodTrace(storage_logs, rollback_storage_logs, ValuesIn(storage_writes.map),
                slot_flags.map)
  BY DEF Recording, Pending
<1> HIDE DEF copy, s
<1>7. GoodCopy(copy, s, rollback_storage_logs)
  <2>1. LogRollback(rollback_storage_logs, Len(rollback_storage_logs)) = rollback_storage_logs
    BY <1>5, LogRollbackNow
  <2> QED
    BY <1>3, <1>4, <1>6, <2>1 DEF GoodCopy
<1>8. InStep(i, off)
  <2>1. Len(rollback_storage_logs) = Len(storage_writes.old_entries) + off
    BY <1>5 DEF Offset
  <2> QED
    BY <1>4, <2>1 DEF InStep
<1> HIDE DEF off
<1>9. Len(snapshot') = 1 /\ snapshot'[1] = s /\ Batch'[1] = copy
  BY <1>1, <1>2
<1>10. HostKeeps(Batch', snapshot', rollback_storage_logs)
  BY <1>7, <1>9 DEF HostKeeps
<1>11. SnapshotsInStep(frames', snapshot', off)
  <2>1. SnapshotsInStep(frames, snapshot, off)
    BY DEF Recording, off
  <2> QED
    BY <1>2, <1>8, <1>9, <2>1 DEF SnapshotsInStep
<1> QED
  BY <1>2, <1>10, <1>11 DEF Recording, NewTraceInv, trace, off

\* The host gets back a trace that is as good as the one it saved.
LEMMA HostRollbackTraces ==
  ASSUME ~HostAnywhere, TypeOK, TypeOK', SnapshotsNest, Recording, HostRollback
  PROVE  NewTraceInv
<1> DEFINE s == snapshot[1]
<1>1. /\ World' = Batch[1].world /\ Ledger' = Batch[1].ledger
      /\ storage_logs' = Batch[1].trace
  BY HostRollbackRefines DEF Abstract!UndoBatch
<1>2. 1 \in 1..Len(snapshot)
  <2>1. snapshot \in Seq(ExternalSnapshots) /\ snapshot # << >>
    BY DEF HostRollback, TypeOK
  <2> QED
    BY <2>1
<1>3. /\ frames' = << >> /\ snapshot' = << >>
      /\ rollback_storage_logs' =
           LogRollback(rollback_storage_logs, s.internal_snapshot.rollback_storage_logs_len)
      /\ storage_writes'.old_entries = << >>
  BY <1>2 DEF HostRollback, SnapshotsNest, MapDeleteHistory
<1>4. GoodCopy(Batch[1], s, rollback_storage_logs)
  BY <1>2 DEF Recording, HostKeeps
<1>5. Batch[1].world.writes = storage_writes'.map /\ Batch[1].ledger.flags = slot_flags'.map
  BY <1>1, NewWorld
<1>6. GoodTrace(storage_logs', rollback_storage_logs', ValuesIn(storage_writes'.map),
                slot_flags'.map)
  BY <1>1, <1>3, <1>4, <1>5 DEF GoodCopy
<1>7. rollback_storage_logs' \in Seq(LogQueries)
  BY DEF TypeOK
<1>8. Pending(storage_writes', rollback_storage_logs', storage_logs', slot_flags')
  BY <1>3, <1>6, <1>7, PendingAfresh
<1> QED
  BY <1>3, <1>8, NothingSaved DEF NewTraceInv

\* Giving up the snapshot keeps the trace.
LEMMA PopSnapshotTraces ==
  ASSUME ~HostAnywhere, TypeOK, Recording, PopSnapshot
  PROVE  NewTraceInv
<1>1. /\ frames' = << >> /\ snapshot' = << >> /\ UNCHANGED trace
      /\ storage_writes'.old_entries = << >> /\ storage_writes'.map = storage_writes.map
      /\ slot_flags'.map = slot_flags.map
  BY DEF PopSnapshot, HostMayAct, MapDeleteHistory
<1>2. GoodTrace(storage_logs', rollback_storage_logs', ValuesIn(storage_writes'.map),
                slot_flags'.map)
  BY <1>1 DEF Recording, Pending, trace
<1>3. rollback_storage_logs' \in Seq(LogQueries)
  BY <1>1, TraceTypes DEF trace
<1>4. Pending(storage_writes', rollback_storage_logs', storage_logs', slot_flags')
  BY <1>1, <1>2, <1>3, PendingAfresh
<1> QED
  BY <1>1, <1>4, NothingSaved DEF NewTraceInv

\* A new transaction drops the journals of the last.
LEMMA StartNewTxTraces ==
  ASSUME ~HostAnywhere, TypeOK, TypeOK', SnapshotsNest, Recording, StartNewTx
  PROVE  NewTraceInv
<1> DEFINE absent == Abstract!Absent(TransientKeys)
<1>1. Batch' = [b \in 1..Len(Batch) |-> [Batch[b] EXCEPT !.world.transient = absent]]
  BY StartNewTxRefines DEF Abstract!StartTx
<1>2. UNCHANGED << storage_writes, trace, slot_flags, frames, snapshot, skip_storage_logs >>
  BY DEF StartNewTx, control, slots
<1>3. Len(Batch) = Len(snapshot)
  BY BatchIs
<1> HIDE DEF absent
<1>4. ASSUME NEW b \in 1..Len(snapshot)
      PROVE  GoodCopy(Batch'[b], snapshot[b], rollback_storage_logs)
  <2> DEFINE c == Batch[b]
             v == [c.world EXCEPT !.transient = absent]
  <2>1. /\ c = [world |-> c.world, ledger |-> c.ledger, trace |-> c.trace]
        /\ c.world = Copy(snapshot[b].internal_snapshot)
    BY Mapping DEF HostCopy
  <2>2. v.writes = c.world.writes
    BY <2>1 DEF Copy, WorldOf
  <2>3. Batch'[b] = [c EXCEPT !.world = v]
    BY <1>1, <1>3
  <2> HIDE DEF v, c
  <2>4. Batch'[b].world = v /\ Batch'[b].ledger = c.ledger /\ Batch'[b].trace = c.trace
    BY <2>1, <2>3
  <2>5. GoodCopy(c, snapshot[b], rollback_storage_logs)
    BY DEF Recording, HostKeeps, c
  <2> QED
    BY <2>2, <2>4, <2>5 DEF GoodCopy
<1>5. HostKeeps(Batch', snapshot', rollback_storage_logs')
  BY <1>2, <1>4 DEF HostKeeps, trace
<1> QED
  BY <1>2, <1>5 DEF Recording, NewTraceInv, trace

\* Every step keeps the invariant.
LEMMA NextTraces ==
  ASSUME ~HostAnywhere, NoneIsNoRecord, TypeOK, TypeOK', SnapshotsNest, TraceInv, [Next]_vars
  PROVE  TraceInv'
<1>1. skip_storage_logs' = skip_storage_logs
  <2>1. CASE UNCHANGED vars
    BY <2>1 DEF vars, slots
  <2>2. CASE StorageStep
    BY <2>2 DEF StorageStep, ReadStorage, ReadStorageInner, WriteFreeStorage, WriteStorage
  <2>3. CASE TransientStep \/ MessageStep \/ DecommitStep
    BY <2>3 DEF TransientStep, ReadTransientStorage, WriteTransientStorage, MessageStep,
         RecordEvent, RecordL2ToL1Log, ChargePubdata, DecommitStep, DecommitOpcode, slots
  <2>4. CASE CallStep
    BY <2>4 DEF CallStep, NearCall, FarCall, FarCallDecommit, ReadStorageInner, ReturnOk,
         ReturnFailed, slots
  <2>5. CASE HostStep
    BY <2>5 DEF HostStep, MakeSnapshot, HostRollback, PopSnapshot, StartNewTx, slots
  <2> QED
    BY <2>1, <2>2, <2>3, <2>4, <2>5 DEF Next
<1>2. CASE skip_storage_logs
  BY <1>1, <1>2 DEF TraceInv
<1>3. CASE ~skip_storage_logs
  <2>1. Recording
    BY <1>3 DEF TraceInv, Recording
  <2>2. NewTraceInv
    BY <2>1, StorageTraces, OtherStepTraces, EnterTraces, ReturnOkTraces,
       ReturnFailedTraces, MakeSnapshotTraces, HostRollbackTraces, PopSnapshotTraces,
       StartNewTxTraces DEF Next, CallStep, HostStep
  <2> QED
    BY <2>2, NewTraceInvIs
<1> QED
  BY <1>2, <1>3

\* An empty trace satisfies it.
LEMMA InitTraces ==
  ASSUME Init
  PROVE  TraceInv
<1>1. /\ storage_writes.old_entries = << >> /\ storage_logs = << >>
      /\ rollback_storage_logs = << >> /\ frames = << >> /\ snapshot = << >>
      /\ \A k \in Keys : storage_writes.map[k] = None /\ slot_flags.map[k] = None
  BY DEF Init, EmptyMap
<1>2. GoodTrace(storage_logs, rollback_storage_logs, ValuesIn(storage_writes.map),
                slot_flags.map)
  <2>1. UndoesOnce(<< >>) /\ Holds(<< >>, << >>)
    BY DEF UndoesOnce, Holds
  <2>2. Replays(<< >>, ValuesIn(storage_writes.map))
    <3>1. \A k \in Keys : WritesIn(<< >>, Len(<< >>) + 1, k) = {}
      BY DEF WritesIn
    <3> QED
      BY <1>1, <3>1 DEF Replays, ReplayedIn, ValuesIn
  <2>3. FlagsFollow(slot_flags.map, << >>)
    BY <1>1 DEF FlagsFollow
  <2> QED
    BY <1>1, <2>1, <2>2, <2>3 DEF GoodTrace
<1>3. rollback_storage_logs \in Seq(LogQueries)
  BY <1>1
<1>4. Pending(storage_writes, rollback_storage_logs, storage_logs, slot_flags)
  BY <1>1, <1>2, <1>3, PendingAfresh
<1> QED
  BY <1>1, <1>4, NothingSaved DEF TraceInv

-----------------------------------------------------------------------------
(* What the invariant says of the trace *)

\* The trace is a good record in every reachable state.
LEMMA TraceInvariant ==
  ASSUME ~HostAnywhere, NoneIsNoRecord
  PROVE  Spec => []TraceInv
<1>1. Init => TraceInv
  BY InitTraces
<1>2. TypeOK /\ TypeOK' /\ SnapshotsNest /\ TraceInv /\ [Next]_vars => TraceInv'
  BY NextTraces
<1> QED
  BY <1>1, <1>2, TypeInvariant, Nesting, PTL DEF Spec

\* The trace explains itself, whatever failed and whatever the host took back: a
\* consumer that replays it meets at every entry the value the entry says it
\* found, and ends with the pending state (write_storage, read_storage_inner,
\* append_rollback_logs, external_rollback).
THEOREM TraceExplains ==
  ASSUME ~HostAnywhere, NoneIsNoRecord
  PROVE  Spec => []TraceReplays
<1>1. TypeOK /\ TraceInv => TraceReplays
  <2> SUFFICES ASSUME TypeOK, TraceInv, ~skip_storage_logs
               PROVE  /\ \A i \in 1..Len(storage_logs) :
                           Before(storage_logs[i]) = Replayed(i, storage_logs[i].key)
                      /\ \A k \in Keys :
                           CurrentValue(k) = Replayed(Len(storage_logs) + 1, k)
    BY DEF TraceReplays
  <2>1. Replays(storage_logs, ValuesIn(storage_writes.map))
    BY DEF TraceInv, Pending, GoodTrace
  <2>2. \A i, k : WritesIn(storage_logs, i, k) = Writes(i, k)
    BY DEF WritesIn, Writes, Accesses
  <2>3. \A i, k : ReplayedIn(storage_logs, i, k) = Replayed(i, k)
    BY <2>2 DEF ReplayedIn, Replayed
  <2> QED
    BY <2>1, <2>3, TraceTypes DEF Replays
<1> QED
  BY <1>1, TypeInvariant, TraceInvariant, PTL

\* With recording off nothing enters the trace, so that nothing leaves it either.
Silent == skip_storage_logs => storage_logs = << >> /\ rollback_storage_logs = << >>

\* Every step keeps it so.
LEMMA SilentNext ==
  ASSUME TypeOK, SnapshotsNest, Silent, [Next]_vars
  PROVE  Silent'
<1>0. SUFFICES ASSUME skip_storage_logs'
               PROVE  storage_logs' = << >> /\ rollback_storage_logs' = << >>
  BY DEF Silent
<1>1. CASE UNCHANGED vars
  BY <1>0, <1>1 DEF vars, slots, trace, Silent
<1>2. CASE StorageStep
  BY <1>0, <1>2 DEF StorageStep, ReadStorage, ReadStorageInner, WriteFreeStorage,
     WriteStorage, RecordWrite, trace, Silent
<1>3. CASE TransientStep \/ MessageStep \/ DecommitStep
  BY <1>0, <1>3 DEF TransientStep, ReadTransientStorage, WriteTransientStorage, MessageStep,
       RecordEvent, RecordL2ToL1Log, ChargePubdata, DecommitStep, DecommitOpcode, slots,
       trace, Silent
<1>4. CASE NearCall \/ FarCall \/ ReturnOk
  BY <1>0, <1>4 DEF NearCall, FarCall, FarCallDecommit, ReadStorageInner, ReturnOk,
       slots, trace, Silent
<1>5. CASE MakeSnapshot \/ PopSnapshot \/ StartNewTx
  BY <1>0, <1>5 DEF MakeSnapshot, PopSnapshot, StartNewTx, slots, trace, Silent
<1>6. CASE ReturnFailed
  <2> DEFINE s == Top.world_before_this_frame
             n == s.rollback_storage_logs_len
             undone == SubSeq(rollback_storage_logs, n + 1, Len(rollback_storage_logs))
  <2>1. /\ AppendRollbackLogs(s) /\ frames # << >>
        /\ storage_logs = << >> /\ rollback_storage_logs = << >>
    BY <1>0, <1>6 DEF ReturnFailed, slots, Silent
  <2>2. n \in Nat
    BY <2>1, PoppedType DEF Snapshots
  <2>3. undone = << >>
    BY <2>1, <2>2
  <2>4. ReverseSeq(undone) = << >>
    <3> HIDE DEF undone
    <3>1. ReverseSeq(<< >>) \in Seq({}) /\ Len(ReverseSeq(<< >>)) = 0
      <4>1. ReverseSeq(<< >>) = [j \in 1..0 |-> << >>[0 + 1 - j]]
        BY DEF ReverseSeq
      <4>2. \A j \in 1..0 : << >>[0 + 1 - j] \in {}
        OBVIOUS
      <4>3. ReverseSeq(<< >>) \in [1..0 -> {}]
        BY <4>1, <4>2
      <4> DEFINE none == ReverseSeq(<< >>)
      <4> HIDE DEF none
      <4>4. none \in Seq({}) /\ Len(none) = 0
        BY <4>3 DEF none
      <4> QED
        BY <4>4 DEF none
    <3>2. ReverseSeq(<< >>) = << >>
      BY <3>1, EmptySeq
    <3> QED
      BY <2>3, <3>2
  <2>5. /\ storage_logs' = storage_logs \o ReverseSeq(undone)
        /\ rollback_storage_logs' = LogRollback(rollback_storage_logs, n)
    BY <2>1 DEF AppendRollbackLogs
  <2>6. LogRollback(<< >>, n) = << >>
    BY <2>2 DEF LogRollback
  <2> HIDE DEF undone, n
  <2> QED
    BY <2>1, <2>4, <2>5, <2>6
<1>7. CASE HostRollback
  <2> DEFINE i == snapshot[1].internal_snapshot
  <2>1. /\ storage_logs' = LogRollback(storage_logs, i.storage_logs_len)
        /\ rollback_storage_logs' = LogRollback(rollback_storage_logs,
                                                i.rollback_storage_logs_len)
        /\ storage_logs = << >> /\ rollback_storage_logs = << >>
    BY <1>0, <1>7 DEF HostRollback, Silent
  <2>2. i.storage_logs_len \in Nat /\ i.rollback_storage_logs_len \in Nat
    <3>1. snapshot \in Seq(ExternalSnapshots) /\ snapshot # << >>
      BY <1>7 DEF HostRollback, TypeOK
    <3>2. 1 \in 1..Len(snapshot)
      BY <3>1
    <3>3. i \in Snapshots
      BY <3>2, NestedWithin
    <3> QED
      BY <3>3 DEF Snapshots
  <2>3. \A n \in Nat : LogRollback(<< >>, n) = << >>
    BY DEF LogRollback
  <2> QED
    BY <2>1, <2>2, <2>3
<1> QED
  BY <1>1, <1>2, <1>3, <1>4, <1>5, <1>6, <1>7 DEF Next, CallStep, HostStep

\* Every rollback entry takes back one earlier write, none is taken back twice,
\* and the twins held back are those of the writes that can still be taken back
\* (write_storage_inner, append_rollback_logs).
THEOREM TwinsAreExact ==
  ASSUME ~HostAnywhere, NoneIsNoRecord
  PROVE  Spec => []RollbackTwins
<1>1. ASSUME TypeOK, TraceInv, Silent
      PROVE  RollbackTwins
  <2> DEFINE N == Len(storage_logs)
             H == Len(rollback_storage_logs)
             undone == {i \in 1..N : storage_logs[i].rollback}
             forward == {i \in 1..N : storage_logs[i].rw_flag /\ ~storage_logs[i].rollback}
             twin(i) == WriteOf(storage_logs[i])
             pending(i) == WriteOf(rollback_storage_logs[i])
  <2>1. UndoesOnce(storage_logs) /\ Holds(storage_logs, rollback_storage_logs)
    <3>1. UndoesOnce(<< >>) /\ Holds(<< >>, << >>)
      BY DEF UndoesOnce, Holds
    <3> QED
      BY <1>1, <3>1 DEF Silent, TraceInv, Pending, GoodTrace
  <2>2. N \in Nat /\ H \in Nat
    BY <1>1, TraceTypes
  <2>3. /\ \A i \in 1..N : storage_logs[i].rollback =>
             /\ twin(i) \in 1..(i - 1)
             /\ storage_logs[twin(i)] = [storage_logs[i] EXCEPT !.rollback = FALSE]
             /\ \A j \in 1..N : storage_logs[j].rollback /\ j # i => twin(j) # twin(i)
        /\ \A i \in 1..H :
             /\ pending(i) \in 1..N
             /\ IsForward(storage_logs[pending(i)])
             /\ rollback_storage_logs[i]
                  = [storage_logs[pending(i)] EXCEPT !.rollback = TRUE]
             /\ \A j \in 1..N : storage_logs[j].rollback => twin(j) # pending(i)
        /\ \A p \in 1..N : IsForward(storage_logs[p]) =>
             \/ \E i \in 1..H : pending(i) = p
             \/ \E j \in 1..N : storage_logs[j].rollback /\ twin(j) = p
        /\ \A i, j \in 1..H : i < j => pending(i) < pending(j)
    BY <2>1 DEF UndoesOnce, Holds
  <2>4. \A p : p \in forward <=> p \in 1..N /\ IsForward(storage_logs[p])
    BY DEF IsForward
  <2>5. \A j : j \in undone <=> j \in 1..N /\ storage_logs[j].rollback
    OBVIOUS
  <2> HIDE DEF N, H, undone, forward, twin, pending
  <2>6. ASSUME NEW i \in undone
        PROVE  /\ twin(i) < i
               /\ storage_logs[twin(i)] = [storage_logs[i] EXCEPT !.rollback = FALSE]
               /\ \A j \in undone \ {i} : twin(j) # twin(i)
    <3>1. i \in 1..N /\ twin(i) \in 1..(i - 1)
      BY <2>3, <2>5
    <3>2. twin(i) < i
      BY <2>2, <3>1
    <3> QED
      BY <2>3, <2>5, <3>1, <3>2
  <2>7. {pending(i) : i \in 1..H} = forward \ {twin(i) : i \in undone}
    <3>1. ASSUME NEW i \in 1..H
          PROVE  pending(i) \in forward \ {twin(j) : j \in undone}
      BY <2>3, <2>4, <2>5
    <3>2. ASSUME NEW p \in forward \ {twin(j) : j \in undone}
          PROVE  \E i \in 1..H : pending(i) = p
      BY <2>3, <2>4, <2>5
    <3> QED
      BY <3>1, <3>2
  <2> QED
    BY <2>3, <2>6, <2>7 DEF RollbackTwins, N, H, undone, forward, twin, pending
<1>2. Init => Silent
  BY DEF Init, Silent
<1>3. TypeOK /\ SnapshotsNest /\ Silent /\ [Next]_vars => Silent'
  BY SilentNext
<1> QED
  BY <1>1, <1>2, <1>3, TypeInvariant, Nesting, TraceInvariant, PTL DEF Spec

\* The flags follow the trace in every reachable state.
LEMMA TraceFlags ==
  ASSUME TypeOK, TraceInv
  PROVE  FlagsMatchTrace
<1> SUFFICES ASSUME ~skip_storage_logs, NEW k \in Keys
             PROVE  LET end == Len(storage_logs) + 1
                        flags == slot_flags.map[k]
                    IN /\ (flags = None) <=> (Accesses(end, k) = {})
                       /\ flags # None =>
                            /\ SLOT_READ \in flags
                            /\ (SLOT_WRITTEN \in flags) <=> (ForwardWrites(end, k) # {})
                            /\ SLOT_PROTECTIVE_READ \notin flags
  BY DEF FlagsMatchTrace
<1> DEFINE N == Len(storage_logs)
<1>1. N \in Nat /\ (N + 1) - 1 = N
  BY TraceTypes
<1>2. /\ Accesses(N + 1, k) = {j \in 1..N : storage_logs[j].key = k}
      /\ ForwardWrites(N + 1, k) =
           {j \in 1..N : storage_logs[j].key = k /\ IsForward(storage_logs[j])}
  BY <1>1 DEF Accesses, Writes, ForwardWrites, IsForward
<1>3. FlagsFollow(slot_flags.map, storage_logs)
  BY DEF TraceInv, Pending, GoodTrace
<1> QED
  BY <1>2, <1>3 DEF FlagsFollow

\* A slot is warm exactly when the trace holds an access to it (add_slot_flags,
\* which a failing call never undoes, and external_rollback, which does).
THEOREM WarmthIsHistory ==
  ASSUME ~HostAnywhere, NoneIsNoRecord
  PROVE  Spec => []FlagsMatchTrace
  BY TraceFlags, TypeInvariant, TraceInvariant, PTL

\* The flags tell the same history as the trace.
LEMMA HistoryIs ==
  ASSUME FlagsMatchTrace, ~skip_storage_logs, NEW k \in Keys
  PROVE  LET end == Len(storage_logs) + 1
         IN /\ ~AddsFlags(slot_flags, k, {SLOT_READ}) <=> Accesses(end, k) # {}
            /\ ~AddsFlags(slot_flags, k, {SLOT_WRITTEN}) <=> ForwardWrites(end, k) # {}
<1>1. \A end : ForwardWrites(end, k) \subseteq Accesses(end, k)
  BY DEF ForwardWrites, Writes
<1> QED
  BY <1>1 DEF FlagsMatchTrace, AddsFlags

\* The step gives a refund for one access, and the trace ends with that access.
Refunds(k, is_write, refund) ==
  /\ storage_refunds' = Append(storage_refunds, refund)
  /\ \E e \in LogQueries : /\ storage_logs' = Append(storage_logs, e)
                           /\ e.key = k /\ e.rw_flag = is_write

\* A step that gives a refund is one access.
LEMMA RefundedAccess ==
  ASSUME TypeOK, TypeOK', ~skip_storage_logs, [Next]_vars,
         Len(storage_refunds') > Len(storage_refunds)
  PROVE  \E k \in Keys :
           \/ Refunds(k, FALSE, ReadRefund(k))
           \/ k \in FreeSlots /\ Refunds(k, TRUE, WARM_WRITE_REFUND)
           \/ k \notin FreeSlots /\ Refunds(k, TRUE, WriteRefund(k))
<1>1. Len(storage_refunds) \in Nat /\ storage_refunds \in Seq(Nat)
  BY LenProperties DEF TypeOK
<1>2. storage_refunds' # storage_refunds
  BY <1>1
<1>3. CASE StorageStep
  <2>1. ASSUME NEW k \in Keys, ReadStorage(k)
        PROVE  Refunds(k, FALSE, ReadRefund(k))
    <3> DEFINE e == Log(k, CurrentValue(k), CurrentValue(k), FALSE)
    <3>1. e \in LogQueries /\ e.key = k /\ e.rw_flag = FALSE
      BY CurrentValueType, LogType DEF Log
    <3>2. storage_logs' = Append(storage_logs, e)
      BY <2>1 DEF ReadStorage, ReadStorageInner
    <3> HIDE DEF e
    <3> QED
      BY <2>1, <3>1, <3>2 DEF Refunds, ReadStorage
  <2>2. ASSUME NEW k \in Keys, NEW v \in Values, WriteFreeStorage(k, v) \/ WriteStorage(k, v)
        PROVE  \/ k \in FreeSlots /\ Refunds(k, TRUE, WARM_WRITE_REFUND)
               \/ k \notin FreeSlots /\ Refunds(k, TRUE, WriteRefund(k))
    <3> DEFINE e == Log(k, CurrentValue(k), v, TRUE)
    <3>1. e \in LogQueries /\ e.key = k /\ e.rw_flag = TRUE
      BY CurrentValueType, LogType DEF Log
    <3>2. storage_logs' = Append(storage_logs, e)
      BY <2>2 DEF WriteFreeStorage, WriteStorage, RecordWrite
    <3> HIDE DEF e
    <3> QED
      BY <2>2, <3>1, <3>2 DEF Refunds, WriteFreeStorage, WriteStorage
  <2> QED
    BY <1>3, <2>1, <2>2 DEF StorageStep
<1>4. ASSUME ~StorageStep
      PROVE  FALSE
  <2>1. CASE HostRollback
    <3> DEFINE n == snapshot[1].storage_refunds
    <3>1. storage_refunds' = LogRollback(storage_refunds, n)
      BY <2>1 DEF HostRollback
    <3>2. n \in Nat
      <4>1. snapshot \in Seq(ExternalSnapshots) /\ snapshot # << >>
        BY <2>1 DEF HostRollback, TypeOK
      <4>2. 1 \in 1..Len(snapshot)
        BY <4>1
      <4>3. snapshot[1] \in ExternalSnapshots
        BY <4>1, <4>2, ElementOfSeq
      <4> QED
        BY <4>3 DEF ExternalSnapshots
    <3> HIDE DEF n
    <3>3. Len(storage_refunds') = IF n < Len(storage_refunds) THEN n ELSE Len(storage_refunds)
      BY <1>1, <3>1, <3>2, LogRollbackPrefix
    <3> QED
      BY <1>1, <3>2, <3>3
  <2> QED
    BY <1>2, <1>4, <2>1 DEF Next, vars, charges, TransientStep, ReadTransientStorage,
       WriteTransientStorage, MessageStep, RecordEvent, RecordL2ToL1Log, ChargePubdata,
       DecommitStep, DecommitOpcode, CallStep, NearCall, FarCall, ReturnOk, ReturnFailed,
       HostStep, MakeSnapshot, PopSnapshot, StartNewTx
<1> QED
  BY <1>3, <1>4

\* Every refund is the one the history of the slot entitles it to, whether or
\* not the calls of that history failed (read_storage, write_storage).
THEOREM RefundsAreDue ==
  ASSUME ~HostAnywhere, NoneIsNoRecord
  PROVE  Spec => RefundsFollowHistory
<1> DEFINE Due == ~skip_storage_logs /\ Len(storage_refunds') > Len(storage_refunds) =>
             LET log == Last(storage_logs')
             IN Last(storage_refunds') = ExpectedRefund(log.key, log.rw_flag)
<1>1. ASSUME TypeOK, TypeOK', FlagsMatchTrace, [Next]_vars, ~skip_storage_logs,
             Len(storage_refunds') > Len(storage_refunds)
      PROVE  Last(storage_refunds')
               = ExpectedRefund(Last(storage_logs').key, Last(storage_logs').rw_flag)
  <2>1. PICK k \in Keys :
          \/ Refunds(k, FALSE, ReadRefund(k))
          \/ k \in FreeSlots /\ Refunds(k, TRUE, WARM_WRITE_REFUND)
          \/ k \notin FreeSlots /\ Refunds(k, TRUE, WriteRefund(k))
    BY <1>1, RefundedAccess
  <2>2. ASSUME NEW is_write, NEW refund \in Nat, Refunds(k, is_write, refund)
        PROVE  /\ Last(storage_refunds') = refund
               /\ Last(storage_logs').key = k /\ Last(storage_logs').rw_flag = is_write
    <3>1. storage_refunds \in Seq(Nat) /\ storage_logs \in Seq(LogQueries)
      BY <1>1 DEF TypeOK
    <3>2. PICK e \in LogQueries : /\ storage_logs' = Append(storage_logs, e)
                                  /\ e.key = k /\ e.rw_flag = is_write
      BY <2>2 DEF Refunds
    <3>3. Last(storage_logs') = e
      BY <3>1, <3>2, AppendProperties DEF Last
    <3>4. Last(storage_refunds') = refund
      BY <2>2, <3>1, AppendProperties DEF Last, Refunds
    <3> QED
      BY <3>2, <3>3, <3>4
  <2>3. /\ ReadRefund(k) \in Nat /\ WARM_WRITE_REFUND \in Nat /\ WriteRefund(k) \in Nat
    BY RefundTypes DEF ReadRefund, WriteRefund
  <2> DEFINE end == Len(storage_logs) + 1
  <2>4. /\ ~AddsFlags(slot_flags, k, {SLOT_READ}) <=> Accesses(end, k) # {}
        /\ ~AddsFlags(slot_flags, k, {SLOT_WRITTEN}) <=> ForwardWrites(end, k) # {}
    BY <1>1, HistoryIs
  <2>5. ReadRefund(k) = ExpectedRefund(k, FALSE)
    BY <2>4 DEF ReadRefund, ExpectedRefund
  <2>6. k \in FreeSlots => WARM_WRITE_REFUND = ExpectedRefund(k, TRUE)
    BY DEF ExpectedRefund
  <2>7. k \notin FreeSlots => WriteRefund(k) = ExpectedRefund(k, TRUE)
    BY <2>4 DEF WriteRefund, ExpectedRefund
  <2> QED
    BY <2>1, <2>2, <2>3, <2>5, <2>6, <2>7
<1>2. TypeOK /\ TypeOK' /\ FlagsMatchTrace /\ [Next]_vars => [Due]_vars
  BY <1>1
<1>3. Spec => []FlagsMatchTrace
  BY WarmthIsHistory
<1> QED
  BY <1>2, <1>3, TypeInvariant, PTL DEF Spec, RefundsFollowHistory

-----------------------------------------------------------------------------
(* The two recording modes: the inductive invariant *)

\* The quiet world diff's snapshots, from the recording one's
Hush(s) ==
  [storage_writes |-> s.storage_writes, events |-> s.events,
   l2_to_l1_logs |-> s.l2_to_l1_logs,
   transient_storage_changes |-> s.transient_storage_changes, pubdata |-> s.pubdata,
   storage_logs_len |-> 0, rollback_storage_logs_len |-> 0]

HushCall(f) == [f EXCEPT !.world_before_this_frame = Hush(f.world_before_this_frame)]

HushCalls(fs) == [i \in 1..Len(fs) |-> HushCall(fs[i])]

SameFlags(flags, q_flags) ==
  \A k \in Keys : AccessFlags(q_flags[k]) = AccessFlags(flags[k])

\* What the host would get back agrees, the flags of the maps m and q included.
SameHost(s, t) ==
  /\ t.internal_snapshot = Hush(s.internal_snapshot)
  /\ t.storage_refunds = s.storage_refunds /\ t.pubdata_costs = s.pubdata_costs
  /\ t.near_calls = HushCalls(s.near_calls)

HostFlags(s, m, t, q) ==
  /\ s.slot_flags \in 0..Len(m.old_entries) /\ t.slot_flags \in 0..Len(q.old_entries)
  /\ SameFlags(MapAt(m, s.slot_flags), MapAt(q, t.slot_flags))

FlagMaps(m, q) ==
  /\ q \in JournaledMap(Keys, SUBSET SlotFlags)
  /\ SameFlags(m.map, q.map)

SameBooks ==
  /\ q_storage_writes = storage_writes
  /\ q_transient_storage_changes = transient_storage_changes
  /\ q_events = events /\ q_l2_to_l1_logs = l2_to_l1_logs /\ q_pubdata = pubdata
  /\ q_storage_refunds = storage_refunds /\ q_pubdata_costs = pubdata_costs

QuietTrace ==
  /\ ~skip_storage_logs /\ q_skip_storage_logs
  /\ q_storage_logs = << >> /\ q_rollback_storage_logs = << >>

HostAgrees(host, m, q_host, q) ==
  \/ host = << >> /\ q_host = << >>
  \/ /\ host # << >> /\ q_host # << >>
     /\ SameHost(host[1], q_host[1])
     /\ HostFlags(host[1], m, q_host[1], q)

ModesInv ==
  /\ SameBooks
  /\ QuietTrace
  /\ FlagMaps(slot_flags, q_slot_flags)
  /\ q_frames = HushCalls(frames)
  /\ HostAgrees(snapshot, slot_flags, q_snapshot, q_slot_flags)

\* The invariant after a step, its parts written with primed variables
NewModesInv ==
  /\ SameBooks'
  /\ QuietTrace'
  /\ FlagMaps(slot_flags', q_slot_flags')
  /\ q_frames' = HushCalls(frames')
  /\ HostAgrees(snapshot', slot_flags', q_snapshot', q_slot_flags')

\* The invariant with its primes pushed inside.
LEMMA NewModesInvIs ==
  ASSUME NewModesInv
  PROVE  ModesInv'
  BY Zenon DEF NewModesInv, ModesInv, FlagMaps, SameFlags, AccessFlags, HushCalls, HushCall,
     Hush, HostAgrees, SameHost, HostFlags, MapAt, Touched, Oldest, JournaledMap

-----------------------------------------------------------------------------
(* The operators of the two instances are the same. *)

\* An operator computes the same in either instance.
LEMMA QuietOperators ==
  /\ \A m, k, v : Quiet!MapInsert(m, k, v) = MapInsert(m, k, v)
  /\ \A m, k, f : Quiet!AddsFlags(m, k, f) = AddsFlags(m, k, f)
  /\ \A m, k, f : Quiet!AddFlags(m, k, f) = AddFlags(m, k, f)
  /\ \A m, n : Quiet!MapAt(m, n) = MapAt(m, n)
  /\ \A m, n : Quiet!MapRollback(m, n) = MapRollback(m, n)
  /\ \A m : Quiet!MapDeleteHistory(m) = MapDeleteHistory(m)
  /\ \A l, n : Quiet!LogRollback(l, n) = LogRollback(l, n)
  /\ \A e : Quiet!Paid(e) = Paid(e)
  /\ \A s : Quiet!ReverseSeq(s) = ReverseSeq(s)
<1>1. \A m, k, v : Quiet!MapInsert(m, k, v) = MapInsert(m, k, v)
  BY DEF Quiet!MapInsert, MapInsert
<1>2. \A m, k, f : Quiet!AddsFlags(m, k, f) = AddsFlags(m, k, f)
  BY DEF Quiet!AddsFlags, AddsFlags
<1>3. \A m, k, f : Quiet!AddFlags(m, k, f) = AddFlags(m, k, f)
  BY <1>1, <1>2 DEF Quiet!AddFlags, AddFlags
<1>4. \A m, n : Quiet!MapAt(m, n) = MapAt(m, n)
  BY DEF Quiet!MapAt, MapAt, Quiet!Touched, Touched, Quiet!Oldest, Oldest
<1>5. \A m, n : Quiet!MapRollback(m, n) = MapRollback(m, n)
  BY <1>4 DEF Quiet!MapRollback, MapRollback
<1>6. \A m : Quiet!MapDeleteHistory(m) = MapDeleteHistory(m)
  BY DEF Quiet!MapDeleteHistory, MapDeleteHistory
<1>7. \A l, n : Quiet!LogRollback(l, n) = LogRollback(l, n)
  BY DEF Quiet!LogRollback, LogRollback
<1>8. \A e : Quiet!Paid(e) = Paid(e)
  BY DEF Quiet!Paid, Paid
<1>9. \A s : Quiet!ReverseSeq(s) = ReverseSeq(s)
  BY DEF Quiet!ReverseSeq, ReverseSeq
<1> QED
  BY <1>1, <1>2, <1>3, <1>4, <1>5, <1>6, <1>7, <1>8, <1>9

-----------------------------------------------------------------------------
(* Flags *)

\* m2 is m with flags f added to k, as far as they count.
CountsAlso(m, m2, k, f) ==
  \A j \in Keys :
    AccessFlags(m2.map[j])
      = IF j = k THEN AccessFlags(m.map[k]) \cup (f \ {SLOT_PROTECTIVE_READ})
        ELSE AccessFlags(m.map[j])

\* Adding flags unites what counts of them.
LEMMA AddedAccess ==
  ASSUME NoneIsNoRecord, NEW m \in JournaledMap(Keys, SUBSET SlotFlags), NEW k \in Keys,
         NEW f \in SUBSET SlotFlags
  PROVE  CountsAlso(m, AddFlags(m, k, f), k, f)
<1>1. m.map \in [Keys -> (SUBSET SlotFlags) \cup {None}] /\ None \notin SUBSET SlotFlags
  BY DEF JournaledMap, NoneIsNoRecord
<1>2. CASE AddsFlags(m, k, f)
  <2> DEFINE v == IF m.map[k] = None THEN f ELSE m.map[k] \cup f
  <2>1. v \in SUBSET SlotFlags
    BY <1>1
  <2>2. AddFlags(m, k, f).map = [m.map EXCEPT ![k] = v]
    BY <1>2 DEF AddFlags, MapInsert
  <2>3. AccessFlags(v) = AccessFlags(m.map[k]) \cup (f \ {SLOT_PROTECTIVE_READ})
    BY <1>1, <2>1 DEF AccessFlags
  <2> HIDE DEF v
  <2>4. \A j \in Keys : AddFlags(m, k, f).map[j] = IF j = k THEN v ELSE m.map[j]
    BY <1>1, <2>2
  <2> QED
    BY <2>3, <2>4 DEF CountsAlso
<1>3. CASE ~AddsFlags(m, k, f)
  <2>1. AddFlags(m, k, f) = m /\ m.map[k] # None /\ f \subseteq m.map[k]
    BY <1>3 DEF AddFlags, AddsFlags
  <2>2. AccessFlags(m.map[k]) = AccessFlags(m.map[k]) \cup (f \ {SLOT_PROTECTIVE_READ})
    BY <2>1 DEF AccessFlags
  <2> QED
    BY <2>1, <2>2 DEF CountsAlso
<1> QED
  BY <1>2, <1>3

\* Whether an access adds a flag shows in what counts of them.
LEMMA AddsAccess ==
  ASSUME NEW m, NEW k, NEW f, f \in {SLOT_READ, SLOT_WRITTEN}
  PROVE  AddsFlags(m, k, {f}) <=> f \notin AccessFlags(m.map[k])
  BY DEF AddsFlags, AccessFlags, SLOT_READ, SLOT_WRITTEN, SLOT_PROTECTIVE_READ

\* One access, on two maps that agree, leaves two that agree, also in what the
\* host's snapshots remember.
FlagsMove(m, m2, q, q2) ==
  /\ MapGrows(m, m2) /\ MapGrows(q, q2)
  /\ q2 \in JournaledMap(Keys, SUBSET SlotFlags)
  /\ SameFlags(m2.map, q2.map)

\* Adding the same flags to both leaves them alike.
LEMMA AddBoth ==
  ASSUME NoneIsNoRecord, NEW m \in JournaledMap(Keys, SUBSET SlotFlags),
         NEW q, FlagMaps(m, q), NEW k \in Keys, NEW f \in SUBSET SlotFlags
  PROVE  FlagsMove(m, AddFlags(m, k, f), q, AddFlags(q, k, f))
<1>1. /\ MapGrows(m, AddFlags(m, k, f)) /\ MapGrows(q, AddFlags(q, k, f))
      /\ AddFlags(q, k, f) \in JournaledMap(Keys, SUBSET SlotFlags)
  BY AddFlagsGrows DEF FlagMaps
<1>2. CountsAlso(m, AddFlags(m, k, f), k, f)
  BY AddedAccess
<1>3. CountsAlso(q, AddFlags(q, k, f), k, f)
  BY AddedAccess DEF FlagMaps
<1> QED
  BY <1>1, <1>2, <1>3 DEF CountsAlso, FlagsMove, SameFlags, FlagMaps

\* Protective reads do not count.
LEMMA AddProtective ==
  ASSUME NoneIsNoRecord, NEW m, NEW m2, NEW q, NEW q2, FlagsMove(m, m2, q, q2),
         q \in JournaledMap(Keys, SUBSET SlotFlags), NEW k \in Keys
  PROVE  FlagsMove(m, m2, q, AddFlags(q2, k, {SLOT_PROTECTIVE_READ}))
<1> DEFINE q3 == AddFlags(q2, k, {SLOT_PROTECTIVE_READ})
<1>1. q2 \in JournaledMap(Keys, SUBSET SlotFlags)
  BY DEF FlagsMove
<1>2. MapGrows(q2, q3) /\ q3 \in JournaledMap(Keys, SUBSET SlotFlags)
  BY <1>1, AddFlagsGrows, FlagSets
<1>3. MapGrows(q, q3)
  BY <1>1, <1>2, MapGrowsTransitive DEF FlagsMove
<1>4. CountsAlso(q2, q3, k, {SLOT_PROTECTIVE_READ})
  BY <1>1, FlagSets, AddedAccess
<1>5. \A j \in Keys : AccessFlags(q3.map[j]) = AccessFlags(q2.map[j])
  BY <1>4 DEF CountsAlso
<1> HIDE DEF q3
<1>6. FlagsMove(m, m2, q, q3)
  BY <1>2, <1>3, <1>5 DEF FlagsMove, SameFlags
<1> QED
  BY <1>6 DEF q3

\* Two accesses move the flags alike, as one does.
LEMMA MoveTwice ==
  ASSUME NEW m \in JournaledMap(Keys, SUBSET SlotFlags),
         NEW m2 \in JournaledMap(Keys, SUBSET SlotFlags),
         NEW m3 \in JournaledMap(Keys, SUBSET SlotFlags),
         NEW q \in JournaledMap(Keys, SUBSET SlotFlags), NEW q2, NEW q3,
         FlagsMove(m, m2, q, q2), FlagsMove(m2, m3, q2, q3)
  PROVE  FlagsMove(m, m3, q, q3)
<1>1. /\ q2 \in JournaledMap(Keys, SUBSET SlotFlags)
      /\ q3 \in JournaledMap(Keys, SUBSET SlotFlags)
  BY DEF FlagsMove
<1>2. MapGrows(m, m3) /\ MapGrows(q, q3)
  BY <1>1, MapGrowsTransitive DEF FlagsMove
<1> QED
  BY <1>2 DEF FlagsMove

\* The host's flags stand still when both maps grow.
LEMMA HostFlagsStand ==
  ASSUME NEW s, NEW t, NEW m, NEW m2, NEW q, NEW q2,
         HostFlags(s, m, t, q), FlagsMove(m, m2, q, q2)
  PROVE  HostFlags(s, m2, t, q2)
  BY DEF HostFlags, FlagsMove, MapGrows

-----------------------------------------------------------------------------
(* Accesses on both *)

\* What an access does to the books of both, k's flags aside
LEMMA AccessAgrees ==
  ASSUME NoneIsNoRecord, TypeOK, ModesInv, SameBooks', QuietTrace',
         UNCHANGED << frames, snapshot, q_frames, q_snapshot >>,
         FlagsMove(slot_flags, slot_flags', q_slot_flags, q_slot_flags')
  PROVE  NewModesInv
<1>1. FlagMaps(slot_flags', q_slot_flags')
  BY DEF FlagsMove, FlagMaps
<1>2. HostAgrees(snapshot, slot_flags', q_snapshot, q_slot_flags')
  BY HostFlagsStand DEF ModesInv, HostAgrees
<1> QED
  BY <1>1, <1>2 DEF NewModesInv, ModesInv

\* The flags of both modes are journaled maps that agree.
LEMMA FlagsNow ==
  ASSUME TypeOK, ModesInv
  PROVE  /\ slot_flags \in JournaledMap(Keys, SUBSET SlotFlags)
         /\ q_slot_flags \in JournaledMap(Keys, SUBSET SlotFlags)
         /\ FlagMaps(slot_flags, q_slot_flags)
  BY DEF TypeOK, ModesInv, FlagMaps

\* Both modes find a flag missing or present alike.
LEMMA AddsSame ==
  ASSUME TypeOK, ModesInv, NEW k \in Keys, NEW f \in {SLOT_READ, SLOT_WRITTEN}
  PROVE  AddsFlags(q_slot_flags, k, {f}) = AddsFlags(slot_flags, k, {f})
<1>1. AccessFlags(q_slot_flags.map[k]) = AccessFlags(slot_flags.map[k])
  BY FlagsNow DEF FlagMaps, SameFlags
<1>2. AddsFlags(q_slot_flags, k, {f}) <=> f \notin AccessFlags(q_slot_flags.map[k])
  BY AddsAccess
<1>3. AddsFlags(slot_flags, k, {f}) <=> f \notin AccessFlags(slot_flags.map[k])
  BY AddsAccess
<1>4. AddsFlags(q_slot_flags, k, {f}) \in BOOLEAN /\ AddsFlags(slot_flags, k, {f}) \in BOOLEAN
  BY DEF AddsFlags
<1> QED
  BY <1>1, <1>2, <1>3, <1>4

\* read_storage_inner, as a load and as part of a far call
LEMMA InnerReadAgrees ==
  ASSUME NoneIsNoRecord, TypeOK, ModesInv, NEW k \in Keys,
         ReadStorageInner(k), Quiet!ReadStorageInner(k)
  PROVE  /\ FlagsMove(slot_flags, slot_flags', q_slot_flags, q_slot_flags')
         /\ q_pubdata_costs' = pubdata_costs'
         /\ QuietTrace'
<1>1. ~skip_storage_logs /\ q_skip_storage_logs /\ q_storage_logs = << >>
      /\ q_rollback_storage_logs = << >> /\ q_pubdata_costs = pubdata_costs
  BY DEF ModesInv, QuietTrace, SameBooks
<1>2. slot_flags' = AddFlags(slot_flags, k, {SLOT_READ})
  BY <1>1 DEF ReadStorageInner
<1> DEFINE q2 == AddFlags(q_slot_flags, k, {SLOT_READ})
<1>3. q_slot_flags' \in {q2, AddFlags(q2, k, {SLOT_PROTECTIVE_READ})}
  BY <1>1, QuietOperators DEF Quiet!ReadStorageInner, SLOT_READ, Quiet!SLOT_READ,
     SLOT_PROTECTIVE_READ, Quiet!SLOT_PROTECTIVE_READ
<1>4. FlagsMove(slot_flags, slot_flags', q_slot_flags, q2)
  BY <1>2, FlagsNow, FlagSets, AddBoth
<1> HIDE DEF q2
<1>5. FlagsMove(slot_flags, slot_flags', q_slot_flags, q_slot_flags')
  BY <1>3, <1>4, FlagsNow, AddProtective
<1>6. q_pubdata_costs' = pubdata_costs'
  BY <1>1 DEF ReadStorageInner, Quiet!ReadStorageInner
<1>7. QuietTrace'
  BY <1>1 DEF ReadStorageInner, Quiet!ReadStorageInner, QuietTrace
<1> QED
  BY <1>5, <1>6, <1>7

\* A load on both.
LEMMA BothReadAgrees ==
  ASSUME NoneIsNoRecord, TypeOK, ModesInv, NEW k \in Keys, BothRead(k)
  PROVE  NewModesInv
<1>1. ReadStorage(k) /\ Quiet!ReadStorage(k)
  BY DEF BothRead
<1>2. ReadStorageInner(k) /\ Quiet!ReadStorageInner(k)
  BY <1>1 DEF ReadStorage, Quiet!ReadStorage
<1>3. UNCHANGED << frames, snapshot, q_frames, q_snapshot >>
  BY <1>1 DEF ReadStorage, Quiet!ReadStorage, control, Quiet!control
<1>4. Quiet!ReadRefund(k) = ReadRefund(k)
  BY AddsSame, QuietOperators DEF ReadRefund, Quiet!ReadRefund, SLOT_READ, Quiet!SLOT_READ,
     WARM_READ_REFUND, Quiet!WARM_READ_REFUND
<1>5. SameBooks'
  BY <1>1, <1>2, <1>4, InnerReadAgrees
     DEF ReadStorage, Quiet!ReadStorage, rolled_back, Quiet!rolled_back, SameBooks, ModesInv
<1> QED
  BY <1>2, <1>3, <1>5, InnerReadAgrees, AccessAgrees

\* The flags a write leaves
LEMMA WriteFlagsAgree ==
  ASSUME NoneIsNoRecord, TypeOK, ModesInv, NEW k \in Keys
  PROVE  LET m2 == AddFlags(slot_flags, k, {SLOT_WRITTEN})
             q2 == AddFlags(q_slot_flags, k, {SLOT_WRITTEN})
         IN /\ FlagsMove(slot_flags, m2, q_slot_flags, q2)
            /\ FlagsMove(slot_flags, AddFlags(m2, k, {SLOT_READ}),
                         q_slot_flags, AddFlags(q2, k, {SLOT_READ}))
<1> DEFINE m2 == AddFlags(slot_flags, k, {SLOT_WRITTEN})
           q2 == AddFlags(q_slot_flags, k, {SLOT_WRITTEN})
           m3 == AddFlags(m2, k, {SLOT_READ})
           q3 == AddFlags(q2, k, {SLOT_READ})
<1>1. FlagsMove(slot_flags, m2, q_slot_flags, q2)
  BY FlagsNow, FlagSets, AddBoth
<1>2. m2 \in JournaledMap(Keys, SUBSET SlotFlags) /\ m3 \in JournaledMap(Keys, SUBSET SlotFlags)
  BY FlagsNow, FlagSets, AddFlagsType
<1>3. FlagMaps(m2, q2)
  BY <1>1 DEF FlagsMove, FlagMaps
<1>4. FlagsMove(m2, m3, q2, q3)
  <2> HIDE DEF m2, q2
  <2> QED
    BY <1>2, <1>3, FlagSets, AddBoth
<1> HIDE DEF m2, q2, m3, q3
<1>5. FlagsMove(slot_flags, m3, q_slot_flags, q3)
  BY <1>1, <1>2, <1>4, FlagsNow, MoveTwice
<1> QED
  BY <1>1, <1>5 DEF m2, m3, q2, q3

\* A write on both, to a free slot or a paid one.
LEMMA BothWriteAgrees ==
  ASSUME NoneIsNoRecord, TypeOK, ModesInv, NEW k \in Keys, NEW v \in Values, BothWrite(k, v)
  PROVE  NewModesInv
<1> DEFINE m2 == AddFlags(slot_flags, k, {SLOT_WRITTEN})
           q2 == AddFlags(q_slot_flags, k, {SLOT_WRITTEN})
<1>1. SameBooks /\ QuietTrace
  BY DEF ModesInv
<1>2. CASE WriteFreeStorage(k, v) /\ Quiet!WriteFreeStorage(k, v)
  <2>1. UNCHANGED << frames, snapshot, q_frames, q_snapshot >>
    BY <1>2 DEF WriteFreeStorage, Quiet!WriteFreeStorage, control, Quiet!control
  <2>2. QuietTrace'
    BY <1>1, <1>2 DEF QuietTrace, WriteFreeStorage, Quiet!WriteFreeStorage,
       Quiet!RecordWrite, Quiet!trace
  <2>3. SameBooks'
    BY <1>1, <1>2, QuietOperators DEF SameBooks, WriteFreeStorage, Quiet!WriteFreeStorage,
       WARM_WRITE_REFUND, Quiet!WARM_WRITE_REFUND
  <2>4. /\ slot_flags' = AddFlags(m2, k, {SLOT_READ})
        /\ q_slot_flags' = AddFlags(q2, k, {SLOT_READ})
    BY <1>2, QuietOperators DEF WriteFreeStorage, Quiet!WriteFreeStorage, SLOT_READ,
       Quiet!SLOT_READ, SLOT_WRITTEN, Quiet!SLOT_WRITTEN
  <2>5. FlagsMove(slot_flags, slot_flags', q_slot_flags, q_slot_flags')
    BY <2>4, WriteFlagsAgree
  <2> QED
    BY <2>1, <2>2, <2>3, <2>5, AccessAgrees
<1>3. CASE WriteStorage(k, v) /\ Quiet!WriteStorage(k, v)
  <2>1. UNCHANGED << frames, snapshot, q_frames, q_snapshot >>
    BY <1>3 DEF WriteStorage, Quiet!WriteStorage, control, Quiet!control
  <2>2. QuietTrace'
    BY <1>1, <1>3 DEF QuietTrace, WriteStorage, Quiet!WriteStorage,
       Quiet!RecordWrite, Quiet!trace
  <2>3. /\ AddsFlags(q_slot_flags, k, {SLOT_WRITTEN}) = AddsFlags(slot_flags, k, {SLOT_WRITTEN})
        /\ AddsFlags(q_slot_flags, k, {SLOT_READ}) = AddsFlags(slot_flags, k, {SLOT_READ})
    BY AddsSame
  <2>4. Quiet!WriteRefund(k) = WriteRefund(k)
    BY <2>3, QuietOperators DEF WriteRefund, Quiet!WriteRefund, SLOT_READ, Quiet!SLOT_READ,
       SLOT_WRITTEN, Quiet!SLOT_WRITTEN, WARM_WRITE_REFUND, Quiet!WARM_WRITE_REFUND,
       COLD_WRITE_AFTER_WARM_READ_REFUND, Quiet!COLD_WRITE_AFTER_WARM_READ_REFUND
  <2>5. SameBooks'
    BY <1>1, <1>3, <2>4, QuietOperators DEF SameBooks, WriteStorage, Quiet!WriteStorage
  <2>6. \/ slot_flags' = AddFlags(m2, k, {SLOT_READ}) /\ q_slot_flags' = AddFlags(q2, k, {SLOT_READ})
        \/ slot_flags' = m2 /\ q_slot_flags' = q2
    BY <1>3, <2>3, QuietOperators DEF WriteStorage, Quiet!WriteStorage, SLOT_READ,
       Quiet!SLOT_READ, SLOT_WRITTEN, Quiet!SLOT_WRITTEN
  <2>7. FlagsMove(slot_flags, slot_flags', q_slot_flags, q_slot_flags')
    BY <2>6, WriteFlagsAgree
  <2> QED
    BY <2>1, <2>2, <2>5, <2>7, AccessAgrees
<1> QED
  BY <1>2, <1>3 DEF BothWrite

-----------------------------------------------------------------------------
(* Calls and returns on both *)

\* The hushed stack follows the stack.
LEMMA HushedPush ==
  ASSUME NEW fs \in Seq(Frames), NEW f \in Frames
  PROVE  HushCalls(Append(fs, f)) = Append(HushCalls(fs), HushCall(f))
<1> DEFINE n == Len(fs)
           gs == Append(fs, f)
<1>1. n \in Nat /\ gs \in Seq(Frames) /\ Len(gs) = n + 1 /\ gs[n + 1] = f
      /\ \A i \in 1..n : gs[i] = fs[i]
  OBVIOUS
<1>2. \A i \in 1..n : HushCall(fs[i]) \in Frames
  <2>1. \A i \in 1..n : fs[i] \in Frames
    OBVIOUS
  <2> QED
    BY <2>1 DEF HushCall, Hush, Frames, Snapshots
<1>3. HushCall(f) \in Frames
  BY DEF HushCall, Hush, Frames, Snapshots
<1>4. HushCalls(fs) \in Seq(Frames) /\ Len(HushCalls(fs)) = n
      /\ \A i \in 1..n : HushCalls(fs)[i] = HushCall(fs[i])
  BY <1>1, <1>2 DEF HushCalls
<1> HIDE DEF n, gs
<1>5. HushCalls(gs) = [i \in 1..(n + 1) |-> HushCall(gs[i])]
  BY <1>1 DEF HushCalls
<1>6. \A i \in 1..(n + 1) : HushCall(gs[i]) \in Frames
  BY <1>1, <1>2, <1>3
<1>7. HushCalls(gs) \in Seq(Frames) /\ Len(HushCalls(gs)) = n + 1
      /\ \A i \in 1..(n + 1) : HushCalls(gs)[i] = HushCall(gs[i])
  BY <1>1, <1>5, <1>6
<1> DEFINE h == HushCalls(fs)
           a == Append(h, HushCall(f))
<1>8. a \in Seq(Frames) /\ Len(a) = n + 1 /\ a[n + 1] = HushCall(f)
      /\ \A i \in 1..n : a[i] = h[i]
  <2> HIDE DEF h
  <2> QED
    BY <1>3, <1>4 DEF h
<1> HIDE DEF h, a
<1>9. \A i \in 1..(n + 1) : HushCalls(gs)[i] = a[i]
  BY <1>1, <1>4, <1>7, <1>8 DEF h
<1>10. HushCalls(gs) = a
  BY <1>7, <1>8, <1>9, SeqEqual
<1> QED
  BY <1>10 DEF gs, a, h

\* The hushed stack loses its last frame with the stack.
LEMMA HushedPop ==
  ASSUME NEW fs \in Seq(Frames), fs # << >>
  PROVE  LET h == HushCalls(fs)
         IN /\ Len(h) = Len(fs) /\ h # << >>
            /\ h[Len(h)] = HushCall(fs[Len(fs)])
            /\ SubSeq(h, 1, Len(h) - 1) = HushCalls(SubSeq(fs, 1, Len(fs) - 1))
<1> DEFINE n == Len(fs)
           h == HushCalls(fs)
           ps == SubSeq(fs, 1, n - 1)
<1>1. n \in Nat \ {0}
  OBVIOUS
<1>2. \A i \in 1..n : HushCall(fs[i]) \in Frames
  <2>1. \A i \in 1..n : fs[i] \in Frames
    OBVIOUS
  <2> QED
    BY <2>1 DEF HushCall, Hush, Frames, Snapshots
<1>3. h \in Seq(Frames) /\ Len(h) = n /\ \A i \in 1..n : h[i] = HushCall(fs[i])
  BY <1>1, <1>2 DEF HushCalls
<1>4. ps \in Seq(Frames) /\ Len(ps) = n - 1 /\ \A i \in 1..(n - 1) : ps[i] = fs[i]
  <2> HIDE DEF h
  <2>1. n - 1 \in Int /\ 1 \in Int /\ (n - 1) - 1 + 1 = n - 1
        /\ \A i \in 1..(n - 1) : fs[i] \in Frames /\ 1 + i - 1 = i
    BY <1>1
  <2>2. /\ ps \in Seq(Frames) /\ Len(ps) = IF 1 <= n - 1 THEN (n - 1) - 1 + 1 ELSE 0
        /\ \A i \in 1..((n - 1) - 1 + 1) : ps[i] = fs[1 + i - 1]
    BY <2>1, SubSeqProperties
  <2> HIDE DEF n, ps
  <2>3. Len(ps) = n - 1
    BY <1>1, <2>2
  <2> QED
    BY <2>1, <2>2, <2>3
<1> HIDE DEF n, h, ps
<1>5. h # << >>
  BY <1>1, <1>3
<1>6. h[n] = HushCall(fs[n])
  BY <1>1, <1>3
<1>7. HushCalls(ps) = [i \in 1..(n - 1) |-> HushCall(ps[i])]
  BY <1>4 DEF HushCalls
<1>8. \A i \in 1..(n - 1) : HushCall(ps[i]) \in Frames
  BY <1>1, <1>2, <1>4
<1>9. HushCalls(ps) \in Seq(Frames) /\ Len(HushCalls(ps)) = n - 1
      /\ \A i \in 1..(n - 1) : HushCalls(ps)[i] = HushCall(ps[i])
  BY <1>1, <1>7, <1>8
<1>10. /\ SubSeq(h, 1, n - 1) \in Seq(Frames) /\ Len(SubSeq(h, 1, n - 1)) = n - 1
       /\ \A i \in 1..(n - 1) : SubSeq(h, 1, n - 1)[i] = h[i]
  BY <1>1, <1>3
<1>11. \A i \in 1..(n - 1) : SubSeq(h, 1, n - 1)[i] = HushCalls(ps)[i]
  BY <1>1, <1>3, <1>4, <1>9, <1>10
<1>12. SubSeq(h, 1, n - 1) = HushCalls(ps)
  BY <1>9, <1>10, <1>11, SeqEqual
<1> QED
  BY <1>3, <1>5, <1>6, <1>12 DEF n, h, ps

\* No frames, hushed, are none.
LEMMA HushedNone == HushCalls(<< >>) = << >>
<1> DEFINE none == HushCalls(<< >>)
<1>1. none = [i \in 1..0 |-> HushCall(<< >>[i])]
  BY DEF HushCalls
<1>5. \A i \in 1..0 : HushCall(<< >>[i]) \in {}
  OBVIOUS
<1>2. none \in [1..0 -> {}]
  BY <1>1, <1>5
<1> HIDE DEF none
<1>3. none \in Seq({}) /\ Len(none) = 0
  BY <1>2
<1>4. none = << >>
  BY <1>3, EmptySeq
<1> QED
  BY <1>4 DEF none

\* Both take the same snapshot, but for the trace's lengths.
LEMMA SnapshotsAgree ==
  ASSUME TypeOK, ModesInv
  PROVE  Quiet!Snapshot = Hush(Snapshot)
<1>1. Len(q_storage_logs) = 0 /\ Len(q_rollback_storage_logs) = 0
  BY DEF ModesInv, QuietTrace
<1>2. /\ Quiet!MapSnapshot(q_storage_writes) = MapSnapshot(storage_writes)
      /\ Quiet!MapSnapshot(q_transient_storage_changes)
           = MapSnapshot(transient_storage_changes)
      /\ q_events = events /\ q_l2_to_l1_logs = l2_to_l1_logs /\ q_pubdata = pubdata
  BY DEF ModesInv, SameBooks, MapSnapshot, Quiet!MapSnapshot
<1> QED
  BY <1>1, <1>2 DEF Quiet!Snapshot, Snapshot, Hush

\* Both push the same frame, but for the lengths of the trace.
LEMMA FramesAgree ==
  ASSUME TypeOK, ModesInv, NEW kind \in {"near", "far"}, NEW n \in Nat
  PROVE  Quiet!Frame(kind, 0) = HushCall(Frame(kind, n)) /\ Frame(kind, n) \in Frames
<1>1. Snapshot \in Snapshots
  BY SnapshotType
<1>2. Quiet!Snapshot = Hush(Snapshot)
  BY SnapshotsAgree
<1>3. Frame(kind, n) = [kind |-> kind, world_before_this_frame |->
                          [Snapshot EXCEPT !.storage_logs_len = n]]
  BY DEF Frame
<1>4. Quiet!Frame(kind, 0) = [kind |-> kind, world_before_this_frame |->
                                [Hush(Snapshot) EXCEPT !.storage_logs_len = 0]]
  BY <1>2 DEF Quiet!Frame
<1> DEFINE s == Snapshot
<1>5. s \in Snapshots
  BY <1>1
<1> HIDE DEF s
<1>6. /\ [s EXCEPT !.storage_logs_len = n] \in Snapshots
      /\ Hush([s EXCEPT !.storage_logs_len = n]) = Hush(s)
      /\ [Hush(s) EXCEPT !.storage_logs_len = 0] = Hush(s)
  BY <1>5 DEF Hush, Snapshots
<1>7. Frame(kind, n) = [kind |-> kind, world_before_this_frame |->
                          [s EXCEPT !.storage_logs_len = n]]
      /\ Quiet!Frame(kind, 0) = [kind |-> kind, world_before_this_frame |-> Hush(s)]
  BY <1>3, <1>4, <1>6 DEF s
<1> QED
  BY <1>6, <1>7 DEF HushCall, Frames

\* A call, on both, on flags that have moved alike.
LEMMA CallAgrees ==
  ASSUME NoneIsNoRecord, TypeOK, ModesInv, SameBooks', QuietTrace',
         UNCHANGED << snapshot, q_snapshot >>,
         FlagsMove(slot_flags, slot_flags', q_slot_flags, q_slot_flags'),
         NEW kind \in {"near", "far"}, NEW n \in Nat,
         frames' = Append(frames, Frame(kind, n)),
         q_frames' = Append(q_frames, Quiet!Frame(kind, 0))
  PROVE  NewModesInv
<1>1. FlagMaps(slot_flags', q_slot_flags')
  BY DEF FlagsMove, FlagMaps
<1>2. HostAgrees(snapshot', slot_flags', q_snapshot', q_slot_flags')
  BY HostFlagsStand DEF ModesInv, HostAgrees
<1>3. frames \in Seq(Frames) /\ q_frames = HushCalls(frames)
  BY DEF TypeOK, ModesInv
<1>4. Quiet!Frame(kind, 0) = HushCall(Frame(kind, n)) /\ Frame(kind, n) \in Frames
  BY FramesAgree
<1>5. HushCalls(frames') = Append(HushCalls(frames), HushCall(Frame(kind, n)))
  BY <1>3, <1>4, HushedPush
<1> QED
  BY <1>1, <1>2, <1>3, <1>4, <1>5 DEF NewModesInv

\* Flags that stand still have moved alike.
LEMMA StayMoves ==
  ASSUME TypeOK, ModesInv
  PROVE  FlagsMove(slot_flags, slot_flags, q_slot_flags, q_slot_flags)
  BY FlagsNow, MapGrowsReflexive DEF FlagsMove, FlagMaps

\* A near call on both.
LEMMA BothNearCallAgrees ==
  ASSUME NoneIsNoRecord, TypeOK, ModesInv, BothNearCall
  PROVE  NewModesInv
<1>1. NearCall /\ Quiet!NearCall
  BY DEF BothNearCall
<1>2. SameBooks' /\ QuietTrace' /\ UNCHANGED << snapshot, q_snapshot >>
      /\ UNCHANGED << slot_flags, q_slot_flags >>
  BY <1>1 DEF NearCall, Quiet!NearCall, ModesInv, SameBooks, QuietTrace, rolled_back,
     charges, trace, slots, Quiet!rolled_back, Quiet!charges, Quiet!trace, Quiet!slots
<1>3. FlagsMove(slot_flags, slot_flags', q_slot_flags, q_slot_flags')
  BY <1>2, StayMoves
<1>4. Len(q_storage_logs) = 0 /\ Len(storage_logs) \in Nat
  BY SnapshotType DEF ModesInv, QuietTrace
<1>5. /\ frames' = Append(frames, Frame("near", Len(storage_logs)))
      /\ q_frames' = Append(q_frames, Quiet!Frame("near", 0))
  BY <1>1, <1>4 DEF NearCall, Quiet!NearCall
<1> QED
  BY <1>2, <1>3, <1>4, <1>5, CallAgrees

\* A far call on both, with its read of the code info.
LEMMA BothFarCallAgrees ==
  ASSUME NoneIsNoRecord, TypeOK, TypeOK', ModesInv, NEW k \in Keys, BothFarCall(k)
  PROVE  NewModesInv
<1>1. /\ FarCall /\ FarCallDecommit(k)
      /\ Quiet!FarCall /\ Quiet!FarCallDecommit(k)
  BY DEF BothFarCall
<1>2. ReadStorageInner(k) /\ Quiet!ReadStorageInner(k)
  BY <1>1 DEF FarCallDecommit, Quiet!FarCallDecommit
<1>3. /\ FlagsMove(slot_flags, slot_flags', q_slot_flags, q_slot_flags')
      /\ q_pubdata_costs' = pubdata_costs'
      /\ QuietTrace'
  BY <1>2, InnerReadAgrees
<1>4. /\ UNCHANGED << rolled_back, storage_refunds, snapshot >>
      /\ UNCHANGED << Quiet!rolled_back, q_storage_refunds, q_snapshot >>
  BY <1>1 DEF FarCall, Quiet!FarCall
<1>5. SameBooks'
  BY <1>3, <1>4 DEF ModesInv, SameBooks, rolled_back, Quiet!rolled_back
<1>6. q_storage_logs' = << >> /\ Len(storage_logs') \in Nat
  BY <1>3 DEF QuietTrace, TypeOK
<1>7. /\ frames' = Append(frames, Frame("far", Len(storage_logs')))
      /\ q_frames' = Append(q_frames, Quiet!Frame("far", 0))
  BY <1>1, <1>6 DEF FarCall, Quiet!FarCall
<1> QED
  BY <1>3, <1>4, <1>5, <1>6, <1>7, CallAgrees

\* A call that ends has the same effect on both.
LEMMA ReturnAgrees ==
  ASSUME NoneIsNoRecord, TypeOK, ModesInv, SameBooks', QuietTrace',
         UNCHANGED << snapshot, q_snapshot, slot_flags, q_slot_flags >>,
         frames # << >>, frames' = Popped, q_frames' = Quiet!Popped
  PROVE  NewModesInv
<1>1. FlagMaps(slot_flags', q_slot_flags')
  BY FlagsNow
<1>2. HostAgrees(snapshot', slot_flags', q_snapshot', q_slot_flags')
  BY DEF ModesInv
<1>3. frames \in Seq(Frames) /\ q_frames = HushCalls(frames)
  BY DEF TypeOK, ModesInv
<1>4. q_frames' = HushCalls(frames')
  BY <1>3, HushedPop DEF Popped, Quiet!Popped
<1> QED
  BY <1>1, <1>2, <1>4 DEF NewModesInv

\* A successful return on both.
LEMMA BothReturnOkAgrees ==
  ASSUME NoneIsNoRecord, TypeOK, ModesInv, ReturnOk, Quiet!ReturnOk
  PROVE  NewModesInv
<1>1. SameBooks' /\ QuietTrace' /\ UNCHANGED << snapshot, q_snapshot >>
      /\ UNCHANGED << slot_flags, q_slot_flags >>
  BY DEF ReturnOk, Quiet!ReturnOk, ModesInv, SameBooks, QuietTrace, rolled_back,
     charges, trace, slots, Quiet!rolled_back, Quiet!charges, Quiet!trace, Quiet!slots
<1>2. frames # << >> /\ frames' = Popped /\ q_frames' = Quiet!Popped
  BY DEF ReturnOk, Quiet!ReturnOk
<1> QED
  BY <1>1, <1>2, ReturnAgrees

\* An empty log has no twins to give back.
LEMMA NoTwins == ReverseSeq(SubSeq(<< >>, 1, Len(<< >>))) = << >>
<1>1. SubSeq(<< >>, 1, Len(<< >>)) = << >>
  OBVIOUS
<1> DEFINE none == ReverseSeq(<< >>)
<1>2. none = [j \in 1..0 |-> << >>[0 + 1 - j]]
  BY DEF ReverseSeq
<1>6. \A j \in 1..0 : << >>[0 + 1 - j] \in {}
  OBVIOUS
<1>3. none \in [1..0 -> {}]
  BY <1>2, <1>6
<1> HIDE DEF none
<1>4. none \in Seq({}) /\ Len(none) = 0
  BY <1>3
<1>5. none = << >>
  BY <1>4, EmptySeq
<1> QED
  BY <1>1, <1>5 DEF none

\* A failed return on both.
LEMMA BothReturnFailedAgrees ==
  ASSUME NoneIsNoRecord, TypeOK, ModesInv, ReturnFailed, Quiet!ReturnFailed
  PROVE  NewModesInv
<1> DEFINE s == Top.world_before_this_frame
           t == Quiet!Top.world_before_this_frame
<1>1. /\ frames # << >> /\ RollbackTo(s)
      /\ frames' = Popped /\ q_frames' = Quiet!Popped
      /\ Quiet!RollbackTo(t) /\ Quiet!AppendRollbackLogs(t)
      /\ UNCHANGED << charges, slots, snapshot >>
      /\ UNCHANGED << Quiet!charges, Quiet!slots, q_snapshot >>
  BY DEF ReturnFailed, Quiet!ReturnFailed
<1>2. frames \in Seq(Frames) /\ q_frames = HushCalls(frames)
  BY DEF TypeOK, ModesInv
<1>3. Top \in Frames /\ s \in Snapshots /\ Quiet!Top = HushCall(Top)
  <2>1. q_frames[Len(q_frames)] = HushCall(frames[Len(frames)])
    BY <1>1, <1>2, HushedPop
  <2>2. frames[Len(frames)] \in Frames
    BY <1>1, <1>2
  <2> QED
    BY <2>1, <2>2 DEF Top, Quiet!Top, Frames
<1>4. t = Hush(s)
  BY <1>3 DEF HushCall, Frames
<1> HIDE DEF s, t
<1>5. /\ t.storage_writes = s.storage_writes /\ t.events = s.events
      /\ t.l2_to_l1_logs = s.l2_to_l1_logs /\ t.pubdata = s.pubdata
      /\ t.transient_storage_changes = s.transient_storage_changes
      /\ t.rollback_storage_logs_len = 0
  BY <1>3, <1>4 DEF Hush, Snapshots
<1>6. SameBooks'
  BY <1>1, <1>5, QuietOperators DEF ModesInv, SameBooks, RollbackTo, Quiet!RollbackTo,
     charges, Quiet!charges
<1>7. q_storage_logs' = << >> /\ q_rollback_storage_logs' = << >>
  <2>1. q_storage_logs = << >> /\ q_rollback_storage_logs = << >>
    BY DEF ModesInv, QuietTrace
  <2>2. q_storage_logs' = << >> \o ReverseSeq(SubSeq(<< >>, 1, Len(<< >>)))
        /\ q_rollback_storage_logs' = LogRollback(<< >>, 0)
    BY <1>1, <1>5, <2>1, QuietOperators DEF Quiet!AppendRollbackLogs
  <2>3. LogRollback(<< >>, 0) = << >>
    BY DEF LogRollback
  <2> QED
    BY <2>2, <2>3, NoTwins
<1>8. QuietTrace' /\ UNCHANGED << slot_flags, q_slot_flags >>
  BY <1>1, <1>7 DEF QuietTrace, ModesInv, slots, Quiet!slots
<1> QED
  BY <1>1, <1>6, <1>8, ReturnAgrees

-----------------------------------------------------------------------------
(* The host on both *)

\* Both hosts snapshot the same, but for the lengths of the trace.
LEMMA BothMakeSnapshotAgrees ==
  ASSUME NoneIsNoRecord, TypeOK, ModesInv, MakeSnapshot, Quiet!MakeSnapshot
  PROVE  NewModesInv
<1> DEFINE s == ExternalSnapshot
           t == Quiet!ExternalSnapshot
<1>1. /\ SameBooks' /\ QuietTrace'
      /\ UNCHANGED << slot_flags, q_slot_flags, frames, q_frames >>
  BY DEF MakeSnapshot, Quiet!MakeSnapshot, ModesInv, SameBooks, QuietTrace, rolled_back,
     charges, trace, slots, Quiet!rolled_back, Quiet!charges, Quiet!trace, Quiet!slots
<1>2. snapshot' = << s >> /\ q_snapshot' = << t >>
  BY DEF MakeSnapshot, Quiet!MakeSnapshot
<1>3. Quiet!Snapshot = Hush(Snapshot) /\ Snapshot \in Snapshots
  BY SnapshotsAgree, SnapshotType
<1>4. /\ s.internal_snapshot = [Snapshot EXCEPT !.transient_storage_changes = 0]
      /\ t.internal_snapshot = [Quiet!Snapshot EXCEPT !.transient_storage_changes = 0]
  BY DEF ExternalSnapshot, Quiet!ExternalSnapshot
<1>5. t.internal_snapshot = Hush(s.internal_snapshot)
  <2> DEFINE w == Snapshot
  <2>1. w \in Snapshots
    BY <1>3
  <2> HIDE DEF w
  <2>2. [Hush(w) EXCEPT !.transient_storage_changes = 0]
          = Hush([w EXCEPT !.transient_storage_changes = 0])
    BY <2>1 DEF Hush, Snapshots
  <2> QED
    BY <1>3, <1>4, <2>2 DEF w
<1>6. /\ s.storage_refunds = Len(storage_refunds) /\ s.pubdata_costs = Len(pubdata_costs)
      /\ t.storage_refunds = Len(q_storage_refunds) /\ t.pubdata_costs = Len(q_pubdata_costs)
      /\ s.near_calls = frames /\ t.near_calls = q_frames
      /\ s.slot_flags = Len(slot_flags.old_entries)
      /\ t.slot_flags = Len(q_slot_flags.old_entries)
  BY DEF ExternalSnapshot, Quiet!ExternalSnapshot, MapSnapshot, Quiet!MapSnapshot
<1> HIDE DEF s, t
<1>7. SameHost(s, t)
  BY <1>5, <1>6 DEF SameHost, ModesInv, SameBooks
<1>8. HostFlags(s, slot_flags, t, q_slot_flags)
  <2>1. /\ MapAt(slot_flags, s.slot_flags) = slot_flags.map
        /\ MapAt(q_slot_flags, t.slot_flags) = q_slot_flags.map
    BY <1>6, FlagsNow, MapAtNow
  <2>2. Len(slot_flags.old_entries) \in Nat /\ Len(q_slot_flags.old_entries) \in Nat
    BY FlagsNow, LenProperties DEF JournaledMap
  <2> QED
    BY <1>6, <2>1, <2>2, FlagsNow DEF HostFlags, FlagMaps
<1>9. HostAgrees(snapshot', slot_flags', q_snapshot', q_slot_flags')
  BY <1>1, <1>2, <1>7, <1>8 DEF HostAgrees
<1> QED
  BY <1>1, <1>9 DEF NewModesInv, ModesInv

\* Flags without their journal still agree.
LEMMA ForgottenFlags ==
  ASSUME NEW m, NEW q, FlagMaps(m, q), q \in JournaledMap(Keys, SUBSET SlotFlags)
  PROVE  FlagMaps(MapDeleteHistory(m), MapDeleteHistory(q))
<1>1. /\ MapDeleteHistory(q) \in JournaledMap(Keys, SUBSET SlotFlags)
      /\ MapDeleteHistory(q).map = q.map
  BY MapDeleteHistoryType
<1>2. MapDeleteHistory(m).map = m.map
  BY DEF MapDeleteHistory
<1> QED
  BY <1>1, <1>2 DEF FlagMaps

\* Both hosts drop their snapshot.
LEMMA BothPopSnapshotAgrees ==
  ASSUME NoneIsNoRecord, TypeOK, ModesInv, PopSnapshot, Quiet!PopSnapshot
  PROVE  NewModesInv
<1>1. SameBooks' /\ QuietTrace' /\ UNCHANGED << frames, q_frames >>
  BY QuietOperators DEF PopSnapshot, Quiet!PopSnapshot, ModesInv, SameBooks, QuietTrace,
     charges, trace, Quiet!charges, Quiet!trace
<1>2. /\ slot_flags' = MapDeleteHistory(slot_flags)
      /\ q_slot_flags' = MapDeleteHistory(q_slot_flags)
      /\ snapshot' = << >> /\ q_snapshot' = << >>
  BY QuietOperators DEF PopSnapshot, Quiet!PopSnapshot
<1>3. FlagMaps(slot_flags', q_slot_flags')
  BY <1>2, FlagsNow, ForgottenFlags
<1> QED
  BY <1>1, <1>2, <1>3 DEF NewModesInv, ModesInv, HostAgrees

\* Both hosts return to their snapshot; the flags agree as they did then.
LEMMA BothHostRollbackAgrees ==
  ASSUME NoneIsNoRecord, TypeOK, ModesInv, HostRollback, Quiet!HostRollback
  PROVE  NewModesInv
<1> DEFINE s == snapshot[1]
           t == q_snapshot[1]
           i == s.internal_snapshot
           j == t.internal_snapshot
<1>1. snapshot # << >> /\ snapshot' = << >> /\ q_snapshot' = << >>
      /\ frames' = s.near_calls /\ q_frames' = t.near_calls
  BY DEF HostRollback, Quiet!HostRollback
<1>2. SameHost(s, t) /\ HostFlags(s, slot_flags, t, q_slot_flags)
  BY <1>1 DEF ModesInv, HostAgrees
<1>3. s \in ExternalSnapshots
  <2>1. snapshot \in Seq(ExternalSnapshots) /\ 1 \in 1..Len(snapshot)
    BY <1>1 DEF TypeOK
  <2> QED
    BY <2>1
<1>4. i \in Snapshots /\ j = Hush(i)
  BY <1>2, <1>3 DEF SameHost, ExternalSnapshots
<1>5. /\ j.storage_writes = i.storage_writes /\ j.events = i.events
      /\ j.l2_to_l1_logs = i.l2_to_l1_logs /\ j.pubdata = i.pubdata
      /\ j.transient_storage_changes = i.transient_storage_changes
      /\ j.storage_logs_len = 0 /\ j.rollback_storage_logs_len = 0
      /\ t.storage_refunds = s.storage_refunds /\ t.pubdata_costs = s.pubdata_costs
      /\ t.near_calls = HushCalls(s.near_calls)
  BY <1>2, <1>4 DEF Hush, SameHost
<1>6. SameBooks'
  <2>1. /\ storage_writes' = MapDeleteHistory(MapRollback(storage_writes, i.storage_writes))
        /\ q_storage_writes'
             = MapDeleteHistory(MapRollback(q_storage_writes, j.storage_writes))
        /\ transient_storage_changes' = MapDeleteHistory(
             MapRollback(transient_storage_changes, i.transient_storage_changes))
        /\ q_transient_storage_changes' = MapDeleteHistory(
             MapRollback(q_transient_storage_changes, j.transient_storage_changes))
    BY QuietOperators DEF HostRollback, Quiet!HostRollback
  <2>2. /\ events' = LogRollback(events, i.events)
        /\ q_events' = LogRollback(q_events, j.events)
        /\ l2_to_l1_logs' = LogRollback(l2_to_l1_logs, i.l2_to_l1_logs)
        /\ q_l2_to_l1_logs' = LogRollback(q_l2_to_l1_logs, j.l2_to_l1_logs)
        /\ pubdata' = i.pubdata /\ q_pubdata' = j.pubdata
        /\ storage_refunds' = LogRollback(storage_refunds, s.storage_refunds)
        /\ q_storage_refunds' = LogRollback(q_storage_refunds, t.storage_refunds)
        /\ pubdata_costs' = LogRollback(pubdata_costs, s.pubdata_costs)
        /\ q_pubdata_costs' = LogRollback(q_pubdata_costs, t.pubdata_costs)
    BY QuietOperators DEF HostRollback, Quiet!HostRollback
  <2> HIDE DEF s, t, i, j
  <2> QED
    BY <1>5, <2>1, <2>2 DEF SameBooks, ModesInv
<1>7. QuietTrace'
  <2>1. /\ q_storage_logs' = LogRollback(<< >>, 0)
        /\ q_rollback_storage_logs' = LogRollback(<< >>, 0)
        /\ UNCHANGED << skip_storage_logs, q_skip_storage_logs >>
    BY <1>5, QuietOperators DEF ModesInv, QuietTrace, HostRollback, Quiet!HostRollback
  <2>2. LogRollback(<< >>, 0) = << >>
    BY DEF LogRollback
  <2> QED
    BY <2>1, <2>2 DEF QuietTrace, ModesInv
<1>8. /\ slot_flags' = MapDeleteHistory(MapRollback(slot_flags, s.slot_flags))
      /\ q_slot_flags' = MapDeleteHistory(MapRollback(q_slot_flags, t.slot_flags))
  BY QuietOperators DEF HostRollback, Quiet!HostRollback
<1> HIDE DEF s, t, i, j
<1>9. FlagMaps(slot_flags', q_slot_flags')
  <2> DEFINE m == MapRollback(slot_flags, s.slot_flags)
             q == MapRollback(q_slot_flags, t.slot_flags)
  <2>1. /\ s.slot_flags \in 0..Len(slot_flags.old_entries)
        /\ t.slot_flags \in 0..Len(q_slot_flags.old_entries)
        /\ SameFlags(MapAt(slot_flags, s.slot_flags), MapAt(q_slot_flags, t.slot_flags))
    BY <1>2 DEF HostFlags
  <2>2. q \in JournaledMap(Keys, SUBSET SlotFlags)
    BY <2>1, FlagsNow, RollbackKeepsEarlier
  <2>3. m.map = MapAt(slot_flags, s.slot_flags) /\ q.map = MapAt(q_slot_flags, t.slot_flags)
    BY DEF MapRollback
  <2> HIDE DEF m, q
  <2>4. FlagMaps(m, q)
    BY <2>1, <2>2, <2>3 DEF FlagMaps
  <2>5. FlagMaps(MapDeleteHistory(m), MapDeleteHistory(q))
    BY <2>2, <2>4, ForgottenFlags
  <2> QED
    BY <1>8, <2>5 DEF m, q
<1> QED
  BY <1>1, <1>5, <1>6, <1>7, <1>9 DEF NewModesInv, HostAgrees

-----------------------------------------------------------------------------
(* The modes agree *)

\* What both do is what the recording world diff does alone.
LEMMA ModesRecord == SpecModes => Spec
<1>1. InitModes => Init
  BY DEF InitModes
<1>2. [NextModes]_<< vars, Quiet!vars >> => [Next]_vars
  <2>1. ASSUME NEW k \in Keys, BothRead(k) \/ BothFarCall(k) \/ \E v \in Values : BothWrite(k, v)
        PROVE  Next
    BY <2>1 DEF BothRead, BothFarCall, BothWrite, Next, StorageStep, CallStep
  <2>2. ASSUME BothNearCall \/ BothReturn \/ BothHostSteps
        PROVE  Next
    BY <2>2 DEF BothNearCall, BothReturn, BothHostSteps, Next, CallStep, HostStep
  <2> QED
    BY <2>1, <2>2 DEF NextModes
<1> QED
  BY <1>1, <1>2, PTL DEF SpecModes, Spec

\* Both modes start alike.
LEMMA InitModesAgree ==
  ASSUME InitModes
  PROVE  ModesInv
<1>1. Init /\ ~skip_storage_logs /\ Quiet!Init /\ q_skip_storage_logs
  BY DEF InitModes
<1>2. \A K : Quiet!EmptyMap(K) = EmptyMap(K)
  BY DEF Quiet!EmptyMap, EmptyMap
<1>3. SameBooks /\ QuietTrace
  BY <1>1, <1>2 DEF SameBooks, QuietTrace, Init, Quiet!Init
<1>4. FlagMaps(slot_flags, q_slot_flags)
  <2>1. slot_flags = EmptyMap(Keys) /\ q_slot_flags = EmptyMap(Keys)
    BY <1>1, <1>2 DEF Init, Quiet!Init
  <2> QED
    BY <2>1, EmptyMapType DEF FlagMaps, SameFlags
<1>5. frames = << >> /\ q_frames = << >> /\ snapshot = << >> /\ q_snapshot = << >>
  BY <1>1 DEF Init, Quiet!Init
<1> QED
  BY <1>3, <1>4, <1>5, HushedNone DEF ModesInv, HostAgrees

\* Every operation taken by both keeps them alike.
LEMMA NextModesAgree ==
  ASSUME NoneIsNoRecord, TypeOK, TypeOK', ModesInv, [NextModes]_<< vars, Quiet!vars >>
  PROVE  ModesInv'
<1> SUFFICES NewModesInv
  BY NewModesInvIs
<1>1. CASE UNCHANGED << vars, Quiet!vars >>
  BY <1>1 DEF ModesInv, NewModesInv, SameBooks, QuietTrace, vars, rolled_back, charges,
     trace, slots, control, Quiet!vars, Quiet!rolled_back, Quiet!charges, Quiet!trace,
     Quiet!slots, Quiet!control
<1>2. CASE NextModes
  <2>1. ASSUME NEW k \in Keys, BothRead(k) \/ BothFarCall(k)
        PROVE  NewModesInv
    BY <2>1, BothReadAgrees, BothFarCallAgrees
  <2>2. ASSUME NEW k \in Keys, NEW v \in Values, BothWrite(k, v)
        PROVE  NewModesInv
    BY <2>2, BothWriteAgrees
  <2>3. CASE BothNearCall
    BY <2>3, BothNearCallAgrees
  <2>4. CASE BothReturn
    BY <2>4, BothReturnOkAgrees, BothReturnFailedAgrees DEF BothReturn
  <2>5. CASE BothHostSteps
    BY <2>5, BothMakeSnapshotAgrees, BothHostRollbackAgrees, BothPopSnapshotAgrees
       DEF BothHostSteps
  <2> QED
    BY <1>2, <2>1, <2>2, <2>3, <2>4, <2>5 DEF NextModes
<1> QED
  BY <1>1, <1>2

\* The modes agree, flags and snapshots included, in every reachable state.
LEMMA ModesInvariant ==
  ASSUME NoneIsNoRecord
  PROVE  SpecModes => []ModesInv
<1>1. InitModes => ModesInv
  BY InitModesAgree
<1>2. TypeOK /\ TypeOK' /\ ModesInv /\ [NextModes]_<< vars, Quiet!vars >> => ModesInv'
  BY NextModesAgree
<1> QED
  BY <1>1, <1>2, ModesRecord, TypeInvariant, PTL DEF SpecModes

\* Switching the trace off changes nothing that a program or its host can see:
\* what is pending, every refund and every cost agree, wherever the host acts
\* (read_storage_inner, set_record_storage_logs).
THEOREM ModesAlwaysAgree ==
  ASSUME NoneIsNoRecord
  PROVE  SpecModes => []ModesAgree
<1>1. ModesInv => ModesAgree
  BY DEF ModesInv, ModesAgree, SameBooks, QuietTrace, FlagMaps, SameFlags, World, Quiet!World
<1> QED
  BY <1>1, ModesInvariant, PTL

-----------------------------------------------------------------------------
(* What the quiet mode keeps for the deduplication: the inductive invariant *)

\* The first n twins held back include one of k.
HeldUpTo(held, n, k) == \E i \in 1..n : held[i].key = k

\* A slot is written exactly when the twin of a write to it is held back, now and
\* at every snapshot of the journal.
WrittenIsHeld(m, held) ==
  \A p \in 0..Len(m.old_entries) : \A k \in Keys :
    MapAt(m, p)[k] # None <=> HeldUpTo(held, Offset(held, m) + p, k)

\* Where entry i stands, a write to k is pending.
PendingIn(logs, i, k) ==
  \E j \in 1..(i - 1) :
    /\ logs[j].key = k /\ IsForward(logs[j])
    /\ \A u \in 1..(i - 1) : logs[u].rollback => WriteOf(logs[u]) # j

IsZeroRead(logs, i) == ~logs[i].rw_flag /\ ~PendingIn(logs, i, logs[i].key)

\* The first n entries include a read of k at depth zero.
ZeroReadUpTo(logs, n, k) == \E i \in 1..n : logs[i].key = k /\ IsZeroRead(logs, i)

IsProtected(flags, k) == flags[k] # None /\ SLOT_PROTECTIVE_READ \in flags[k]

ProtectsReads(flags, logs, n) ==
  \A k \in Keys : IsProtected(flags, k) <=> ZeroReadUpTo(logs, n, k)

\* The host would get back the flags of the reads it would get back.
HostProtects(host, q_host, q, logs) ==
  host # << >> =>
    ProtectsReads(MapAt(q, q_host[1].slot_flags), logs,
                  host[1].internal_snapshot.storage_logs_len)

\* The cache holds true values, among them those of the slots that logs writes or
\* reads at depth zero.
CacheCovers(values, logs) ==
  /\ values \in [Keys -> Values \cup {None}]
  /\ \A k \in Keys : values[k] \in {None, InitialValue[k]}
  /\ \A i \in 1..Len(logs) :
       IsForward(logs[i]) \/ IsZeroRead(logs, i) => values[logs[i].key] # None

DedupInv ==
  /\ WrittenIsHeld(storage_writes, rollback_storage_logs)
  /\ ProtectsReads(q_slot_flags.map, storage_logs, Len(storage_logs))
  /\ HostProtects(snapshot, q_snapshot, q_slot_flags, storage_logs)
  /\ CacheCovers(q_storage_initial_values, storage_logs)

\* The invariant after a step, its parts written with primed variables
NewDedupInv ==
  /\ WrittenIsHeld(storage_writes', rollback_storage_logs')
  /\ ProtectsReads(q_slot_flags'.map, storage_logs', Len(storage_logs'))
  /\ HostProtects(snapshot', q_snapshot', q_slot_flags', storage_logs')
  /\ CacheCovers(q_storage_initial_values', storage_logs')

\* It is the invariant in the next state.
LEMMA NewDedupInvIs ==
  ASSUME NewDedupInv
  PROVE  DedupInv'
  BY Zenon DEF NewDedupInv, DedupInv, WrittenIsHeld, HeldUpTo, Offset, MapAt, Touched, Oldest,
     ProtectsReads, ZeroReadUpTo, IsZeroRead, PendingIn, IsForward, WriteOf, IsProtected,
     HostProtects, CacheCovers

-----------------------------------------------------------------------------
(* A longer trace *)

\* logs2 is logs with more entries.
Continues(logs, logs2) ==
  /\ logs \in Seq(LogQueries) /\ logs2 \in Seq(LogQueries)
  /\ Len(logs) <= Len(logs2)
  /\ \A i \in 1..Len(logs) : logs2[i] = logs[i]

\* What was pending at an entry, and whether the entry reads at depth zero, does
\* not change any more.
LEMMA ContinuedReads ==
  ASSUME NEW logs, NEW logs2, Continues(logs, logs2)
  PROVE  /\ \A i \in 1..(Len(logs) + 1) : \A k : PendingIn(logs2, i, k) <=> PendingIn(logs, i, k)
         /\ \A i \in 1..Len(logs) : IsZeroRead(logs2, i) <=> IsZeroRead(logs, i)
         /\ \A n \in 0..Len(logs) : \A k : ZeroReadUpTo(logs2, n, k) <=> ZeroReadUpTo(logs, n, k)
<1>1. Len(logs) \in Nat /\ \A i \in 1..Len(logs) : logs2[i] = logs[i]
  BY DEF Continues
<1>2. \A i \in 1..(Len(logs) + 1) : \A j \in 1..(i - 1) : logs2[j] = logs[j]
  BY <1>1
<1>3. \A i \in 1..(Len(logs) + 1) : \A k : PendingIn(logs2, i, k) <=> PendingIn(logs, i, k)
  BY <1>2 DEF PendingIn
<1>4. \A i \in 1..Len(logs) : IsZeroRead(logs2, i) <=> IsZeroRead(logs, i)
  <2>1. \A i \in 1..Len(logs) : i \in 1..(Len(logs) + 1)
    BY <1>1
  <2> QED
    BY <1>1, <1>3, <2>1 DEF IsZeroRead
<1>5. \A n \in 0..Len(logs) : \A i \in 1..n : i \in 1..Len(logs)
  BY <1>1
<1>6. \A n \in 0..Len(logs) : \A k : ZeroReadUpTo(logs2, n, k) <=> ZeroReadUpTo(logs, n, k)
  BY <1>1, <1>4, <1>5 DEF ZeroReadUpTo
<1> QED
  BY <1>3, <1>4, <1>6

\* Entries that write, or undo a write, are no reads.
LEMMA WritesReadNothing ==
  ASSUME NEW logs, NEW logs2, Continues(logs, logs2),
         \A i \in (Len(logs) + 1)..Len(logs2) : logs2[i].rw_flag
  PROVE  \A k : ZeroReadUpTo(logs2, Len(logs2), k) <=> ZeroReadUpTo(logs, Len(logs), k)
<1>1. Len(logs) \in Nat /\ Len(logs2) \in Nat /\ Len(logs) <= Len(logs2)
  BY DEF Continues
<1>2. \A k : ZeroReadUpTo(logs2, Len(logs), k) <=> ZeroReadUpTo(logs, Len(logs), k)
  BY <1>1, ContinuedReads
<1>3. \A i \in 1..Len(logs2) : i \in 1..Len(logs) \/ i \in (Len(logs) + 1)..Len(logs2)
  BY <1>1
<1>4. \A i \in 1..Len(logs) : i \in 1..Len(logs2)
  BY <1>1
<1>5. \A k : ZeroReadUpTo(logs2, Len(logs2), k) <=> ZeroReadUpTo(logs2, Len(logs), k)
  BY <1>3, <1>4 DEF ZeroReadUpTo, IsZeroRead
<1> QED
  BY <1>2, <1>5

\* One more entry
LEMMA AppendContinues ==
  ASSUME NEW logs \in Seq(LogQueries), NEW e \in LogQueries
  PROVE  /\ Continues(logs, Append(logs, e))
         /\ Len(Append(logs, e)) = Len(logs) + 1
         /\ Append(logs, e)[Len(logs) + 1] = e
         /\ Len(logs) \in Nat
  BY AppendProperties DEF Continues

\* A read of k counts if no write to k is pending.
LEMMA ReadCounts ==
  ASSUME NEW logs \in Seq(LogQueries), NEW e \in LogQueries, ~e.rw_flag, NEW k
  PROVE  ZeroReadUpTo(Append(logs, e), Len(logs) + 1, k) <=>
           \/ ZeroReadUpTo(logs, Len(logs), k)
           \/ k = e.key /\ ~PendingIn(logs, Len(logs) + 1, k)
<1> DEFINE more == Append(logs, e)
           n == Len(logs)
<1>1. Continues(logs, more) /\ Len(more) = n + 1 /\ more[n + 1] = e /\ n \in Nat
  BY AppendContinues
<1> HIDE DEF more
<1>2. /\ \A j : PendingIn(more, n + 1, j) <=> PendingIn(logs, n + 1, j)
      /\ \A j : ZeroReadUpTo(more, n, j) <=> ZeroReadUpTo(logs, n, j)
  BY <1>1, ContinuedReads
<1>3. \A i : i \in 1..(n + 1) <=> i \in 1..n \/ i = n + 1
  BY <1>1
<1>4. IsZeroRead(more, n + 1) <=> ~PendingIn(logs, n + 1, e.key)
  BY <1>1, <1>2 DEF IsZeroRead
<1> HIDE DEF n
<1>5. ZeroReadUpTo(more, n + 1, k)
        <=> ZeroReadUpTo(more, n, k) \/ (e.key = k /\ IsZeroRead(more, n + 1))
  BY <1>1, <1>3 DEF ZeroReadUpTo
<1> QED
  BY <1>2, <1>4, <1>5 DEF more, n

\* At the end of a good trace a write to k is pending if its twin is held back.
LEMMA PendingIsHeld ==
  ASSUME NEW logs \in Seq(LogQueries), NEW held \in Seq(LogQueries), Holds(logs, held), NEW k
  PROVE  PendingIn(logs, Len(logs) + 1, k) <=> HeldUpTo(held, Len(held), k)
<1> DEFINE n == Len(logs)
<1>1. n \in Nat /\ (n + 1) - 1 = n
  BY LenProperties
<1>2. PendingIn(logs, n + 1, k) <=>
        \E j \in 1..n : /\ logs[j].key = k /\ IsForward(logs[j])
                        /\ \A u \in 1..n : logs[u].rollback => WriteOf(logs[u]) # j
  BY <1>1 DEF PendingIn
<1>3. \A i \in 1..Len(held) : /\ WriteOf(held[i]) \in 1..n
                              /\ held[i] = [logs[WriteOf(held[i])] EXCEPT !.rollback = TRUE]
                              /\ logs[WriteOf(held[i])] \in LogQueries
  BY ElementOfSeq DEF Holds
<1>4. \A i \in 1..Len(held) : held[i].key = logs[WriteOf(held[i])].key
  BY <1>3 DEF LogQueries
<1> HIDE DEF n
<1>5. ASSUME PendingIn(logs, n + 1, k)
      PROVE  HeldUpTo(held, Len(held), k)
  BY <1>2, <1>4, <1>5 DEF Holds, HeldUpTo, n
<1>6. ASSUME HeldUpTo(held, Len(held), k)
      PROVE  PendingIn(logs, n + 1, k)
  <2>1. PICK i \in 1..Len(held) : held[i].key = k
    BY <1>6 DEF HeldUpTo
  <2> DEFINE j == WriteOf(held[i])
  <2>2. j \in 1..n /\ logs[j].key = k
    BY <1>3, <1>4, <2>1
  <2>3. IsForward(logs[j]) /\ \A u \in 1..n : logs[u].rollback => WriteOf(logs[u]) # j
    BY DEF Holds, n
  <2> HIDE DEF j
  <2> QED
    BY <1>2, <2>2, <2>3
<1> QED
  BY <1>5, <1>6 DEF n

-----------------------------------------------------------------------------
(* Written slots and twins held back *)

\* A write marks its slot and holds its twin back.
LEMMA WrittenInsert ==
  ASSUME None \notin WriteEntries, NEW m, Journal(m), NEW held \in Seq(LogQueries),
         Offset(held, m) \in Nat, WrittenIsHeld(m, held),
         NEW e \in LogQueries, NEW x \in WriteEntries
  PROVE  WrittenIsHeld(MapInsert(m, e.key, x), Append(held, e))
<1> DEFINE m2 == MapInsert(m, e.key, x)
           more == Append(held, e)
           len == Len(m.old_entries)
           off == Offset(held, m)
<1>1. /\ m \in JournaledMap(Keys, WriteEntries) /\ e.key \in Keys
      /\ m.map \in [Keys -> WriteEntries \cup {None}]
  BY DEF Journal, JournaledMap, LogQueries
<1>2. len \in Nat /\ Len(held) \in Nat
  BY <1>1, MapLength, LenProperties
<1>3. /\ m2 \in JournaledMap(Keys, WriteEntries) /\ Len(m2.old_entries) = len + 1
      /\ \A n \in 0..len : MapAt(m2, n) = MapAt(m, n)
  BY <1>1, InsertGrows DEF MapGrows
<1>4. /\ Len(more) = Len(held) + 1 /\ more[Len(held) + 1] = e
      /\ \A i \in 1..Len(held) : more[i] = held[i]
  BY AppendProperties
<1>5. Len(held) = off + len /\ off \in Nat /\ Offset(more, m2) = off
  BY <1>2, <1>3, <1>4 DEF Offset
<1>6. MapAt(m2, len + 1) = m2.map /\ MapAt(m, len) = m.map
  BY <1>1, <1>3, MapAtNow
<1>7. \A k \in Keys : m2.map[k] = IF k = e.key THEN x ELSE m.map[k]
  BY <1>1 DEF MapInsert
<1> HIDE DEF m2, more
<1>8. ASSUME NEW p \in 0..len, NEW k \in Keys
      PROVE  MapAt(m2, p)[k] # None <=> HeldUpTo(more, off + p, k)
  <2>1. \A i \in 1..(off + p) : more[i] = held[i]
    BY <1>2, <1>4, <1>5
  <2>2. MapAt(m, p)[k] # None <=> HeldUpTo(held, off + p, k)
    BY DEF WrittenIsHeld
  <2> QED
    BY <1>3, <2>1, <2>2 DEF HeldUpTo
<1>9. ASSUME NEW k \in Keys
      PROVE  MapAt(m2, len + 1)[k] # None <=> HeldUpTo(more, off + (len + 1), k)
  <2>1. m.map[k] # None <=> HeldUpTo(more, off + len, k)
    <3>1. len \in 0..len
      BY <1>2
    <3>2. MapAt(m, len) = MapAt(m2, len)
      BY <1>3, <3>1
    <3> QED
      BY <1>6, <1>8, <3>1, <3>2
  <2>2. \A i : i \in 1..(off + (len + 1)) <=> i \in 1..(off + len) \/ i = Len(held) + 1
    BY <1>2, <1>5
  <2>3. HeldUpTo(more, off + (len + 1), k) <=> HeldUpTo(more, off + len, k) \/ k = e.key
    BY <1>4, <2>2 DEF HeldUpTo
  <2> QED
    BY <1>6, <1>7, <2>1, <2>3
<1>10. \A p \in 0..(len + 1) : p \in 0..len \/ p = len + 1
  BY <1>2
<1>11. WrittenIsHeld(m2, more)
  BY <1>3, <1>5, <1>8, <1>9, <1>10 DEF WrittenIsHeld
<1> QED
  BY <1>11 DEF m2, more

\* Undoing writes unmarks the slots whose twins leave with them.
LEMMA WrittenUndo ==
  ASSUME NEW m, Journal(m), NEW held \in Seq(LogQueries), Offset(held, m) \in Nat,
         WrittenIsHeld(m, held), NEW n \in 0..Len(m.old_entries), NEW r,
         r = n + Offset(held, m)
  PROVE  WrittenIsHeld(MapRollback(m, n), LogRollback(held, r))
<1> DEFINE m2 == MapRollback(m, n)
           kept == LogRollback(held, r)
           len == Len(m.old_entries)
           off == Offset(held, m)
<1>1. m \in JournaledMap(Keys, WriteEntries)
  BY DEF Journal
<1>2. len \in Nat /\ Len(held) \in Nat /\ n \in Nat /\ n <= len
  BY <1>1, MapLength, LenProperties
<1>3. off \in Nat /\ Len(held) = off + len /\ r = off + n /\ r \in 0..Len(held)
  BY <1>2 DEF Offset
<1>4. Len(m2.old_entries) = n /\ \A p \in 0..n : MapAt(m2, p) = MapAt(m, p)
  BY <1>1, RollbackKeepsEarlier
<1>5. Len(kept) = r /\ \A i \in 1..r : kept[i] = held[i]
  BY <1>3, KeptIs, PrefixIs
<1> HIDE DEF m2, kept, off
<1>6. Offset(kept, m2) = off
  BY <1>2, <1>3, <1>4, <1>5 DEF Offset
<1>7. ASSUME NEW p \in 0..n, NEW k \in Keys
      PROVE  MapAt(m2, p)[k] # None <=> HeldUpTo(kept, off + p, k)
  <2>1. p \in 0..len /\ \A i \in 1..(off + p) : kept[i] = held[i]
    BY <1>2, <1>3, <1>5
  <2>2. MapAt(m, p)[k] # None <=> HeldUpTo(held, off + p, k)
    BY <2>1 DEF WrittenIsHeld, off
  <2> QED
    BY <1>4, <2>1, <2>2 DEF HeldUpTo
<1>8. WrittenIsHeld(m2, kept)
  BY <1>4, <1>6, <1>7 DEF WrittenIsHeld
<1> QED
  BY <1>8 DEF m2, kept

\* What is written now has its twin held back.
LEMMA WrittenNow ==
  ASSUME NEW m, Journal(m), NEW held \in Seq(LogQueries), WrittenIsHeld(m, held),
         NEW k \in Keys
  PROVE  m.map[k] # None <=> HeldUpTo(held, Len(held), k)
<1>1. m \in JournaledMap(Keys, WriteEntries)
  BY DEF Journal
<1>2. Len(m.old_entries) \in Nat /\ Len(held) \in Nat
  BY <1>1, MapLength, LenProperties
<1>3. /\ Len(m.old_entries) \in 0..Len(m.old_entries)
      /\ Offset(held, m) + Len(m.old_entries) = Len(held)
  BY <1>2 DEF Offset
<1>4. MapAt(m, Len(m.old_entries)) = m.map
  BY <1>1, MapAtNow
<1> QED
  BY <1>3, <1>4 DEF WrittenIsHeld

\* Forgetting the journal forgets no mark.
LEMMA WrittenForget ==
  ASSUME NEW m, Journal(m), NEW held \in Seq(LogQueries), WrittenIsHeld(m, held)
  PROVE  WrittenIsHeld(MapDeleteHistory(m), held)
<1> DEFINE m2 == MapDeleteHistory(m)
<1>1. /\ m2 \in JournaledMap(Keys, WriteEntries) /\ m2.map = m.map
      /\ m2.old_entries = << >>
  BY MapDeleteHistoryType DEF Journal
<1> HIDE DEF m2
<1>2. Len(m2.old_entries) = 0 /\ Len(held) \in Nat
  BY <1>1, LenProperties
<1>3. MapAt(m2, 0) = m.map /\ Offset(held, m2) = Len(held) /\ Len(held) + 0 = Len(held)
  BY <1>1, <1>2, MapAtNow DEF Offset
<1>4. \A p \in 0..0 : p = 0
  OBVIOUS
<1>5. WrittenIsHeld(m2, held)
  BY <1>2, <1>3, <1>4, WrittenNow DEF WrittenIsHeld
<1> QED
  BY <1>5 DEF m2

-----------------------------------------------------------------------------
(* Protected slots and cached values *)

\* q2 protects what q does, and k if f says so.
ProtectsAlso(q, q2, k, f) ==
  \A j \in Keys :
    IsProtected(q2.map, j) <=> IsProtected(q.map, j) \/ (j = k /\ SLOT_PROTECTIVE_READ \in f)

\* An access protects its slot if its flags say so.
LEMMA ProtectedAdd ==
  ASSUME NoneIsNoRecord, NEW q \in JournaledMap(Keys, SUBSET SlotFlags), NEW k \in Keys,
         NEW f \in SUBSET SlotFlags
  PROVE  ProtectsAlso(q, AddFlags(q, k, f), k, f)
<1>1. q.map \in [Keys -> (SUBSET SlotFlags) \cup {None}] /\ None \notin SUBSET SlotFlags
  BY DEF JournaledMap, NoneIsNoRecord
<1>2. CASE AddsFlags(q, k, f)
  <2> DEFINE v == IF q.map[k] = None THEN f ELSE q.map[k] \cup f
  <2>1. v \in SUBSET SlotFlags
    BY <1>1
  <2>2. AddFlags(q, k, f).map = [q.map EXCEPT ![k] = v]
    BY <1>2 DEF AddFlags, MapInsert
  <2>3. v # None
    BY <1>1, <2>1
  <2>4. SLOT_PROTECTIVE_READ \in v
          <=> IsProtected(q.map, k) \/ SLOT_PROTECTIVE_READ \in f
    BY DEF IsProtected
  <2> HIDE DEF v
  <2>5. \A j \in Keys : AddFlags(q, k, f).map[j] = IF j = k THEN v ELSE q.map[j]
    BY <1>1, <2>2
  <2> QED
    BY <2>3, <2>4, <2>5 DEF ProtectsAlso, IsProtected
<1>3. CASE ~AddsFlags(q, k, f)
  <2>1. AddFlags(q, k, f) = q /\ q.map[k] # None /\ f \subseteq q.map[k]
    BY <1>3 DEF AddFlags, AddsFlags
  <2> QED
    BY <2>1 DEF ProtectsAlso, IsProtected
<1> QED
  BY <1>2, <1>3

Filled(values, k) == [values EXCEPT ![k] = IF @ = None THEN InitialValue[k] ELSE @]

\* What the cache holds after an access to k
LEMMA FilledIs ==
  ASSUME NEW values \in [Keys -> Values \cup {None}], NEW k \in Keys,
         \A j \in Keys : values[j] \in {None, InitialValue[j]}
  PROVE  /\ Filled(values, k) \in [Keys -> Values \cup {None}]
         /\ Filled(values, k)[k] # None
         /\ \A j \in Keys : /\ Filled(values, k)[j] \in {None, InitialValue[j]}
                            /\ values[j] # None => Filled(values, k)[j] # None
  BY SlotAssumption DEF Filled

\* A longer trace is covered if the new entries are.
LEMMA CacheContinues ==
  ASSUME NEW logs, NEW logs2, Continues(logs, logs2), NEW values, NEW values2,
         CacheCovers(values, logs),
         values2 = values \/ \E k \in Keys : values2 = Filled(values, k),
         \A i \in (Len(logs) + 1)..Len(logs2) :
           IsForward(logs2[i]) \/ IsZeroRead(logs2, i) => values2[logs2[i].key] # None
  PROVE  CacheCovers(values2, logs2)
<1>1. /\ logs \in Seq(LogQueries) /\ Len(logs) \in Nat /\ Len(logs2) \in Nat
      /\ \A i \in 1..Len(logs) : logs2[i] = logs[i] /\ (IsZeroRead(logs2, i) <=> IsZeroRead(logs, i))
  BY ContinuedReads DEF Continues
<1>2. /\ values2 \in [Keys -> Values \cup {None}]
      /\ \A j \in Keys : /\ values2[j] \in {None, InitialValue[j]}
                         /\ values[j] # None => values2[j] # None
  BY FilledIs DEF CacheCovers
<1>3. \A i \in 1..Len(logs) : logs[i].key \in Keys
  <2>1. \A i \in 1..Len(logs) : logs[i] \in LogQueries
    BY <1>1, ElementOfSeq
  <2> QED
    BY <2>1 DEF LogQueries
<1>4. \A i \in 1..Len(logs) :
        IsForward(logs2[i]) \/ IsZeroRead(logs2, i) => values2[logs2[i].key] # None
  BY <1>1, <1>2, <1>3 DEF CacheCovers
<1>5. \A i \in 1..Len(logs2) : i \in 1..Len(logs) \/ i \in (Len(logs) + 1)..Len(logs2)
  BY <1>1
<1> QED
  BY <1>2, <1>4, <1>5 DEF CacheCovers

\* A prefix of a covered trace is covered.
LEMMA CacheShortens ==
  ASSUME NEW logs, NEW logs2, Continues(logs, logs2), NEW values, CacheCovers(values, logs2)
  PROVE  CacheCovers(values, logs)
<1>1. /\ Len(logs) \in Nat /\ Len(logs2) \in Nat /\ Len(logs) <= Len(logs2)
      /\ \A i \in 1..Len(logs) : logs2[i] = logs[i] /\ (IsZeroRead(logs2, i) <=> IsZeroRead(logs, i))
  BY ContinuedReads DEF Continues
<1>2. \A i \in 1..Len(logs) : i \in 1..Len(logs2)
  BY <1>1
<1> QED
  BY <1>1, <1>2 DEF CacheCovers

-----------------------------------------------------------------------------
(* The steps of the two modes *)

Deduplicating == TypeOK /\ SnapshotsNest /\ TraceInv /\ ModesInv /\ DedupInv

\* The state, as the lemmas above ask for it
LEMMA DedupState ==
  ASSUME Deduplicating
  PROVE  /\ Journal(storage_writes)
         /\ storage_logs \in Seq(LogQueries) /\ rollback_storage_logs \in Seq(LogQueries)
         /\ Len(storage_logs) \in Nat
         /\ q_slot_flags \in JournaledMap(Keys, SUBSET SlotFlags)
         /\ ~skip_storage_logs /\ q_skip_storage_logs
         /\ q_storage_writes = storage_writes
         /\ Offset(rollback_storage_logs, storage_writes) \in Nat
         /\ Holds(storage_logs, rollback_storage_logs)
<1>1. TypeOK /\ TraceInv /\ ModesInv
  BY DEF Deduplicating
<1>2. ~skip_storage_logs /\ q_skip_storage_logs /\ q_storage_writes = storage_writes
      /\ q_slot_flags \in JournaledMap(Keys, SUBSET SlotFlags)
  BY <1>1 DEF ModesInv, QuietTrace, SameBooks, FlagMaps
<1>3. Pending(storage_writes, rollback_storage_logs, storage_logs, slot_flags)
  BY <1>1, <1>2 DEF TraceInv
<1> QED
  BY <1>1, <1>2, <1>3, TraceTypes DEF Pending, GoodTrace

\* A slot is written exactly when a write to it is pending at the end of the trace.
LEMMA WrittenIsPending ==
  ASSUME Deduplicating, NEW k \in Keys
  PROVE  storage_writes.map[k] # None <=> PendingIn(storage_logs, Len(storage_logs) + 1, k)
<1>1. WrittenIsHeld(storage_writes, rollback_storage_logs)
  BY DEF Deduplicating, DedupInv
<1>2. storage_writes.map[k] # None
        <=> HeldUpTo(rollback_storage_logs, Len(rollback_storage_logs), k)
  BY <1>1, DedupState, WrittenNow
<1>3. PendingIn(storage_logs, Len(storage_logs) + 1, k)
        <=> HeldUpTo(rollback_storage_logs, Len(rollback_storage_logs), k)
  BY DedupState, PendingIsHeld
<1> QED
  BY <1>2, <1>3

\* The host's snapshots are within the trace and the quiet flags.
LEMMA HostWithin ==
  ASSUME Deduplicating, snapshot # << >>
  PROVE  LET i == snapshot[1].internal_snapshot
         IN /\ snapshot[1] \in ExternalSnapshots /\ i \in Snapshots
            /\ i.storage_logs_len \in 0..Len(storage_logs)
            /\ i.storage_writes \in 0..Len(storage_writes.old_entries)
            /\ i.rollback_storage_logs_len
                 = i.storage_writes + Offset(rollback_storage_logs, storage_writes)
            /\ q_snapshot[1].slot_flags \in 0..Len(q_slot_flags.old_entries)
<1> DEFINE s == snapshot[1]
           i == s.internal_snapshot
<1>1. TypeOK /\ SnapshotsNest /\ TraceInv /\ ModesInv
  BY DEF Deduplicating
<1>2. snapshot \in Seq(ExternalSnapshots) /\ 1 \in 1..Len(snapshot)
  BY <1>1 DEF TypeOK
<1>3. /\ s \in ExternalSnapshots /\ i \in Snapshots
      /\ NoLaterThan(i, Snapshot) /\ HostPartWithin(s, HostLengths)
  BY <1>1, <1>2, NestedWithin
<1>4. InStep(i, Offset(rollback_storage_logs, storage_writes))
  <2>1. SnapshotsInStep(frames, snapshot, Offset(rollback_storage_logs, storage_writes))
    BY <1>1, DedupState DEF TraceInv
  <2> QED
    BY <1>2, <2>1 DEF SnapshotsInStep
<1>5. q_snapshot[1].slot_flags \in 0..Len(q_slot_flags.old_entries)
  BY <1>1 DEF ModesInv, HostAgrees, HostFlags
<1> HIDE DEF s
<1>6. i.storage_logs_len \in Nat /\ i.storage_writes \in Nat
  BY <1>3 DEF Snapshots
<1>7. i.storage_logs_len <= Len(storage_logs)
  BY <1>3 DEF HostPartWithin, HostLengths
<1>8. i.storage_writes <= Len(storage_writes.old_entries)
  BY <1>3 DEF NoLaterThan, Snapshot, MapSnapshot
<1>9. Len(storage_writes.old_entries) \in Nat /\ Len(storage_logs) \in Nat
  BY <1>1, TraceTypes
<1>10. /\ i.storage_logs_len \in 0..Len(storage_logs)
       /\ i.storage_writes \in 0..Len(storage_writes.old_entries)
  BY <1>6, <1>7, <1>8, <1>9
<1> QED
  BY <1>3, <1>4, <1>5, <1>10 DEF InStep, s

\* What the host would get back stands still while the trace and the flags grow.
LEMMA HostStillProtects ==
  ASSUME Deduplicating, UNCHANGED << snapshot, q_snapshot >>,
         Continues(storage_logs, storage_logs'), MapGrows(q_slot_flags, q_slot_flags')
  PROVE  HostProtects(snapshot', q_snapshot', q_slot_flags', storage_logs')
<1> SUFFICES ASSUME snapshot # << >>
             PROVE  ProtectsReads(MapAt(q_slot_flags', q_snapshot[1].slot_flags), storage_logs',
                                  snapshot[1].internal_snapshot.storage_logs_len)
  BY DEF HostProtects
<1> DEFINE n == snapshot[1].internal_snapshot.storage_logs_len
           f == q_snapshot[1].slot_flags
<1>1. n \in 0..Len(storage_logs) /\ f \in 0..Len(q_slot_flags.old_entries)
  BY HostWithin
<1>2. ProtectsReads(MapAt(q_slot_flags, f), storage_logs, n)
  BY DEF Deduplicating, DedupInv, HostProtects
<1> HIDE DEF n, f
<1>3. MapAt(q_slot_flags', f) = MapAt(q_slot_flags, f)
  BY <1>1 DEF MapGrows
<1>4. \A k : ZeroReadUpTo(storage_logs', n, k) <=> ZeroReadUpTo(storage_logs, n, k)
  BY <1>1, ContinuedReads
<1>5. ProtectsReads(MapAt(q_slot_flags', f), storage_logs', n)
  BY <1>2, <1>3, <1>4 DEF ProtectsReads
<1> QED
  BY <1>5 DEF n, f

\* Steps that leave the trace alone, and what is kept for the deduplication
LEMMA IdleDedups ==
  ASSUME Deduplicating,
         UNCHANGED << storage_writes, rollback_storage_logs, storage_logs, q_slot_flags,
                      q_storage_initial_values, snapshot, q_snapshot >>
  PROVE  NewDedupInv
  BY DEF Deduplicating, DedupInv, NewDedupInv

\* read_storage_inner, as a load and as part of a far call: the read is protected
\* if no write is pending, and then its value is cached.
LEMMA InnerReadDedups ==
  ASSUME NoneIsNoRecord, Deduplicating, NEW k \in Keys,
         ReadStorageInner(k), Quiet!ReadStorageInner(k),
         UNCHANGED << storage_writes, snapshot, q_snapshot >>
  PROVE  NewDedupInv
<1> DEFINE e == Log(k, CurrentValue(k), CurrentValue(k), FALSE)
           n == Len(storage_logs)
           q2 == AddFlags(q_slot_flags, k, {SLOT_READ})
           q3 == AddFlags(q2, k, {SLOT_PROTECTIVE_READ})
           written == storage_writes.map[k] # None
<1>1. TypeOK /\ DedupInv /\ storage_logs \in Seq(LogQueries)
      /\ q_slot_flags \in JournaledMap(Keys, SUBSET SlotFlags)
      /\ ~skip_storage_logs /\ q_skip_storage_logs /\ q_storage_writes = storage_writes
  BY DedupState DEF Deduplicating
<1>2. e \in LogQueries /\ e.key = k /\ ~e.rw_flag /\ ~e.rollback
  BY <1>1, CurrentValueType, LogType DEF Log
<1>3. storage_logs' = Append(storage_logs, e) /\ rollback_storage_logs' = rollback_storage_logs
  BY <1>1 DEF ReadStorageInner
<1>4. written => q_slot_flags' = q2 /\ q_storage_initial_values' = q_storage_initial_values
  BY <1>1, QuietOperators DEF Quiet!ReadStorageInner, SLOT_READ, Quiet!SLOT_READ
<1>5. ~written => /\ q_slot_flags' = q3
                  /\ q_storage_initial_values' = Filled(q_storage_initial_values, k)
  BY <1>1, QuietOperators DEF Quiet!ReadStorageInner, SLOT_READ, Quiet!SLOT_READ,
     SLOT_PROTECTIVE_READ, Quiet!SLOT_PROTECTIVE_READ, Quiet!CacheInitialValue, Filled
<1>6. written <=> PendingIn(storage_logs, n + 1, k)
  BY WrittenIsPending
<1>7. /\ q2 \in JournaledMap(Keys, SUBSET SlotFlags) /\ MapGrows(q_slot_flags, q2)
      /\ \A j \in Keys : IsProtected(q2.map, j) <=> IsProtected(q_slot_flags.map, j)
  <2>1. {SLOT_READ} \in SUBSET SlotFlags /\ SLOT_PROTECTIVE_READ \notin {SLOT_READ}
    BY FlagSets DEF SLOT_READ, SLOT_PROTECTIVE_READ
  <2>2. ProtectsAlso(q_slot_flags, q2, k, {SLOT_READ})
    BY <1>1, <2>1, ProtectedAdd
  <2> QED
    BY <1>1, <2>1, <2>2, AddFlagsGrows DEF ProtectsAlso
<1>8. /\ MapGrows(q_slot_flags, q3)
      /\ \A j \in Keys : IsProtected(q3.map, j) <=> IsProtected(q_slot_flags.map, j) \/ j = k
  <2> HIDE DEF q2
  <2>1. /\ q3 \in JournaledMap(Keys, SUBSET SlotFlags) /\ MapGrows(q2, q3)
        /\ ProtectsAlso(q2, q3, k, {SLOT_PROTECTIVE_READ})
    BY <1>7, FlagSets, AddFlagsGrows, ProtectedAdd
  <2>2. MapGrows(q_slot_flags, q3)
    BY <1>1, <1>7, <2>1, MapGrowsTransitive
  <2> QED
    BY <1>7, <2>1, <2>2 DEF ProtectsAlso
<1> HIDE DEF e, q2, q3
<1>9. /\ Continues(storage_logs, storage_logs') /\ Len(storage_logs') = n + 1
      /\ storage_logs'[n + 1] = e /\ n \in Nat
  BY <1>1, <1>2, <1>3, AppendContinues
<1>10. HostProtects(snapshot', q_snapshot', q_slot_flags', storage_logs')
  BY <1>4, <1>5, <1>7, <1>8, <1>9, HostStillProtects
<1>11. ProtectsReads(q_slot_flags'.map, storage_logs', Len(storage_logs'))
  <2>1. \A j \in Keys : ZeroReadUpTo(storage_logs', n + 1, j)
                          <=> ZeroReadUpTo(storage_logs, n, j) \/ (j = k /\ ~written)
    BY <1>1, <1>2, <1>3, <1>6, ReadCounts
  <2>2. \A j \in Keys : IsProtected(q_slot_flags'.map, j)
                          <=> IsProtected(q_slot_flags.map, j) \/ (j = k /\ ~written)
    BY <1>4, <1>5, <1>7, <1>8
  <2>3. \A j \in Keys : IsProtected(q_slot_flags.map, j) <=> ZeroReadUpTo(storage_logs, n, j)
    BY <1>1 DEF DedupInv, ProtectsReads
  <2> QED
    BY <1>9, <2>1, <2>2, <2>3 DEF ProtectsReads
<1>12. CacheCovers(q_storage_initial_values', storage_logs')
  <2>1. CacheCovers(q_storage_initial_values, storage_logs)
    BY <1>1 DEF DedupInv
  <2>2. /\ q_storage_initial_values' = q_storage_initial_values
           \/ \E j \in Keys : q_storage_initial_values' = Filled(q_storage_initial_values, j)
        /\ ~written => q_storage_initial_values'[k] # None
    BY <1>4, <1>5, <2>1, FilledIs DEF CacheCovers
  <2>3. PendingIn(storage_logs', n + 1, k) <=> PendingIn(storage_logs, n + 1, k)
    BY <1>9, ContinuedReads
  <2>4. \A i \in (n + 1)..Len(storage_logs') : i = n + 1
    BY <1>9
  <2>5. \A i \in (n + 1)..Len(storage_logs') :
          IsForward(storage_logs'[i]) \/ IsZeroRead(storage_logs', i)
            => q_storage_initial_values'[storage_logs'[i].key] # None
    BY <1>2, <1>6, <1>9, <2>2, <2>3, <2>4 DEF IsForward, IsZeroRead
  <2> QED
    BY <1>9, <2>1, <2>2, <2>5, CacheContinues
<1> QED
  BY <1>1, <1>3, <1>10, <1>11, <1>12 DEF NewDedupInv, DedupInv

\* A write is not protected, and caches the slot's value.
LEMMA WriteDedups ==
  ASSUME NoneIsNoRecord, Deduplicating, TypeOK', NEW k \in Keys, NEW v \in Values,
         BothWrite(k, v)
  PROVE  NewDedupInv
<1> DEFINE w == Log(k, CurrentValue(k), v, TRUE)
           t == [w EXCEPT !.rollback = TRUE]
           n == Len(storage_logs)
           q2 == AddFlags(q_slot_flags, k, {SLOT_WRITTEN})
           q3 == AddFlags(q2, k, {SLOT_READ})
<1>1. TypeOK /\ DedupInv /\ storage_logs \in Seq(LogQueries)
      /\ q_slot_flags \in JournaledMap(Keys, SUBSET SlotFlags)
      /\ ~skip_storage_logs /\ q_skip_storage_logs /\ q_storage_writes = storage_writes
  BY DedupState DEF Deduplicating
<1>2. w \in LogQueries /\ w.key = k /\ w.rw_flag /\ t \in LogQueries /\ t.key = k
  <2>1. w \in LogQueries /\ w.key = k /\ w.rw_flag
    BY <1>1, CurrentValueType, LogType DEF Log
  <2> HIDE DEF w
  <2> QED
    BY <2>1 DEF LogQueries
<1>3. /\ storage_logs' = Append(storage_logs, w)
      /\ rollback_storage_logs' = Append(rollback_storage_logs, t)
      /\ UNCHANGED << snapshot, q_snapshot >>
  BY <1>1 DEF BothWrite, WriteFreeStorage, WriteStorage, RecordWrite, control,
     Quiet!WriteFreeStorage, Quiet!WriteStorage, Quiet!control
<1>4. \E x \in WriteEntries : storage_writes' = MapInsert(storage_writes, k, x)
  BY <1>1, WritesAre DEF BothWrite, Writing
<1>5. q_storage_initial_values' = Filled(q_storage_initial_values, k)
  BY DEF BothWrite, Quiet!WriteFreeStorage, Quiet!WriteStorage, Quiet!CacheInitialValue, Filled
<1>6. q_slot_flags' \in {q2, q3}
  BY QuietOperators DEF BothWrite, Quiet!WriteFreeStorage, Quiet!WriteStorage, SLOT_READ,
     Quiet!SLOT_READ, SLOT_WRITTEN, Quiet!SLOT_WRITTEN
<1>7. /\ q2 \in JournaledMap(Keys, SUBSET SlotFlags) /\ MapGrows(q_slot_flags, q2)
      /\ \A j \in Keys : IsProtected(q2.map, j) <=> IsProtected(q_slot_flags.map, j)
  <2>1. {SLOT_WRITTEN} \in SUBSET SlotFlags /\ SLOT_PROTECTIVE_READ \notin {SLOT_WRITTEN}
    BY FlagSets DEF SLOT_WRITTEN, SLOT_PROTECTIVE_READ
  <2>2. ProtectsAlso(q_slot_flags, q2, k, {SLOT_WRITTEN})
    BY <1>1, <2>1, ProtectedAdd
  <2> QED
    BY <1>1, <2>1, <2>2, AddFlagsGrows DEF ProtectsAlso
<1>8. /\ MapGrows(q_slot_flags, q3)
      /\ \A j \in Keys : IsProtected(q3.map, j) <=> IsProtected(q_slot_flags.map, j)
  <2> HIDE DEF q2
  <2>1. {SLOT_READ} \in SUBSET SlotFlags /\ SLOT_PROTECTIVE_READ \notin {SLOT_READ}
    BY FlagSets DEF SLOT_READ, SLOT_PROTECTIVE_READ
  <2>2. /\ q3 \in JournaledMap(Keys, SUBSET SlotFlags) /\ MapGrows(q2, q3)
        /\ ProtectsAlso(q2, q3, k, {SLOT_READ})
    BY <1>7, <2>1, AddFlagsGrows, ProtectedAdd
  <2>3. MapGrows(q_slot_flags, q3)
    BY <1>1, <1>7, <2>2, MapGrowsTransitive
  <2> QED
    BY <1>7, <2>1, <2>2, <2>3 DEF ProtectsAlso
<1> HIDE DEF w, t, q2, q3
<1>9. /\ Continues(storage_logs, storage_logs') /\ Len(storage_logs') = n + 1
      /\ storage_logs'[n + 1] = w /\ n \in Nat
  BY <1>1, <1>2, <1>3, AppendContinues
<1>10. HostProtects(snapshot', q_snapshot', q_slot_flags', storage_logs')
  BY <1>3, <1>6, <1>7, <1>8, <1>9, HostStillProtects
<1>11. \A i \in (n + 1)..Len(storage_logs') : storage_logs'[i] = w
  BY <1>9
<1>12. ProtectsReads(q_slot_flags'.map, storage_logs', Len(storage_logs'))
  <2>1. \A j : ZeroReadUpTo(storage_logs', Len(storage_logs'), j)
                 <=> ZeroReadUpTo(storage_logs, n, j)
    BY <1>2, <1>9, <1>11, WritesReadNothing
  <2> QED
    BY <1>1, <1>6, <1>7, <1>8, <2>1 DEF DedupInv, ProtectsReads
<1>13. CacheCovers(q_storage_initial_values', storage_logs')
  <2>1. CacheCovers(q_storage_initial_values, storage_logs)
    BY <1>1 DEF DedupInv
  <2>2. q_storage_initial_values'[k] # None
    BY <1>5, <2>1, FilledIs DEF CacheCovers
  <2> QED
    BY <1>2, <1>5, <1>9, <1>11, <2>1, <2>2, CacheContinues
<1>14. WrittenIsHeld(storage_writes', rollback_storage_logs')
  <2>1. PICK x \in WriteEntries : storage_writes' = MapInsert(storage_writes, k, x)
    BY <1>4
  <2>2. None \notin WriteEntries
    BY DEF NoneIsNoRecord
  <2>3. WrittenIsHeld(storage_writes, rollback_storage_logs)
    BY <1>1 DEF DedupInv
  <2>4. WrittenIsHeld(MapInsert(storage_writes, t.key, x), Append(rollback_storage_logs, t))
    BY <1>2, <2>2, <2>3, DedupState, WrittenInsert
  <2> QED
    BY <1>2, <1>3, <2>1, <2>4
<1> QED
  BY <1>10, <1>12, <1>13, <1>14 DEF NewDedupInv

-----------------------------------------------------------------------------
(* Failing calls and the host *)

\* A twin writes, and undoes.
LEMMA TwinsUndo ==
  ASSUME NEW logs \in Seq(LogQueries), NEW held, Holds(logs, held)
  PROVE  \A i \in 1..Len(held) : held[i].rw_flag /\ ~IsForward(held[i])
<1> SUFFICES ASSUME NEW i \in 1..Len(held)
             PROVE  held[i].rw_flag /\ ~IsForward(held[i])
  OBVIOUS
<1> DEFINE w == logs[WriteOf(held[i])]
<1>1. w \in LogQueries /\ IsForward(w) /\ held[i] = [w EXCEPT !.rollback = TRUE]
  BY ElementOfSeq DEF Holds
<1> HIDE DEF w
<1> QED
  BY <1>1 DEF LogQueries, IsForward

\* A failing call puts twins in the trace, and no reads.
LEMMA ReturnFailedDedups ==
  ASSUME Deduplicating, ReturnFailed, Quiet!ReturnFailed
  PROVE  NewDedupInv
<1> DEFINE s == Top.world_before_this_frame
           n == s.storage_writes
           r == s.rollback_storage_logs_len
           off == Offset(rollback_storage_logs, storage_writes)
           L == Len(storage_logs)
           H == Len(rollback_storage_logs)
           more == ReverseSeq(SubSeq(rollback_storage_logs, r + 1, H))
<1>1. TypeOK /\ SnapshotsNest /\ DedupInv
  BY DEF Deduplicating
<1>2. /\ frames # << >> /\ AppendRollbackLogs(s) /\ RollbackTo(s)
      /\ UNCHANGED << snapshot, q_snapshot, q_slot_flags, q_storage_initial_values >>
  BY DEF ReturnFailed, Quiet!ReturnFailed, Quiet!slots
<1>3. /\ storage_writes' = MapRollback(storage_writes, n)
      /\ rollback_storage_logs' = LogRollback(rollback_storage_logs, r)
      /\ storage_logs' = storage_logs \o more
  BY <1>2 DEF AppendRollbackLogs, RollbackTo
<1>4. /\ off \in Nat /\ off = Offset(rollback_storage_logs, storage_writes)
      /\ SnapshotsInStep(frames, snapshot, off)
  BY DedupState DEF Deduplicating, TraceInv
<1>5. Len(frames) \in 1..Len(frames) /\ Top = frames[Len(frames)]
  BY <1>1, <1>2, PoppedType DEF Top
<1> HIDE DEF off
<1>6. n \in 0..Len(storage_writes.old_entries) /\ r = n + off /\ r \in 0..H
  BY <1>1, <1>4, <1>5, SnapshotPositions
<1> HIDE DEF n, r, s
<1>7. /\ storage_logs \in Seq(LogQueries) /\ rollback_storage_logs \in Seq(LogQueries)
      /\ L \in Nat /\ H \in Nat
  BY <1>1, TraceTypes
<1>8. /\ more \in Seq(LogQueries) /\ Len(more) = H - r
      /\ \A j \in 1..(H - r) : more[j] = rollback_storage_logs[(H + 1) - j]
  BY <1>6, <1>7, SuffixIs
<1> HIDE DEF more
<1>9. /\ storage_logs' \in Seq(LogQueries) /\ Len(storage_logs') = L + (H - r)
      /\ \A i \in 1..L : storage_logs'[i] = storage_logs[i]
      /\ \A j \in 1..(H - r) : storage_logs'[L + j] = rollback_storage_logs[(H + 1) - j]
  <2>1. /\ storage_logs \o more \in Seq(LogQueries)
        /\ Len(storage_logs \o more) = L + Len(more)
        /\ \A i \in 1..L : (storage_logs \o more)[i] = storage_logs[i]
        /\ \A j \in 1..Len(more) : (storage_logs \o more)[L + j] = more[j]
    BY <1>7, <1>8, ConcatSimple
  <2> HIDE DEF L, H
  <2> QED
    BY <1>3, <1>8, <2>1
<1>10. Continues(storage_logs, storage_logs')
  BY <1>6, <1>7, <1>9 DEF Continues
<1>11. ASSUME NEW i \in (L + 1)..Len(storage_logs')
       PROVE  storage_logs'[i].rw_flag /\ ~IsForward(storage_logs'[i])
  <2>1. PICK j \in 1..(H - r) : i = L + j
    <3>1. i - L \in 1..(H - r) /\ i = L + (i - L)
      BY <1>6, <1>7, <1>9
    <3> QED
      BY <3>1
  <2>2. (H + 1) - j \in 1..H
    BY <1>6, <1>7
  <2>3. storage_logs'[i] = rollback_storage_logs[(H + 1) - j]
    BY <1>9, <2>1
  <2> QED
    BY <2>2, <2>3, DedupState, TwinsUndo
<1>12. HostProtects(snapshot', q_snapshot', q_slot_flags', storage_logs')
  BY <1>2, <1>10, HostStillProtects, DedupState, MapGrowsReflexive
<1>13. ProtectsReads(q_slot_flags'.map, storage_logs', Len(storage_logs'))
  <2>1. \A k : ZeroReadUpTo(storage_logs', Len(storage_logs'), k)
                 <=> ZeroReadUpTo(storage_logs, Len(storage_logs), k)
    BY <1>10, <1>11, WritesReadNothing
  <2> QED
    BY <1>1, <1>2, <2>1 DEF DedupInv, ProtectsReads
<1>14. CacheCovers(q_storage_initial_values', storage_logs')
  <2>1. \A i \in (L + 1)..Len(storage_logs') :
          ~IsForward(storage_logs'[i]) /\ ~IsZeroRead(storage_logs', i)
    BY <1>11 DEF IsZeroRead
  <2> QED
    BY <1>1, <1>2, <1>10, <2>1, CacheContinues DEF DedupInv
<1>15. WrittenIsHeld(storage_writes', rollback_storage_logs')
  BY <1>1, <1>3, <1>4, <1>6, DedupState, WrittenUndo DEF DedupInv
<1> QED
  BY <1>12, <1>13, <1>14, <1>15 DEF NewDedupInv

\* The host remembers the flags and the trace as they are.
LEMMA MakeSnapshotDedups ==
  ASSUME Deduplicating, MakeSnapshot, Quiet!MakeSnapshot
  PROVE  NewDedupInv
<1>1. /\ UNCHANGED << storage_writes, rollback_storage_logs, storage_logs, q_slot_flags,
                      q_storage_initial_values >>
      /\ snapshot' = << ExternalSnapshot >> /\ q_snapshot' = << Quiet!ExternalSnapshot >>
  BY DEF MakeSnapshot, Quiet!MakeSnapshot, rolled_back, trace, Quiet!slots
<1>2. /\ ExternalSnapshot.internal_snapshot.storage_logs_len = Len(storage_logs)
      /\ Quiet!ExternalSnapshot.slot_flags = Len(q_slot_flags.old_entries)
  BY DEF ExternalSnapshot, Snapshot, Quiet!ExternalSnapshot, Quiet!MapSnapshot
<1>3. MapAt(q_slot_flags, Len(q_slot_flags.old_entries)) = q_slot_flags.map
  BY DedupState, MapAtNow
<1>4. DedupInv
  BY DEF Deduplicating
<1>5. HostProtects(snapshot', q_snapshot', q_slot_flags', storage_logs')
  BY <1>1, <1>2, <1>3, <1>4 DEF HostProtects, DedupInv
<1> QED
  BY <1>1, <1>4, <1>5 DEF NewDedupInv, DedupInv

\* Without a snapshot the host gets nothing back.
LEMMA PopSnapshotDedups ==
  ASSUME Deduplicating, PopSnapshot, Quiet!PopSnapshot
  PROVE  NewDedupInv
<1>1. /\ UNCHANGED << rollback_storage_logs, storage_logs, q_storage_initial_values >>
      /\ storage_writes' = MapDeleteHistory(storage_writes)
      /\ q_slot_flags' = MapDeleteHistory(q_slot_flags)
      /\ snapshot' = << >>
  BY QuietOperators DEF PopSnapshot, Quiet!PopSnapshot, trace
<1>2. q_slot_flags'.map = q_slot_flags.map
  BY <1>1 DEF MapDeleteHistory
<1>3. DedupInv
  BY DEF Deduplicating
<1>4. WrittenIsHeld(storage_writes', rollback_storage_logs')
  BY <1>1, <1>3, DedupState, WrittenForget DEF DedupInv
<1> QED
  BY <1>1, <1>2, <1>3, <1>4 DEF NewDedupInv, DedupInv, HostProtects

\* The host gets back the reads and the flags of its snapshot, and keeps the cache.
LEMMA HostRollbackDedups ==
  ASSUME Deduplicating, TypeOK', HostRollback, Quiet!HostRollback
  PROVE  NewDedupInv
<1> DEFINE s == snapshot[1]
           i == s.internal_snapshot
           n == i.storage_logs_len
           p == i.storage_writes
           r == i.rollback_storage_logs_len
           f == q_snapshot[1].slot_flags
           off == Offset(rollback_storage_logs, storage_writes)
<1>1. /\ snapshot # << >> /\ snapshot' = << >>
      /\ storage_writes' = MapDeleteHistory(MapRollback(storage_writes, p))
      /\ storage_logs' = LogRollback(storage_logs, n)
      /\ rollback_storage_logs' = LogRollback(rollback_storage_logs, r)
      /\ q_slot_flags' = MapDeleteHistory(MapRollback(q_slot_flags, f))
      /\ q_storage_initial_values' = q_storage_initial_values
  BY QuietOperators DEF HostRollback, Quiet!HostRollback
<1>2. /\ n \in 0..Len(storage_logs) /\ p \in 0..Len(storage_writes.old_entries)
      /\ r = p + off /\ f \in 0..Len(q_slot_flags.old_entries)
  BY <1>1, HostWithin
<1>3. TypeOK /\ DedupInv
  BY DEF Deduplicating
<1>4. ProtectsReads(MapAt(q_slot_flags, f), storage_logs, n)
  BY <1>1, <1>3 DEF DedupInv, HostProtects
<1> HIDE DEF s, i, n, p, r, f
<1>5. /\ storage_logs \in Seq(LogQueries) /\ storage_logs' \in Seq(LogQueries)
      /\ Len(storage_logs') = n /\ \A j \in 1..n : storage_logs'[j] = storage_logs[j]
  BY <1>1, <1>2, DedupState, KeptIs, PrefixIs
<1>6. Len(storage_logs) \in Nat
  BY DedupState
<1>7. Continues(storage_logs', storage_logs)
  BY <1>2, <1>5, <1>6 DEF Continues
<1>8. ProtectsReads(q_slot_flags'.map, storage_logs', Len(storage_logs'))
  <2>1. q_slot_flags'.map = MapAt(q_slot_flags, f)
    BY <1>1 DEF MapDeleteHistory, MapRollback
  <2>2. n \in 0..Len(storage_logs')
    BY <1>2, <1>5, <1>6
  <2>3. \A k : ZeroReadUpTo(storage_logs, n, k) <=> ZeroReadUpTo(storage_logs', n, k)
    BY <1>7, <2>2, ContinuedReads
  <2> QED
    BY <1>4, <1>5, <2>1, <2>3 DEF ProtectsReads
<1>9. CacheCovers(q_storage_initial_values', storage_logs')
  BY <1>1, <1>3, <1>7, CacheShortens DEF DedupInv
<1>10. WrittenIsHeld(storage_writes', rollback_storage_logs')
  <2> DEFINE m == MapRollback(storage_writes, p)
             kept == LogRollback(rollback_storage_logs, r)
  <2>1. WrittenIsHeld(m, kept)
    BY <1>2, <1>3, DedupState, WrittenUndo DEF DedupInv
  <2>2. Journal(m)
    BY <1>2, DedupState, RollbackKeepsEarlier DEF Journal
  <2>3. kept \in Seq(LogQueries)
    BY <1>1 DEF TypeOK
  <2> HIDE DEF m, kept
  <2>4. WrittenIsHeld(MapDeleteHistory(m), kept)
    BY <2>1, <2>2, <2>3, WrittenForget
  <2> QED
    BY <1>1, <2>4 DEF m, kept
<1> QED
  BY <1>1, <1>8, <1>9, <1>10 DEF NewDedupInv, HostProtects

-----------------------------------------------------------------------------
(* The invariant is kept *)

\* Every step keeps the invariant.
LEMMA NextDedups ==
  ASSUME NoneIsNoRecord, Deduplicating, TypeOK', [NextModes]_<< vars, Quiet!vars >>
  PROVE  DedupInv'
<1> SUFFICES NewDedupInv
  BY NewDedupInvIs
<1>1. CASE UNCHANGED << vars, Quiet!vars >>
  BY <1>1, IdleDedups DEF vars, rolled_back, trace, control, Quiet!vars, Quiet!slots,
     Quiet!control
<1>2. ASSUME NEW k \in Keys, BothRead(k)
      PROVE  NewDedupInv
  BY <1>2, InnerReadDedups DEF BothRead, ReadStorage, Quiet!ReadStorage, rolled_back,
     control, Quiet!control
<1>3. ASSUME NEW k \in Keys, BothFarCall(k)
      PROVE  NewDedupInv
  BY <1>3, InnerReadDedups DEF BothFarCall, FarCall, FarCallDecommit, Quiet!FarCall,
     Quiet!FarCallDecommit, rolled_back
<1>4. ASSUME NEW k \in Keys, NEW v \in Values, BothWrite(k, v)
      PROVE  NewDedupInv
  BY <1>4, WriteDedups
<1>5. CASE BothNearCall
  BY <1>5, IdleDedups DEF BothNearCall, NearCall, Quiet!NearCall, rolled_back, trace,
     Quiet!slots
<1>6. CASE ReturnOk /\ Quiet!ReturnOk
  BY <1>6, IdleDedups DEF ReturnOk, Quiet!ReturnOk, rolled_back, trace, Quiet!slots
<1>7. CASE ReturnFailed /\ Quiet!ReturnFailed
  BY <1>7, ReturnFailedDedups
<1>8. CASE BothHostSteps
  BY <1>8, MakeSnapshotDedups, HostRollbackDedups, PopSnapshotDedups DEF BothHostSteps
<1> QED
  BY <1>1, <1>2, <1>3, <1>4, <1>5, <1>6, <1>7, <1>8 DEF NextModes, BothReturn

\* It holds at the start.
LEMMA InitDedups ==
  ASSUME InitModes
  PROVE  DedupInv
<1>1. /\ storage_writes = EmptyMap(Keys) /\ q_slot_flags.map = [k \in Keys |-> None]
      /\ storage_logs = << >> /\ rollback_storage_logs = << >> /\ snapshot = << >>
      /\ q_storage_initial_values = [k \in Keys |-> None]
  BY DEF InitModes, Init, Quiet!Init, Quiet!EmptyMap
<1>2. WrittenIsHeld(EmptyMap(Keys), << >>)
  <2> DEFINE m == EmptyMap(Keys)
  <2>1. m \in JournaledMap(Keys, WriteEntries) /\ m.old_entries = << >>
        /\ \A k \in Keys : m.map[k] = None
    BY EmptyMapType DEF EmptyMap
  <2> HIDE DEF m
  <2>2. Len(m.old_entries) = 0 /\ MapAt(m, 0) = m.map
    BY <2>1, MapAtNow
  <2>3. Offset(<< >>, m) + 0 = 0
    BY <2>2 DEF Offset
  <2>4. \A p \in 0..0 : p = 0
    OBVIOUS
  <2>5. WrittenIsHeld(m, << >>)
    BY <2>1, <2>2, <2>3, <2>4 DEF WrittenIsHeld, HeldUpTo
  <2> QED
    BY <2>5 DEF m
<1>3. ProtectsReads(q_slot_flags.map, << >>, Len(<< >>))
  BY <1>1 DEF ProtectsReads, IsProtected, ZeroReadUpTo
<1>4. CacheCovers(q_storage_initial_values, << >>)
  BY <1>1 DEF CacheCovers
<1> QED
  BY <1>1, <1>2, <1>3, <1>4 DEF DedupInv, HostProtects

\* What the quiet mode keeps follows the trace in every reachable state.
LEMMA DedupInvariant ==
  ASSUME ~HostAnywhere, NoneIsNoRecord
  PROVE  SpecModes => []Deduplicating
<1>1. InitModes => DedupInv
  BY InitDedups
<1>2. TypeOK /\ TypeOK' /\ SnapshotsNest /\ TraceInv /\ ModesInv /\ DedupInv
        /\ [NextModes]_<< vars, Quiet!vars >> => DedupInv'
  BY NextDedups DEF Deduplicating
<1>3. TypeOK /\ SnapshotsNest /\ TraceInv /\ ModesInv /\ DedupInv => Deduplicating
  BY DEF Deduplicating
<1> QED
  BY <1>1, <1>2, <1>3, ModesRecord, TypeInvariant, Nesting, TraceInvariant, ModesInvariant, PTL
     DEF SpecModes

-----------------------------------------------------------------------------
(* What the quiet mode derives *)

\* Undone writes and their twins pair off, so that depth counts pending writes.
LEMMA DepthCountsPending ==
  ASSUME TypeOK, UndoesOnce(storage_logs), NEW k, NEW i \in 1..(Len(storage_logs) + 1)
  PROVE  /\ DepthAt(i, k) \in Nat
         /\ DepthAt(i, k) = 0 <=> ~PendingIn(storage_logs, i, k)
<1> DEFINE F == ForwardWrites(i, k)
           U == {j \in Writes(i, k) : storage_logs[j].rollback}
           twin == [u \in U |-> WriteOf(storage_logs[u])]
<1>1. /\ i \in Nat /\ i - 1 \in Nat /\ \A j \in 1..(i - 1) : j \in 1..Len(storage_logs)
      /\ \A j \in 1..Len(storage_logs) : storage_logs[j] \in LogQueries
  <2>1. Len(storage_logs) \in Nat /\ storage_logs \in Seq(LogQueries)
    BY TraceTypes
  <2> QED
    BY <2>1, ElementOfSeq
<1>2. \A j : j \in F <=> /\ j \in 1..(i - 1) /\ storage_logs[j].key = k
                         /\ IsForward(storage_logs[j])
  BY DEF ForwardWrites, Writes, Accesses, IsForward
<1>3. \A j : j \in U <=> /\ j \in 1..(i - 1) /\ storage_logs[j].key = k
                         /\ storage_logs[j].rw_flag /\ storage_logs[j].rollback
  BY DEF Writes, Accesses
<1>4. \A j \in 1..(i - 1) : storage_logs[j].rollback =>
        LET w == WriteOf(storage_logs[j])
        IN /\ w \in 1..(j - 1)
           /\ storage_logs[w].key = storage_logs[j].key
           /\ storage_logs[w].rw_flag = storage_logs[j].rw_flag
           /\ ~storage_logs[w].rollback
           /\ \A u \in 1..(i - 1) : storage_logs[u].rollback /\ u # j
                => WriteOf(storage_logs[u]) # w
  <2> SUFFICES ASSUME NEW j \in 1..(i - 1), storage_logs[j].rollback
               PROVE  LET w == WriteOf(storage_logs[j])
                      IN /\ w \in 1..(j - 1)
                         /\ storage_logs[w].key = storage_logs[j].key
                         /\ storage_logs[w].rw_flag = storage_logs[j].rw_flag
                         /\ ~storage_logs[w].rollback
                         /\ \A u \in 1..(i - 1) : storage_logs[u].rollback /\ u # j
                              => WriteOf(storage_logs[u]) # w
    OBVIOUS
  <2> DEFINE w == WriteOf(storage_logs[j])
             e == storage_logs[j]
  <2>1. /\ w \in 1..(j - 1) /\ storage_logs[w] = [e EXCEPT !.rollback = FALSE]
        /\ \A u \in 1..Len(storage_logs) : storage_logs[u].rollback /\ u # j
             => WriteOf(storage_logs[u]) # w
    BY <1>1 DEF UndoesOnce
  <2>2. e \in LogQueries
    BY <1>1
  <2> HIDE DEF w, e
  <2>3. /\ storage_logs[w].key = e.key /\ storage_logs[w].rw_flag = e.rw_flag
        /\ ~storage_logs[w].rollback
    BY <2>1, <2>2 DEF LogQueries
  <2> QED
    BY <1>1, <2>1, <2>3 DEF w, e
<1>5. IsFiniteSet(F) /\ IsFiniteSet(U)
  <2>1. IsFiniteSet(1..(i - 1))
    BY <1>1, FS_Interval
  <2>2. F \subseteq 1..(i - 1) /\ U \subseteq 1..(i - 1)
    BY <1>2, <1>3
  <2> HIDE DEF F, U
  <2> QED
    BY <2>1, <2>2, FS_Subset
<1>6. DepthAt(i, k) = Cardinality(F) - Cardinality(U)
  BY DEF DepthAt
<1> HIDE DEF F, U
<1>7. \A u \in U : WriteOf(storage_logs[u]) \in F
  <2>1. ASSUME NEW u \in U
        PROVE  WriteOf(storage_logs[u]) \in F
    <3> DEFINE w == WriteOf(storage_logs[u])
    <3>1. u \in 1..(i - 1) /\ storage_logs[u].key = k /\ storage_logs[u].rw_flag
          /\ storage_logs[u].rollback
      BY <1>3
    <3>2. w \in 1..(u - 1) /\ storage_logs[w].key = k /\ storage_logs[w].rw_flag
          /\ ~storage_logs[w].rollback
      BY <1>4, <3>1
    <3>3. w \in 1..(i - 1)
      BY <1>1, <3>1, <3>2
    <3> HIDE DEF w
    <3>4. w \in F
      BY <1>2, <3>2, <3>3 DEF IsForward
    <3> QED
      BY <3>4 DEF w
  <2> QED
    BY <2>1
<1>8. twin \in Injection(U, F)
  <2>1. twin \in [U -> F]
    BY <1>7
  <2>2. \A u, v \in U : twin[u] = twin[v] => u = v
    BY <1>3, <1>4
  <2> QED
    BY <2>1, <2>2 DEF Injection, IsInjective
<1>9. /\ Cardinality(U) \in Nat /\ Cardinality(F) \in Nat
      /\ Cardinality(U) <= Cardinality(F)
      /\ Cardinality(U) = Cardinality(F) <=> twin \in Surjection(U, F)
  BY <1>5, <1>8, FS_Injection, FS_CardinalityType
<1>10. twin \in Surjection(U, F)
         <=> \A j \in F : \E u \in U : WriteOf(storage_logs[u]) = j
  BY <1>7 DEF Surjection
<1>11. PendingIn(storage_logs, i, k)
         <=> \E j \in F : \A u \in U : WriteOf(storage_logs[u]) # j
  <2>1. ASSUME NEW j \in F, NEW u \in 1..(i - 1), storage_logs[u].rollback,
               WriteOf(storage_logs[u]) = j
        PROVE  u \in U
    BY <1>2, <1>3, <1>4, <2>1 DEF IsForward
  <2>2. ASSUME NEW j \in F
        PROVE  (\A u \in 1..(i - 1) : storage_logs[u].rollback
                                        => WriteOf(storage_logs[u]) # j)
                 <=> \A u \in U : WriteOf(storage_logs[u]) # j
    BY <1>3, <2>1
  <2> QED
    BY <1>2, <2>2 DEF PendingIn
<1> QED
  BY <1>6, <1>9, <1>10, <1>11

\* The deduplication's question, asked of the trace's prefixes
LEMMA DidReadIs ==
  ASSUME TypeOK, UndoesOnce(storage_logs), NEW k \in Keys
  PROVE  DidReadAtDepthZero(k) <=> ZeroReadUpTo(storage_logs, Len(storage_logs), k)
<1> DEFINE n == Len(storage_logs)
<1>1. n \in Nat /\ (n + 1) - 1 = n /\ \A i \in 1..n : i \in 1..(n + 1)
  BY TraceTypes
<1>2. Accesses(n + 1, k) = {i \in 1..n : storage_logs[i].key = k}
  BY <1>1 DEF Accesses
<1>3. \A i \in 1..n : DepthAt(i, k) = 0 <=> ~PendingIn(storage_logs, i, k)
  BY <1>1, DepthCountsPending
<1> QED
  BY <1>2, <1>3 DEF DidReadAtDepthZero, ZeroReadUpTo, IsZeroRead

\* The protective reads of the quiet mode are the reads at depth zero of the trace.
LEMMA ProtectiveReadsAre ==
  ASSUME Deduplicating
  PROVE  /\ UndoesOnce(storage_logs)
         /\ \A k \in Keys : k \in ProtectiveReads
                              <=> ZeroReadUpTo(storage_logs, Len(storage_logs), k)
         /\ FlagIsDepthZeroRead
<1>1. TypeOK /\ DedupInv /\ UndoesOnce(storage_logs)
  BY DedupState DEF Deduplicating, TraceInv, Pending, GoodTrace
<1>2. \A k \in Keys : k \in ProtectiveReads
                        <=> ZeroReadUpTo(storage_logs, Len(storage_logs), k)
  BY <1>1 DEF ProtectiveReads, DedupInv, ProtectsReads, IsProtected
<1>3. ProtectiveReads \subseteq Keys
  BY DEF ProtectiveReads
<1>4. FlagIsDepthZeroRead
  BY <1>1, <1>2, <1>3, DidReadIs DEF FlagIsDepthZeroRead
<1> QED
  BY <1>1, <1>2, <1>4

\* The flag that the quiet mode sets at the moment of a read answers the question
\* that the deduplication would ask of the whole trace: was the slot read while no
\* write to it was pending, as the trace tells it afterwards
\* (read_storage_inner, protective_reads_iter).
THEOREM ReadsAreProtected ==
  ASSUME ~HostAnywhere, NoneIsNoRecord
  PROVE  SpecModes => []FlagIsDepthZeroRead
<1>1. Deduplicating => FlagIsDepthZeroRead
  BY ProtectiveReadsAre
<1> QED
  BY <1>1, DedupInvariant, PTL

\* A slot the quiet mode names has its initial value cached.
LEMMA NamedAreCached ==
  ASSUME Deduplicating, NEW k \in Keys,
         k \in ProtectiveReads \/ q_storage_writes.map[k] # None
  PROVE  q_storage_initial_values[k] = InitialValue[k]
<1>1. CacheCovers(q_storage_initial_values, storage_logs)
  BY DEF Deduplicating, DedupInv
<1>2. Len(storage_logs) \in Nat /\ q_storage_writes = storage_writes
  BY DedupState
<1>3. \E i \in 1..Len(storage_logs) :
        /\ storage_logs[i].key = k
        /\ IsForward(storage_logs[i]) \/ IsZeroRead(storage_logs, i)
  <2>1. CASE k \in ProtectiveReads
    BY <2>1, ProtectiveReadsAre DEF ZeroReadUpTo
  <2>2. CASE storage_writes.map[k] # None
    <3>1. PendingIn(storage_logs, Len(storage_logs) + 1, k)
      BY <2>2, WrittenIsPending
    <3>2. (Len(storage_logs) + 1) - 1 = Len(storage_logs)
      BY <1>2
    <3> QED
      BY <3>1, <3>2 DEF PendingIn
  <2> QED
    BY <1>2, <2>1, <2>2
<1> QED
  BY <1>1, <1>3 DEF CacheCovers

\* Without a trace the deduplicated slots, their first values and their changes
\* are those the trace would have given (protective_reads_iter,
\* initial_storage_value, get_storage_changes).
THEOREM SlotsAreDerived ==
  ASSUME ~HostAnywhere, NoneIsNoRecord
  PROVE  SpecModes => []DedupIsDerivable
<1>1. ASSUME Deduplicating, TraceReplays
      PROVE  DedupIsDerivable
  <2> DEFINE end == Len(storage_logs) + 1
             written == {k \in Keys : q_storage_writes.map[k] # None}
             deduplicated == ProtectiveReads \cup written
             initial == q_storage_initial_values
             changed == {k \in Keys : Replayed(end, k) # InitialValue[k]}
  <2>1. TypeOK /\ q_storage_writes = storage_writes /\ ~skip_storage_logs
        /\ Len(storage_logs) \in Nat
    BY <1>1, DedupState DEF Deduplicating
  <2>2. \A k \in Keys : DepthAt(end, k) > 0 <=> q_storage_writes.map[k] # None
    <3>1. end \in 1..(Len(storage_logs) + 1)
      BY <2>1
    <3>2. \A k \in Keys : /\ DepthAt(end, k) \in Nat
                          /\ DepthAt(end, k) = 0 <=> ~PendingIn(storage_logs, end, k)
      BY <1>1, <2>1, <3>1, ProtectiveReadsAre, DepthCountsPending
    <3> HIDE DEF end
    <3>3. \A k \in Keys : DepthAt(end, k) > 0 <=> PendingIn(storage_logs, end, k)
      BY <3>2
    <3> QED
      BY <1>1, <2>1, <3>3, WrittenIsPending DEF end
  <2>3. deduplicated = {k \in Keys : DidReadAtDepthZero(k) \/ DepthAt(end, k) > 0}
    <3>1. ProtectiveReads = {k \in Keys : DidReadAtDepthZero(k)}
      BY <1>1, ProtectiveReadsAre DEF FlagIsDepthZeroRead
    <3> HIDE DEF end
    <3> QED
      BY <2>2, <3>1
  <2>4. \A k \in deduplicated : k \in Keys /\ initial[k] = InitialValue[k]
    BY <1>1, NamedAreCached DEF ProtectiveReads
  <2>5. \A k \in Keys : Replayed(end, k) = CurrentValue(k)
    BY <1>1, <2>1 DEF TraceReplays
  <2> HIDE DEF end
  <2>6. \A k \in Keys : /\ k \in written => initial[k] = InitialValue[k]
                                           /\ Replayed(end, k) = q_storage_writes.map[k].value
                        /\ k \notin written => Replayed(end, k) = InitialValue[k]
    BY <2>1, <2>4, <2>5 DEF CurrentValue
  <2> DEFINE here == {k \in Keys : q_storage_writes.map[k] # None
                                   /\ q_storage_writes.map[k].value # initial[k]}
  <2>7. here = changed
    BY <2>6
  <2>8. \A k \in here : /\ initial[k] = InitialValue[k]
                        /\ q_storage_writes.map[k].value = Replayed(end, k)
    BY <2>6
  <2>9. StorageChanges(q_storage_writes, initial)
          = [k \in here |-> [before |-> initial[k], after |-> q_storage_writes.map[k].value]]
    BY DEF StorageChanges
  <2> HIDE DEF here, changed, initial
  <2>10. StorageChanges(q_storage_writes, initial)
           = [k \in changed |-> [before |-> InitialValue[k], after |-> Replayed(end, k)]]
    BY <2>7, <2>8, <2>9
  <2> QED
    BY <2>3, <2>4, <2>10 DEF DedupIsDerivable, end, initial, changed
<1> QED
  BY <1>1, DedupInvariant, ModesRecord, TraceExplains, PTL
=============================================================================
