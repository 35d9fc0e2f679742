-------------------------- MODULE WorldDiffProofs --------------------------
(***************************************************************************)
(* Proofs about modules Rollback and WorldDiff, for every instance of      *)
(* their constants.                                                        *)
(*                                                                         *)
(* First the journaled containers: growing a journal changes nothing that  *)
(* an earlier snapshot remembers, and undoing to a snapshot leaves every   *)
(* earlier snapshot intact.  Then the types, the cache of initial values,  *)
(* and how snapshots nest when the host and IncrementTxNumber act only     *)
(* while no call is open.  Hence every open call can fail, the host's      *)
(* snapshot can be returned to, and journals cannot be told from saved     *)
(* copies: WorldDiff implements AbstractWorld.  Also, pinned pages are     *)
(* those of the hashes that succeeded.                                     *)
(***************************************************************************)
EXTENDS WorldDiff, SequenceTheorems, WellFoundedInduction, TLAPS

\* A non-empty set of journal positions has an oldest one.
LEMMA OldestIsFirst ==
  ASSUME NEW S, S \subseteq Nat, S # {}
  PROVE  /\ Oldest(S) \in S
         /\ \A j \in S : Oldest(S) <= j
<1>1. PICK i \in S : \A j \in S : ~ (<<j, i>> \in OpToRel(<, Nat))
  BY NatLessThanWellFounded, WFMin
<1>2. ASSUME NEW j \in S
      PROVE  i <= j
  <2>1. i \in Nat /\ j \in Nat
    OBVIOUS
  <2>2. j < i => <<j, i>> \in OpToRel(<, Nat)
    BY <2>1, Zenon DEF OpToRel
  <2>3. ~ (j < i)
    BY <1>1, <2>2
  <2> QED
    BY <2>1, <2>3
<1> QED
  BY <1>2 DEF Oldest

\* The oldest position is the only one with its defining property.
LEMMA OldestIsUnique ==
  ASSUME NEW S, S \subseteq Nat, NEW i \in S, \A j \in S : i <= j
  PROVE  Oldest(S) = i
<1>1. Oldest(S) \in S /\ \A j \in S : Oldest(S) <= j
  BY OldestIsFirst
<1>2. Oldest(S) <= i /\ i <= Oldest(S)
  BY <1>1
<1>3. Oldest(S) \in Nat /\ i \in Nat
  BY <1>1
<1> QED
  BY <1>2, <1>3

LEMMA MapAtType ==
  ASSUME NEW K, NEW V, NEW m \in JournaledMap(K, V), NEW n \in Nat
  PROVE  MapAt(m, n) \in [K -> V \cup {None}]
<1> DEFINE Entries == [key : K, old : V \cup {None}]
<1>1. m.map \in [K -> V \cup {None}] /\ m.old_entries \in Seq(Entries)
  BY DEF JournaledMap
<1>2. ASSUME NEW k \in K, Touched(m, n, k) # {}
      PROVE  m.old_entries[Oldest(Touched(m, n, k))].old \in V \cup {None}
  <2>1. Touched(m, n, k) \subseteq 1..Len(m.old_entries)
    BY <1>1 DEF Touched
  <2>2. Oldest(Touched(m, n, k)) \in 1..Len(m.old_entries)
    BY <1>1, <1>2, <2>1, OldestIsFirst
  <2>3. m.old_entries[Oldest(Touched(m, n, k))] \in Entries
    BY <1>1, <2>2, ElementOfSeq, Zenon
  <2> QED
    BY <2>3
<1> QED
  BY <1>1, <1>2 DEF MapAt

\* A snapshot taken now remembers the map as it is.
LEMMA MapAtNow ==
  ASSUME NEW K, NEW V, NEW m \in JournaledMap(K, V)
  PROVE  MapAt(m, Len(m.old_entries)) = m.map
<1>1. m.map \in [K -> V \cup {None}] /\ Len(m.old_entries) \in Nat
  BY LenProperties DEF JournaledMap
<1>2. \A k \in K : Touched(m, Len(m.old_entries), k) = {}
  BY <1>1 DEF Touched
<1> QED
  BY <1>1, <1>2 DEF MapAt

-----------------------------------------------------------------------------
(* Growing *)

\* m2 is m after further insertions, as far as m's snapshots can tell.
MapGrows(m, m2) ==
  /\ Len(m.old_entries) <= Len(m2.old_entries)
  /\ \A n \in 0..Len(m.old_entries) : MapAt(m2, n) = MapAt(m, n)

\* Inserting journals the old value, so every snapshot still remembers its map.
LEMMA InsertGrows ==
  ASSUME NEW K, NEW V, NEW m \in JournaledMap(K, V), NEW k \in K, NEW v \in V
  PROVE  /\ MapInsert(m, k, v) \in JournaledMap(K, V)
         /\ Len(MapInsert(m, k, v).old_entries) = Len(m.old_entries) + 1
         /\ MapGrows(m, MapInsert(m, k, v))
<1> DEFINE Entries == [key : K, old : V \cup {None}]
           e == [key |-> k, old |-> m.map[k]]
           m2 == MapInsert(m, k, v)
           len == Len(m.old_entries)
<1>1. m.map \in [K -> V \cup {None}] /\ m.old_entries \in Seq(Entries)
  BY DEF JournaledMap
<1>2. e \in Entries
  BY <1>1
<1>3. /\ m2.old_entries \in Seq(Entries)
      /\ Len(m2.old_entries) = len + 1
      /\ \A i \in 1..len : m2.old_entries[i] = m.old_entries[i]
      /\ m2.old_entries[len + 1] = e
  BY <1>1, <1>2, AppendProperties DEF MapInsert
<1>4. m2.map \in [K -> V \cup {None}] /\ m2.map = [m.map EXCEPT ![k] = v]
  BY <1>1 DEF MapInsert
<1>5. m2 \in JournaledMap(K, V)
  BY <1>3, <1>4 DEF JournaledMap, MapInsert
<1>6. len \in Nat
  BY <1>1, LenProperties
<1>7. ASSUME NEW n \in 0..len, NEW j \in K
      PROVE  MapAt(m2, n)[j] = MapAt(m, n)[j]
  <2>1. Touched(m, n, j) \subseteq Nat /\ Touched(m2, n, j) \subseteq Nat
    BY <1>3, <1>6, <1>7 DEF Touched
  <2>2. Touched(m2, n, j) = Touched(m, n, j) \cup (IF j = k THEN {len + 1} ELSE {})
    BY <1>3, <1>6, <1>7 DEF Touched
  <2>3. MapAt(m, n)[j] = IF Touched(m, n, j) = {} THEN m.map[j]
                         ELSE m.old_entries[Oldest(Touched(m, n, j))].old
    BY <1>1 DEF MapAt
  <2>4. MapAt(m2, n)[j] = IF Touched(m2, n, j) = {} THEN m2.map[j]
                          ELSE m2.old_entries[Oldest(Touched(m2, n, j))].old
    BY <1>4 DEF MapAt
  <2>5. CASE Touched(m, n, j) # {}
    <3> DEFINE i == Oldest(Touched(m, n, j))
    <3>1. i \in Touched(m, n, j) /\ \A x \in Touched(m, n, j) : i <= x
      BY <2>1, <2>5, OldestIsFirst
    <3>2. i \in 1..len
      BY <1>6, <1>7, <3>1 DEF Touched
    <3>3. \A x \in Touched(m2, n, j) : i <= x
      BY <1>6, <2>2, <3>1, <3>2
    <3>4. Oldest(Touched(m2, n, j)) = i
      BY <2>1, <2>2, <3>1, <3>3, OldestIsUnique
    <3> QED
      BY <1>3, <2>2, <2>3, <2>4, <2>5, <3>2, <3>4
  <2>6. CASE Touched(m, n, j) = {} /\ j # k
    BY <1>1, <1>4, <2>2, <2>3, <2>4, <2>6
  <2>7. CASE Touched(m, n, j) = {} /\ j = k
    <3>1. Touched(m2, n, j) = {len + 1}
      BY <2>2, <2>7
    <3>2. len + 1 \in Touched(m2, n, j) /\ \A x \in Touched(m2, n, j) : len + 1 <= x
      BY <1>6, <3>1
    <3>3. Oldest(Touched(m2, n, j)) = len + 1
      BY <2>1, <3>2, OldestIsUnique, Zenon
    <3>4. MapAt(m2, n)[j] = e.old
      BY <1>3, <2>4, <3>2, <3>3
    <3> QED
      BY <2>3, <2>7, <3>4
  <2> QED
    BY <2>5, <2>6, <2>7
<1>8. \A n \in 0..len : DOMAIN MapAt(m2, n) = K /\ DOMAIN MapAt(m, n) = K
  BY <1>1, <1>4 DEF MapAt
<1>9. \A n \in 0..len : MapAt(m2, n) = MapAt(m, n)
  BY <1>7, <1>8 DEF MapAt
<1> QED
  BY <1>3, <1>5, <1>6, <1>9 DEF MapGrows

LEMMA MapGrowsReflexive ==
  ASSUME NEW K, NEW V, NEW m \in JournaledMap(K, V)
  PROVE  MapGrows(m, m)
<1>1. Len(m.old_entries) \in Nat
  BY LenProperties DEF JournaledMap
<1> QED
  BY <1>1 DEF MapGrows

LEMMA MapGrowsTransitive ==
  ASSUME NEW K, NEW V, NEW m \in JournaledMap(K, V), NEW m2 \in JournaledMap(K, V),
         NEW m3 \in JournaledMap(K, V), MapGrows(m, m2), MapGrows(m2, m3)
  PROVE  MapGrows(m, m3)
<1>1. /\ Len(m.old_entries) \in Nat /\ Len(m2.old_entries) \in Nat
      /\ Len(m3.old_entries) \in Nat
  BY LenProperties DEF JournaledMap
<1> QED
  BY <1>1 DEF MapGrows

\* add_flags is an insertion of more flags, or nothing.
LEMMA AddFlagsGrows ==
  ASSUME NEW K, NEW F, NEW m \in JournaledMap(K, SUBSET F),
         NEW k \in K, NEW flags \in SUBSET F
  PROVE  /\ AddFlags(m, k, flags) \in JournaledMap(K, SUBSET F)
         /\ MapGrows(m, AddFlags(m, k, flags))
<1>1. m.map[k] \in (SUBSET F) \cup {None}
  BY DEF JournaledMap
<1>2. CASE AddsFlags(m, k, flags)
  <2> DEFINE v == IF m.map[k] = None THEN flags ELSE m.map[k] \cup flags
  <2>1. v \in SUBSET F
    BY <1>1
  <2>2. AddFlags(m, k, flags) = MapInsert(m, k, v)
    BY <1>2 DEF AddFlags
  <2> QED
    BY <2>1, <2>2, InsertGrows
<1>3. CASE ~AddsFlags(m, k, flags)
  BY <1>3, MapGrowsReflexive DEF AddFlags
<1> QED
  BY <1>2, <1>3

-----------------------------------------------------------------------------
(* Undoing *)

\* Undoing to p restores what p remembers and leaves the snapshots before p as
\* they were: nested snapshots can be undone one after the other.
LEMMA RollbackKeepsEarlier ==
  ASSUME NEW K, NEW V, NEW m \in JournaledMap(K, V), NEW p \in 0..Len(m.old_entries)
  PROVE  /\ MapRollback(m, p) \in JournaledMap(K, V)
         /\ Len(MapRollback(m, p).old_entries) = p
         /\ \A n \in 0..p : MapAt(MapRollback(m, p), n) = MapAt(m, n)
<1> DEFINE Entries == [key : K, old : V \cup {None}]
           m2 == MapRollback(m, p)
           len == Len(m.old_entries)
<1>1. m.map \in [K -> V \cup {None}] /\ m.old_entries \in Seq(Entries) /\ len \in Nat
  BY LenProperties DEF JournaledMap
<1>2. \A i \in 1..p : m.old_entries[i] \in Entries
  <2>1. \A i \in 1..p : i \in 1..len
    BY <1>1
  <2> QED
    BY <1>1, <2>1, ElementOfSeq, Zenon
<1>3. /\ m2.old_entries \in Seq(Entries)
      /\ Len(m2.old_entries) = p
      /\ \A i \in 1..p : m2.old_entries[i] = m.old_entries[i]
  <2>1. m2.old_entries = SubSeq(m.old_entries, 1, p)
    BY DEF MapRollback
  <2>2. 1 \in Int /\ p \in Int
    BY <1>1
  <2> QED
    BY <1>1, <1>2, <2>1, <2>2, SubSeqProperties
<1>4. m2.map = MapAt(m, p) /\ m2.map \in [K -> V \cup {None}]
  BY <1>1, MapAtType DEF MapRollback
<1>5. m2 \in JournaledMap(K, V)
  BY <1>3, <1>4 DEF JournaledMap, MapRollback
<1>6. ASSUME NEW n \in 0..p, NEW j \in K
      PROVE  MapAt(m2, n)[j] = MapAt(m, n)[j]
  <2>1. /\ Touched(m, n, j) \subseteq Nat /\ Touched(m2, n, j) \subseteq Nat
        /\ Touched(m, p, j) \subseteq Nat
    BY <1>1, <1>3, <1>6 DEF Touched
  <2>2. Touched(m, n, j) = Touched(m2, n, j) \cup Touched(m, p, j)
    BY <1>1, <1>3, <1>6 DEF Touched
  <2>3. \A x \in Touched(m2, n, j), y \in Touched(m, p, j) : x <= y
    BY <1>1, <1>3, <1>6 DEF Touched
  <2>4. MapAt(m, n)[j] = IF Touched(m, n, j) = {} THEN m.map[j]
                         ELSE m.old_entries[Oldest(Touched(m, n, j))].old
    BY <1>1 DEF MapAt
  <2>5. MapAt(m2, n)[j] = IF Touched(m2, n, j) = {} THEN m2.map[j]
                          ELSE m2.old_entries[Oldest(Touched(m2, n, j))].old
    BY <1>4 DEF MapAt
  <2>6. m2.map[j] = IF Touched(m, p, j) = {} THEN m.map[j]
                    ELSE m.old_entries[Oldest(Touched(m, p, j))].old
    BY <1>1, <1>4 DEF MapAt
  <2>7. CASE Touched(m2, n, j) # {}
    <3> DEFINE i == Oldest(Touched(m2, n, j))
    <3>1. i \in Touched(m2, n, j) /\ \A x \in Touched(m2, n, j) : i <= x
      BY <2>1, <2>7, OldestIsFirst
    <3>2. i \in 1..p
      BY <1>3, <1>6, <3>1 DEF Touched
    <3>4. i \in Touched(m, n, j) /\ \A x \in Touched(m, n, j) : i <= x
      BY <2>2, <2>3, <3>1
    <3>3. Oldest(Touched(m, n, j)) = i
      BY <2>1, <3>4, OldestIsUnique, Zenon
    <3> QED
      BY <1>3, <2>2, <2>4, <2>5, <2>7, <3>2, <3>3
  <2>8. CASE Touched(m2, n, j) = {}
    <3>1. Touched(m, n, j) = Touched(m, p, j)
      BY <2>2, <2>8
    <3> QED
      BY <2>4, <2>5, <2>6, <2>8, <3>1
  <2> QED
    BY <2>7, <2>8
<1>7. \A n \in 0..p : DOMAIN MapAt(m2, n) = K /\ DOMAIN MapAt(m, n) = K
  BY <1>1, <1>4 DEF MapAt
<1>8. \A n \in 0..p : MapAt(m2, n) = MapAt(m, n)
  BY <1>6, <1>7 DEF MapAt
<1> QED
  BY <1>3, <1>5, <1>8
-----------------------------------------------------------------------------
(* Logs *)

LogGrows(log, log2) ==
  /\ Len(log) <= Len(log2)
  /\ \A n \in 0..Len(log) : LogRollback(log2, n) = LogRollback(log, n)

\* Truncating a log at n keeps its first n entries.
LEMMA LogRollbackPrefix ==
  ASSUME NEW T, NEW log \in Seq(T), NEW n \in Nat
  PROVE  /\ LogRollback(log, n) \in Seq(T)
         /\ Len(LogRollback(log, n)) = IF n < Len(log) THEN n ELSE Len(log)
         /\ \A i \in 1..Len(LogRollback(log, n)) : LogRollback(log, n)[i] = log[i]
<1>1. Len(log) \in Nat
  BY LenProperties
<1>2. CASE n < Len(log)
  <2>1. \A i \in 1..n : log[i] \in T
    <3>1. \A i \in 1..n : i \in 1..Len(log)
      BY <1>1, <1>2
    <3> QED
      BY <3>1, ElementOfSeq, Zenon
  <2>2. 1 \in Int /\ n \in Int
    OBVIOUS
  <2>3. LogRollback(log, n) = SubSeq(log, 1, n)
    BY <1>2 DEF LogRollback
  <2> QED
    BY <1>1, <1>2, <2>1, <2>2, <2>3, SubSeqProperties
<1>3. CASE ~(n < Len(log))
  BY <1>3 DEF LogRollback
<1> QED
  BY <1>2, <1>3

\* Truncating at the current length changes nothing.
LEMMA LogRollbackNow ==
  ASSUME NEW T, NEW log \in Seq(T)
  PROVE  LogRollback(log, Len(log)) = log
<1>1. Len(log) \in Nat
  BY LenProperties
<1> QED
  BY <1>1 DEF LogRollback

\* Two logs with a common prefix agree on every truncation within it.
LEMMA SamePrefixSameRollback ==
  ASSUME NEW T, NEW log \in Seq(T), NEW log2 \in Seq(T), NEW n \in Nat,
         n <= Len(log), n <= Len(log2), \A i \in 1..n : log[i] = log2[i]
  PROVE  LogRollback(log2, n) = LogRollback(log, n)
<1>1. Len(log) \in Nat /\ Len(log2) \in Nat
  BY LenProperties
<1>2. /\ LogRollback(log, n) \in Seq(T) /\ Len(LogRollback(log, n)) = n
      /\ \A i \in 1..n : LogRollback(log, n)[i] = log[i]
  BY <1>1, LogRollbackPrefix
<1>3. /\ LogRollback(log2, n) \in Seq(T) /\ Len(LogRollback(log2, n)) = n
      /\ \A i \in 1..n : LogRollback(log2, n)[i] = log2[i]
  BY <1>1, LogRollbackPrefix
<1> QED
  BY <1>2, <1>3, SeqEqual

LEMMA LogGrowsReflexive ==
  ASSUME NEW T, NEW log \in Seq(T)
  PROVE  LogGrows(log, log)
<1>1. Len(log) \in Nat
  BY LenProperties
<1> QED
  BY <1>1 DEF LogGrows

LEMMA ConcatGrows ==
  ASSUME NEW T, NEW log \in Seq(T), NEW more \in Seq(T)
  PROVE  /\ log \o more \in Seq(T)
         /\ LogGrows(log, log \o more)
<1>1. /\ log \o more \in Seq(T)
      /\ Len(log \o more) = Len(log) + Len(more)
      /\ \A i \in 1..Len(log) + Len(more) :
           (log \o more)[i] = IF i <= Len(log) THEN log[i] ELSE more[i - Len(log)]
  BY ConcatProperties
<1>2. Len(log) \in Nat /\ Len(more) \in Nat
  BY LenProperties
<1>3. ASSUME NEW n \in 0..Len(log)
      PROVE  LogRollback(log \o more, n) = LogRollback(log, n)
  <2>1. n \in Nat /\ n <= Len(log) /\ n <= Len(log \o more)
    BY <1>1, <1>2
  <2>2. \A i \in 1..n : log[i] = (log \o more)[i]
    BY <1>1, <1>2
  <2> QED
    BY <1>1, <2>1, <2>2, SamePrefixSameRollback
<1> QED
  BY <1>1, <1>2, <1>3 DEF LogGrows

LEMMA AppendGrows ==
  ASSUME NEW T, NEW log \in Seq(T), NEW x \in T
  PROVE  /\ Append(log, x) \in Seq(T)
         /\ Len(Append(log, x)) = Len(log) + 1
         /\ LogGrows(log, Append(log, x))
<1>1. Append(log, x) = log \o << x >> /\ << x >> \in Seq(T)
  BY AppendIsConcat
<1> QED
  BY <1>1, ConcatGrows, AppendProperties

\* Truncating twice is truncating at the earlier point.
LEMMA LogRollbackKeepsEarlier ==
  ASSUME NEW T, NEW log \in Seq(T), NEW p \in 0..Len(log)
  PROVE  /\ LogRollback(log, p) \in Seq(T)
         /\ Len(LogRollback(log, p)) = p
         /\ \A n \in 0..p : LogRollback(LogRollback(log, p), n) = LogRollback(log, n)
<1>1. Len(log) \in Nat /\ p \in Nat
  BY LenProperties
<1>2. /\ LogRollback(log, p) \in Seq(T) /\ Len(LogRollback(log, p)) = p
      /\ \A i \in 1..p : LogRollback(log, p)[i] = log[i]
  BY <1>1, LogRollbackPrefix
<1>3. ASSUME NEW n \in 0..p
      PROVE  LogRollback(LogRollback(log, p), n) = LogRollback(log, n)
  <2>1. n \in Nat /\ n <= Len(log) /\ n <= p
    BY <1>1
  <2>2. \A i \in 1..n : log[i] = LogRollback(log, p)[i]
    BY <1>1, <1>2
  <2> QED
    BY <1>2, <2>1, <2>2, SamePrefixSameRollback
<1> QED
  BY <1>2, <1>3

-----------------------------------------------------------------------------
(* Sets *)

SetGrows(s, s2) ==
  /\ Len(s.old_entries) <= Len(s2.old_entries)
  /\ \A n \in 0..Len(s.old_entries) : SetAt(s2, n) = SetAt(s, n)

LEMMA SetAtNow ==
  ASSUME NEW K, NEW s \in JournaledSet(K)
  PROVE  SetAt(s, Len(s.old_entries)) = s.map
<1>1. Len(s.old_entries) \in Nat
  BY LenProperties DEF JournaledSet
<1> QED
  BY <1>1 DEF SetAt

LEMMA SetGrowsReflexive ==
  ASSUME NEW K, NEW s \in JournaledSet(K)
  PROVE  SetGrows(s, s)
<1>1. Len(s.old_entries) \in Nat
  BY LenProperties DEF JournaledSet
<1> QED
  BY <1>1 DEF SetGrows

\* Only a key that was absent is journaled, so undoing removes nothing else.
LEMMA SetAddGrows ==
  ASSUME NEW K, NEW s \in JournaledSet(K), NEW k \in K
  PROVE  /\ SetAdd(s, k) \in JournaledSet(K)
         /\ SetGrows(s, SetAdd(s, k))
<1>1. s.map \subseteq K /\ s.old_entries \in Seq(K) /\ Len(s.old_entries) \in Nat
  BY LenProperties DEF JournaledSet
<1>2. CASE k \in s.map
  BY <1>2, SetGrowsReflexive DEF SetAdd
<1>3. CASE k \notin s.map
  <2> DEFINE s2 == SetAdd(s, k)
             len == Len(s.old_entries)
  <2>1. /\ s2.map = s.map \cup {k}
        /\ s2.old_entries \in Seq(K) /\ Len(s2.old_entries) = len + 1
        /\ \A i \in 1..len : s2.old_entries[i] = s.old_entries[i]
        /\ s2.old_entries[len + 1] = k
    BY <1>1, <1>3, AppendProperties DEF SetAdd
  <2>2. s2 \in JournaledSet(K)
    BY <1>1, <1>3, <2>1 DEF JournaledSet, SetAdd
  <2>3. ASSUME NEW n \in 0..len
        PROVE  SetAt(s2, n) = SetAt(s, n)
    <3>1. {s2.old_entries[i] : i \in (n + 1)..(len + 1)}
            = {s.old_entries[i] : i \in (n + 1)..len} \cup {k}
      <4>1. \A i \in (n + 1)..(len + 1) : i \in 1..len \/ i = len + 1
        BY <1>1
      <4>2. \A i \in (n + 1)..len : i \in 1..len /\ i \in (n + 1)..(len + 1)
        BY <1>1
      <4>3. len + 1 \in (n + 1)..(len + 1)
        BY <1>1
      <4>4. \A i \in (n + 1)..(len + 1) : i # len + 1 => i \in (n + 1)..len
        BY <1>1
      <4> QED
        BY <2>1, <4>1, <4>2, <4>3, <4>4
    <3> QED
      BY <1>3, <2>1, <3>1 DEF SetAt
  <2> QED
    BY <1>1, <2>1, <2>2, <2>3 DEF SetGrows
<1> QED
  BY <1>2, <1>3

LEMMA SetRollbackType ==
  ASSUME NEW K, NEW s \in JournaledSet(K), NEW p \in 0..Len(s.old_entries)
  PROVE  /\ SetRollback(s, p) \in JournaledSet(K)
         /\ SetRollback(s, p).map = SetAt(s, p)
<1>1. s.map \subseteq K /\ s.old_entries \in Seq(K) /\ Len(s.old_entries) \in Nat
  BY LenProperties DEF JournaledSet
<1>2. \A i \in 1..p : s.old_entries[i] \in K
  <2>1. \A i \in 1..p : i \in 1..Len(s.old_entries)
    BY <1>1
  <2> QED
    BY <1>1, <2>1, ElementOfSeq, Zenon
<1>3. SubSeq(s.old_entries, 1, p) \in Seq(K)
  <2>1. 1 \in Int /\ p \in Int
    BY <1>1
  <2> QED
    BY <1>2, <2>1, SubSeqProperties
<1>4. SetAt(s, p) \subseteq K
  BY <1>1 DEF SetAt
<1> QED
  BY <1>3, <1>4 DEF SetRollback, JournaledSet

-----------------------------------------------------------------------------
(* Forgetting a journal *)

\* delete_history keeps the contents and leaves an empty journal.
LEMMA MapDeleteHistoryType ==
  ASSUME NEW K, NEW V, NEW m \in JournaledMap(K, V)
  PROVE  /\ MapDeleteHistory(m) \in JournaledMap(K, V)
         /\ MapDeleteHistory(m).map = m.map
         /\ MapDeleteHistory(m).old_entries = << >>
  BY DEF JournaledMap, MapDeleteHistory

LEMMA SetDeleteHistoryType ==
  ASSUME NEW K, NEW s \in JournaledSet(K)
  PROVE  /\ SetDeleteHistory(s) \in JournaledSet(K)
         /\ SetDeleteHistory(s).map = s.map
         /\ SetDeleteHistory(s).old_entries = << >>
  BY DEF JournaledSet, SetDeleteHistory

LEMMA EmptyMapType ==
  ASSUME NEW K, NEW V
  PROVE  EmptyMap(K) \in JournaledMap(K, V) /\ EmptyMap(K).old_entries = << >>
  BY DEF EmptyMap, JournaledMap

-----------------------------------------------------------------------------
(* Types of what the actions compute *)

LEMMA SnapshotType ==
  ASSUME TypeOK
  PROVE  /\ Snapshot \in Snapshots
         /\ Len(storage_logs) \in Nat
         /\ Len(rollback_storage_logs) \in Nat
<1>1. /\ Len(storage_writes.old_entries) \in Nat
      /\ Len(transient_storage_changes.old_entries) \in Nat
  BY LenProperties DEF TypeOK, JournaledMap
<1>2. /\ Len(events) \in Nat /\ Len(l2_to_l1_logs) \in Nat
      /\ Len(storage_logs) \in Nat /\ Len(rollback_storage_logs) \in Nat
  BY LenProperties DEF TypeOK
<1> QED
  BY <1>1, <1>2 DEF TypeOK, Snapshot, Snapshots, MapSnapshot

LEMMA CurrentValueType ==
  ASSUME TypeOK, NEW k \in Keys
  PROVE  CurrentValue(k) \in Values
<1>1. storage_writes.map[k] \in WriteEntries \cup {None}
  BY DEF TypeOK, JournaledMap
<1>2. InitialValue[k] \in Values
  BY SlotAssumption
<1> QED
  BY <1>1, <1>2 DEF CurrentValue, WriteEntries

LEMMA PaidType ==
  ASSUME TypeOK, NEW k \in Keys
  PROVE  Paid(storage_writes.map[k]) \in Nat
<1>1. storage_writes.map[k] \in WriteEntries \cup {None}
  BY DEF TypeOK, JournaledMap
<1> QED
  BY <1>1 DEF Paid, WriteEntries

LEMMA LogType ==
  ASSUME TypeOK, NEW k \in Keys, NEW v \in Values, NEW w \in Values,
         NEW rw \in BOOLEAN
  PROVE  Log(k, v, w, rw) \in LogQueries
  BY SnapshotType DEF Log, LogQueries

LEMMA CacheType ==
  ASSUME TypeOK, NEW k \in Keys, CacheInitialValue(k)
  PROVE  storage_initial_values' \in [Keys -> Values \cup {None}]
<1>1. InitialValue[k] \in Values
  BY SlotAssumption
<1> QED
  BY <1>1 DEF CacheInitialValue, TypeOK

LEMMA RefundTypes ==
  /\ WARM_READ_REFUND \in Nat
  /\ WARM_WRITE_REFUND \in Nat
  /\ COLD_WRITE_AFTER_WARM_READ_REFUND \in Nat
  BY CostAssumption DEF WARM_READ_REFUND, WARM_WRITE_REFUND,
                        COLD_WRITE_AFTER_WARM_READ_REFUND

\* Two rounds of flags on one slot, as the accesses set them.
LEMMA AddFlagsType ==
  ASSUME NEW m \in JournaledMap(Keys, SUBSET SlotFlags), NEW k \in Keys,
         NEW f \in SUBSET SlotFlags, NEW g \in SUBSET SlotFlags
  PROVE  /\ AddFlags(m, k, f) \in JournaledMap(Keys, SUBSET SlotFlags)
         /\ AddFlags(AddFlags(m, k, f), k, g) \in JournaledMap(Keys, SUBSET SlotFlags)
<1>1. AddFlags(m, k, f) \in JournaledMap(Keys, SUBSET SlotFlags)
  BY AddFlagsGrows
<1>2. AddFlags(AddFlags(m, k, f), k, g) \in JournaledMap(Keys, SUBSET SlotFlags)
  BY <1>1, AddFlagsGrows
<1> QED
  BY <1>1, <1>2

LEMMA FlagSets ==
  /\ {SLOT_READ} \in SUBSET SlotFlags
  /\ {SLOT_WRITTEN} \in SUBSET SlotFlags
  /\ {SLOT_PROTECTIVE_READ} \in SUBSET SlotFlags
  BY DEF SlotFlags

LEMMA ReadStorageInnerType ==
  ASSUME TypeOK, NEW k \in Keys, ReadStorageInner(k)
  PROVE  /\ pubdata_costs' \in Seq(Int)
         /\ slot_flags' \in JournaledMap(Keys, SUBSET SlotFlags)
         /\ storage_logs' \in Seq(LogQueries)
         /\ rollback_storage_logs' \in Seq(LogQueries)
         /\ storage_initial_values' \in [Keys -> Values \cup {None}]
         /\ skip_storage_logs' \in BOOLEAN
<1>1. pubdata_costs' \in Seq(Int)
  <2>1. pubdata_costs' = Append(pubdata_costs, 0) /\ pubdata_costs \in Seq(Int)
    BY DEF ReadStorageInner, TypeOK
  <2> QED
    BY <2>1
<1>2. slot_flags' \in JournaledMap(Keys, SUBSET SlotFlags)
  <2>1. slot_flags \in JournaledMap(Keys, SUBSET SlotFlags)
    BY DEF TypeOK
  <2>2. \/ slot_flags' = AddFlags(slot_flags, k, {SLOT_READ})
        \/ slot_flags' = AddFlags(AddFlags(slot_flags, k, {SLOT_READ}),
                                  k, {SLOT_PROTECTIVE_READ})
    BY DEF ReadStorageInner
  <2> QED
    BY <2>1, <2>2, FlagSets, AddFlagsType
<1>3. storage_logs' \in Seq(LogQueries)
  <2>1. Log(k, CurrentValue(k), CurrentValue(k), FALSE) \in LogQueries
    BY CurrentValueType, LogType
  <2>2. storage_logs \in Seq(LogQueries)
    BY DEF TypeOK
  <2>3. \/ storage_logs' =
             Append(storage_logs, Log(k, CurrentValue(k), CurrentValue(k), FALSE))
        \/ storage_logs' = storage_logs
    BY DEF ReadStorageInner
  <2>4. Append(storage_logs, Log(k, CurrentValue(k), CurrentValue(k), FALSE))
          \in Seq(LogQueries)
    BY <2>1, <2>2, AppendProperties
  <2> QED
    BY <2>2, <2>3, <2>4
<1>4. storage_initial_values' \in [Keys -> Values \cup {None}]
  <2>1. CacheInitialValue(k) \/ storage_initial_values' = storage_initial_values
    BY DEF ReadStorageInner
  <2> QED
    BY <2>1, CacheType DEF TypeOK
<1>5. rollback_storage_logs' \in Seq(LogQueries) /\ skip_storage_logs' \in BOOLEAN
  BY DEF ReadStorageInner, TypeOK
<1> QED
  BY <1>1, <1>2, <1>3, <1>4, <1>5

LEMMA RecordWriteType ==
  ASSUME TypeOK, NEW k \in Keys, NEW v \in Values, RecordWrite(k, v)
  PROVE  /\ storage_logs' \in Seq(LogQueries)
         /\ rollback_storage_logs' \in Seq(LogQueries)
<1> DEFINE log == Log(k, CurrentValue(k), v, TRUE)
<1>1. log \in LogQueries
  BY CurrentValueType, LogType
<1>2. [log EXCEPT !.rollback = TRUE] \in LogQueries
  BY <1>1 DEF LogQueries
<1>3. storage_logs \in Seq(LogQueries) /\ rollback_storage_logs \in Seq(LogQueries)
  BY DEF TypeOK
<1>4. \/ storage_logs' = storage_logs /\ rollback_storage_logs' = rollback_storage_logs
      \/ /\ storage_logs' = Append(storage_logs, log)
         /\ rollback_storage_logs' =
              Append(rollback_storage_logs, [log EXCEPT !.rollback = TRUE])
  BY DEF RecordWrite, trace
<1>5. /\ Append(storage_logs, log) \in Seq(LogQueries)
      /\ Append(rollback_storage_logs, [log EXCEPT !.rollback = TRUE]) \in Seq(LogQueries)
  BY <1>1, <1>2, <1>3, AppendProperties
<1> QED
  BY <1>3, <1>4, <1>5

\* What a failing frame or the host restores is of the right type again.
LEMMA RollbackToType ==
  ASSUME TypeOK, NEW s \in Snapshots, CanRollbackTo(s)
  PROVE  /\ MapRollback(storage_writes, s.storage_writes)
              \in JournaledMap(Keys, WriteEntries)
         /\ MapRollback(transient_storage_changes, s.transient_storage_changes)
              \in JournaledMap(TransientKeys, Values)
         /\ LogRollback(events, s.events) \in Seq(Messages)
         /\ LogRollback(l2_to_l1_logs, s.l2_to_l1_logs) \in Seq(Messages)
         /\ s.pubdata \in Int
<1>1. /\ s.storage_writes \in Nat /\ s.transient_storage_changes \in Nat
      /\ s.events \in Nat /\ s.l2_to_l1_logs \in Nat /\ s.pubdata \in Int
  BY DEF Snapshots
<1>2. /\ storage_writes \in JournaledMap(Keys, WriteEntries)
      /\ transient_storage_changes \in JournaledMap(TransientKeys, Values)
      /\ events \in Seq(Messages) /\ l2_to_l1_logs \in Seq(Messages)
  BY DEF TypeOK
<1>3. /\ Len(storage_writes.old_entries) \in Nat
      /\ Len(transient_storage_changes.old_entries) \in Nat
  BY <1>2, LenProperties DEF JournaledMap
<1>4. /\ s.storage_writes \in 0..Len(storage_writes.old_entries)
      /\ s.transient_storage_changes
           \in 0..Len(transient_storage_changes.old_entries)
  BY <1>1, <1>3 DEF CanRollbackTo, CanRollback
<1>5. MapRollback(storage_writes, s.storage_writes) \in JournaledMap(Keys, WriteEntries)
  BY <1>2, <1>4, RollbackKeepsEarlier
<1>6. MapRollback(transient_storage_changes, s.transient_storage_changes)
        \in JournaledMap(TransientKeys, Values)
  BY <1>2, <1>4, RollbackKeepsEarlier
<1>7. /\ LogRollback(events, s.events) \in Seq(Messages)
      /\ LogRollback(l2_to_l1_logs, s.l2_to_l1_logs) \in Seq(Messages)
  BY <1>1, <1>2, LogRollbackPrefix
<1> QED
  BY <1>1, <1>5, <1>6, <1>7

LEMMA MaterializeType ==
  ASSUME TypeOK, NEW h \in Hashes, NEW p \in Pages, MaterializeDecommitPage(h, p)
  PROVE  /\ decommitted_hashes' \in JournaledMap(Hashes, DecommitStates)
         /\ decommit_pinned_pages' \in JournaledSet(Pages)
<1>1. /\ decommitted_hashes \in JournaledMap(Hashes, DecommitStates)
      /\ decommit_pinned_pages \in JournaledSet(Pages)
  BY DEF TypeOK
<1>2. CASE IsSucceeded(h)
  BY <1>1, <1>2 DEF MaterializeDecommitPage, decommits
<1>3. CASE ~IsSucceeded(h)
  <2>1. /\ decommitted_hashes' = MapInsert(decommitted_hashes, h, Succeeded(p))
        /\ decommit_pinned_pages' = SetAdd(decommit_pinned_pages, p)
    BY <1>3 DEF MaterializeDecommitPage
  <2>2. Succeeded(p) \in DecommitStates
    BY DEF DecommitStates
  <2> QED
    BY <1>1, <2>1, <2>2, InsertGrows, SetAddGrows
<1> QED
  BY <1>2, <1>3

LEMMA FailToPayType ==
  ASSUME TypeOK, NEW h \in Hashes, FailToPayForDecommit(h)
  PROVE  /\ decommitted_hashes' \in JournaledMap(Hashes, DecommitStates)
         /\ decommit_pinned_pages' \in JournaledSet(Pages)
<1>1. Unsuccessful \in DecommitStates
  BY DEF DecommitStates
<1>2. /\ decommitted_hashes' = MapInsert(decommitted_hashes, h, Unsuccessful)
      /\ decommit_pinned_pages' = decommit_pinned_pages
  BY DEF FailToPayForDecommit
<1> QED
  BY <1>1, <1>2, InsertGrows DEF TypeOK

-----------------------------------------------------------------------------
(* Every step preserves the types *)

LEMMA ReadStorageTypeOK ==
  ASSUME TypeOK, NEW k \in Keys, ReadStorage(k)
  PROVE  TypeOK'
<1>1. storage_refunds' \in Seq(Nat)
  <2>1. ReadRefund(k) \in Nat
    BY RefundTypes DEF ReadRefund
  <2>2. storage_refunds' = Append(storage_refunds, ReadRefund(k))
    BY DEF ReadStorage
  <2> QED
    BY <2>1, <2>2, AppendProperties DEF TypeOK
<1>2. ReadStorageInner(k)
  BY DEF ReadStorage
<1>3. UNCHANGED << rolled_back, decommits, control >>
  BY DEF ReadStorage
<1> QED
  BY <1>1, <1>2, <1>3, ReadStorageInnerType
     DEF TypeOK, rolled_back, decommits, control

LEMMA WriteFreeStorageTypeOK ==
  ASSUME TypeOK, NEW k \in Keys, NEW v \in Values, WriteFreeStorage(k, v)
  PROVE  TypeOK'
<1>1. storage_logs' \in Seq(LogQueries) /\ rollback_storage_logs' \in Seq(LogQueries)
  BY RecordWriteType DEF WriteFreeStorage
<1>2. storage_initial_values' \in [Keys -> Values \cup {None}]
  BY CacheType DEF WriteFreeStorage
<1>3. storage_writes' \in JournaledMap(Keys, WriteEntries)
  <2>1. [value |-> v, paid |-> Paid(storage_writes.map[k])] \in WriteEntries
    BY PaidType DEF WriteEntries
  <2>2. storage_writes' = MapInsert(storage_writes, k,
                            [value |-> v, paid |-> Paid(storage_writes.map[k])])
    BY DEF WriteFreeStorage
  <2> QED
    BY <2>1, <2>2, InsertGrows DEF TypeOK
<1>4. slot_flags' \in JournaledMap(Keys, SUBSET SlotFlags)
  BY FlagSets, AddFlagsType DEF WriteFreeStorage, TypeOK
<1>5. storage_refunds' \in Seq(Nat) /\ pubdata_costs' \in Seq(Int)
  <2>1. /\ storage_refunds' = Append(storage_refunds, WARM_WRITE_REFUND)
        /\ pubdata_costs' = Append(pubdata_costs, 0)
        /\ storage_refunds \in Seq(Nat) /\ pubdata_costs \in Seq(Int)
    BY DEF WriteFreeStorage, TypeOK
  <2> QED
    BY <2>1, RefundTypes, AppendProperties
<1>6. UNCHANGED << transient_storage_changes, events, l2_to_l1_logs, pubdata,
                   decommits, skip_storage_logs, control >>
  BY DEF WriteFreeStorage
<1> QED
  BY <1>1, <1>2, <1>3, <1>4, <1>5, <1>6 DEF TypeOK, decommits, control

LEMMA WriteStorageTypeOK ==
  ASSUME TypeOK, NEW k \in Keys, NEW v \in Values, WriteStorage(k, v)
  PROVE  TypeOK'
<1>1. storage_logs' \in Seq(LogQueries) /\ rollback_storage_logs' \in Seq(LogQueries)
  BY RecordWriteType DEF WriteStorage
<1>2. storage_initial_values' \in [Keys -> Values \cup {None}]
  BY CacheType DEF WriteStorage
<1>3. WriteCost[k][v] \in Nat /\ Paid(storage_writes.map[k]) \in Nat
  BY SlotAssumption, PaidType
<1>4. storage_writes' \in JournaledMap(Keys, WriteEntries)
  <2>1. [value |-> v, paid |-> WriteCost[k][v]] \in WriteEntries
    BY <1>3 DEF WriteEntries
  <2>2. storage_writes' =
          MapInsert(storage_writes, k, [value |-> v, paid |-> WriteCost[k][v]])
    BY DEF WriteStorage
  <2> QED
    BY <2>1, <2>2, InsertGrows DEF TypeOK
<1>5. slot_flags' \in JournaledMap(Keys, SUBSET SlotFlags)
  <2>1. \/ slot_flags' = AddFlags(slot_flags, k, {SLOT_WRITTEN})
        \/ slot_flags' = AddFlags(AddFlags(slot_flags, k, {SLOT_WRITTEN}),
                                  k, {SLOT_READ})
    BY DEF WriteStorage
  <2>2. slot_flags \in JournaledMap(Keys, SUBSET SlotFlags)
    BY DEF TypeOK
  <2> QED
    BY <2>1, <2>2, FlagSets, AddFlagsType
<1>6. storage_refunds' \in Seq(Nat)
  <2>1. WriteRefund(k) \in Nat
    BY RefundTypes DEF WriteRefund
  <2>2. storage_refunds' = Append(storage_refunds, WriteRefund(k))
    BY DEF WriteStorage
  <2> QED
    BY <2>1, <2>2, AppendProperties DEF TypeOK
<1>7. pubdata' \in Int /\ pubdata_costs' \in Seq(Int)
  <2> DEFINE cost == WriteCost[k][v] - Paid(storage_writes.map[k])
  <2>1. pubdata' = pubdata + cost /\ pubdata_costs' = Append(pubdata_costs, cost)
    BY DEF WriteStorage
  <2>2. cost \in Int /\ pubdata \in Int /\ pubdata_costs \in Seq(Int)
    BY <1>3 DEF TypeOK
  <2> QED
    BY <2>1, <2>2, AppendProperties
<1>8. UNCHANGED << transient_storage_changes, events, l2_to_l1_logs,
                   decommits, skip_storage_logs, control >>
  BY DEF WriteStorage
<1> QED
  BY <1>1, <1>2, <1>4, <1>5, <1>6, <1>7, <1>8 DEF TypeOK, decommits, control

LEMMA TransientStepTypeOK ==
  ASSUME TypeOK, TransientStep
  PROVE  TypeOK'
<1>1. PICK k \in TransientKeys :
        ReadTransientStorage(k) \/ \E v \in Values : WriteTransientStorage(k, v)
  BY DEF TransientStep
<1>2. ASSUME pubdata_costs' = Append(pubdata_costs, 0)
      PROVE  pubdata_costs' \in Seq(Int)
  BY <1>2, AppendProperties DEF TypeOK
<1>3. CASE ReadTransientStorage(k)
  BY <1>2, <1>3 DEF ReadTransientStorage, TypeOK, rolled_back, trace, decommits,
                    slots, control
<1>4. ASSUME NEW v \in Values, WriteTransientStorage(k, v)
      PROVE  TypeOK'
  <2>1. transient_storage_changes' \in JournaledMap(TransientKeys, Values)
    BY <1>4, InsertGrows DEF WriteTransientStorage, TypeOK
  <2> QED
    BY <1>2, <1>4, <2>1 DEF WriteTransientStorage, TypeOK, trace, decommits,
                            slots, control
<1> QED
  BY <1>1, <1>3, <1>4

LEMMA MessageStepTypeOK ==
  ASSUME TypeOK, MessageStep
  PROVE  TypeOK'
<1>1. ASSUME NEW m \in Messages, RecordEvent(m)
      PROVE  TypeOK'
  <2>1. events' \in Seq(Messages)
    BY <1>1, AppendProperties DEF RecordEvent, TypeOK
  <2> QED
    BY <1>1, <2>1 DEF RecordEvent, TypeOK, charges, trace, decommits, slots, control
<1>2. ASSUME NEW m \in Messages, RecordL2ToL1Log(m)
      PROVE  TypeOK'
  <2>1. l2_to_l1_logs' \in Seq(Messages)
    BY <1>2, AppendProperties DEF RecordL2ToL1Log, TypeOK
  <2> QED
    BY <1>2, <2>1 DEF RecordL2ToL1Log, TypeOK, charges, trace, decommits, slots, control
<1>3. ASSUME NEW d \in PubdataExtras, ChargePubdata(d)
      PROVE  TypeOK'
  <2>1. pubdata' \in Int
    BY <1>3, CostAssumption DEF ChargePubdata, TypeOK
  <2> QED
    BY <1>3, <2>1 DEF ChargePubdata, TypeOK, charges, trace, decommits, slots, control
<1> QED
  BY <1>1, <1>2, <1>3 DEF MessageStep

LEMMA DecommitStepTypeOK ==
  ASSUME TypeOK, DecommitStep
  PROVE  TypeOK'
<1>1. PICK h \in Hashes, p \in Pages : DecommitOpcode(h, p)
  BY DEF DecommitStep
<1>2. MaterializeDecommitPage(h, p)
  BY <1>1 DEF DecommitOpcode
<1>3. UNCHANGED << rolled_back, charges, trace, slots, control >>
  BY <1>1 DEF DecommitOpcode
<1> QED
  BY <1>2, <1>3, MaterializeType DEF TypeOK, rolled_back, charges, trace, slots, control

LEMMA FrameType ==
  ASSUME TypeOK, NEW kind \in {"near", "far"}, NEW n \in Nat
  PROVE  Frame(kind, n) \in Frames
  BY SnapshotType DEF Frame, Frames, Snapshots

LEMMA PoppedType ==
  ASSUME TypeOK, frames # << >>
  PROVE  /\ Top \in Frames
         /\ Top.world_before_this_frame \in Snapshots
         /\ Popped \in Seq(Frames)
         /\ Len(frames) \in Nat \ {0}
         /\ Len(Popped) = Len(frames) - 1
         /\ \A i \in 1..Len(Popped) : Popped[i] = frames[i]
<1>1. frames \in Seq(Frames)
  BY DEF TypeOK
<1>2. Len(frames) \in Nat \ {0}
  BY <1>1, EmptySeq
<1>3. Top \in Frames
  BY <1>1, <1>2, ElementOfSeq DEF Top
<1>4. Top.world_before_this_frame \in Snapshots
  BY <1>3 DEF Frames
<1>5. Len(frames) - 1 \in Nat /\ Len(frames) - 1 < Len(frames)
  BY <1>2
<1>6. Popped = LogRollback(frames, Len(frames) - 1)
  BY <1>5 DEF Popped, LogRollback
<1>7. /\ Popped \in Seq(Frames)
      /\ Len(Popped) = Len(frames) - 1
      /\ \A i \in 1..Len(Popped) : Popped[i] = frames[i]
  BY <1>1, <1>5, <1>6, LogRollbackPrefix
<1> QED
  BY <1>2, <1>3, <1>4, <1>7

LEMMA AppendRollbackLogsType ==
  ASSUME TypeOK, NEW s \in Snapshots, AppendRollbackLogs(s)
  PROVE  /\ storage_logs' \in Seq(LogQueries)
         /\ rollback_storage_logs' \in Seq(LogQueries)
         /\ LogGrows(storage_logs, storage_logs')
<1> DEFINE n == s.rollback_storage_logs_len
           undone == SubSeq(rollback_storage_logs, n + 1, Len(rollback_storage_logs))
<1>1. /\ n \in Nat
      /\ rollback_storage_logs \in Seq(LogQueries) /\ storage_logs \in Seq(LogQueries)
      /\ Len(rollback_storage_logs) \in Nat
  BY LenProperties DEF Snapshots, TypeOK
<1>2. undone \in Seq(LogQueries)
  <2>1. \A i \in (n + 1)..Len(rollback_storage_logs) :
          i \in 1..Len(rollback_storage_logs)
    BY <1>1
  <2>2. \A i \in (n + 1)..Len(rollback_storage_logs) :
          rollback_storage_logs[i] \in LogQueries
    BY <1>1, <2>1, ElementOfSeq, Zenon
  <2>3. n + 1 \in Int /\ Len(rollback_storage_logs) \in Int
    BY <1>1
  <2> QED
    BY <2>2, <2>3, SubSeqProperties
<1>3. ReverseSeq(undone) \in Seq(LogQueries)
  <2>1. Len(undone) \in Nat
    BY <1>2, LenProperties
  <2> HIDE DEF undone
  <2>2. \A i \in 1..Len(undone) : Len(undone) + 1 - i \in 1..Len(undone)
    BY <2>1
  <2>3. \A i \in 1..Len(undone) : undone[Len(undone) + 1 - i] \in LogQueries
    BY <1>2, <2>2, ElementOfSeq, Zenon
  <2> QED
    BY <2>1, <2>3 DEF ReverseSeq
<1>4. /\ storage_logs' = storage_logs \o ReverseSeq(undone)
      /\ rollback_storage_logs' = LogRollback(rollback_storage_logs, n)
  BY DEF AppendRollbackLogs
<1>5. /\ storage_logs \o ReverseSeq(undone) \in Seq(LogQueries)
      /\ LogGrows(storage_logs, storage_logs \o ReverseSeq(undone))
  BY <1>1, <1>3, ConcatGrows
<1>6. LogRollback(rollback_storage_logs, n) \in Seq(LogQueries)
  BY <1>1, LogRollbackPrefix
<1> QED
  BY <1>4, <1>5, <1>6

LEMMA NearCallTypeOK ==
  ASSUME TypeOK, NearCall
  PROVE  TypeOK'
<1>1. frames' \in Seq(Frames)
  <2>1. Frame("near", Len(storage_logs)) \in Frames
    BY FrameType, SnapshotType
  <2> QED
    BY <2>1, AppendProperties DEF NearCall, TypeOK
<1> QED
  BY <1>1 DEF NearCall, TypeOK, rolled_back, charges, trace, decommits, slots

LEMMA FarCallTypeOK ==
  ASSUME TypeOK, FarCall
  PROVE  TypeOK'
<1>1. /\ pubdata_costs' \in Seq(Int)
      /\ slot_flags' \in JournaledMap(Keys, SUBSET SlotFlags)
      /\ storage_logs' \in Seq(LogQueries)
      /\ rollback_storage_logs' \in Seq(LogQueries)
      /\ storage_initial_values' \in [Keys -> Values \cup {None}]
      /\ skip_storage_logs' \in BOOLEAN
      /\ decommitted_hashes' \in JournaledMap(Hashes, DecommitStates)
      /\ decommit_pinned_pages' \in JournaledSet(Pages)
  <2>1. CASE UNCHANGED << pubdata_costs, trace, decommits, slots >>
    BY <2>1 DEF TypeOK, trace, decommits, slots
  <2>2. ASSUME NEW k \in Keys, FarCallDecommit(k)
        PROVE  /\ decommitted_hashes' \in JournaledMap(Hashes, DecommitStates)
               /\ decommit_pinned_pages' \in JournaledSet(Pages)
    <3>1. CASE UNCHANGED decommits
      BY <3>1 DEF TypeOK, decommits
    <3>2. CASE \E h \in Hashes : FailToPayForDecommit(h)
      BY <3>2, FailToPayType
    <3>3. CASE \E h \in Hashes, p \in Pages \ decommit_pinned_pages.map :
                 MaterializeDecommitPage(h, p)
      BY <3>3, MaterializeType
    <3> QED
      BY <2>2, <3>1, <3>2, <3>3 DEF FarCallDecommit
  <2>3. ASSUME NEW k \in Keys, FarCallDecommit(k)
        PROVE  ReadStorageInner(k)
    BY <2>3 DEF FarCallDecommit
  <2> QED
    BY <2>1, <2>2, <2>3, ReadStorageInnerType DEF FarCall
<1>2. frames' \in Seq(Frames)
  <2>1. Len(storage_logs') \in Nat
    BY <1>1, LenProperties
  <2>2. Frame("far", Len(storage_logs')) \in Frames
    BY <2>1, FrameType
  <2> QED
    BY <2>2, AppendProperties DEF FarCall, TypeOK
<1>3. UNCHANGED << rolled_back, storage_refunds, snapshot >>
  BY DEF FarCall
<1> QED
  BY <1>1, <1>2, <1>3 DEF TypeOK, rolled_back

LEMMA ReturnTypeOK ==
  ASSUME TypeOK, ReturnOk \/ ReturnFailed
  PROVE  TypeOK'
<1>1. CASE ReturnOk
  BY <1>1, PoppedType
     DEF ReturnOk, TypeOK, rolled_back, charges, trace, decommits, slots
<1>2. CASE ReturnFailed
  <2> DEFINE s == Top.world_before_this_frame
  <2>1. /\ s \in Snapshots /\ CanRollbackTo(s) /\ AppendRollbackLogs(s)
        /\ RollbackTo(s) /\ frames' \in Seq(Frames)
        /\ UNCHANGED << charges, decommits, slots, snapshot >>
    BY <1>2, PoppedType DEF ReturnFailed
  <2> HIDE DEF s
  <2>2. storage_logs' \in Seq(LogQueries) /\ rollback_storage_logs' \in Seq(LogQueries)
    BY <2>1, AppendRollbackLogsType
  <2>3. /\ storage_writes' \in JournaledMap(Keys, WriteEntries)
        /\ transient_storage_changes' \in JournaledMap(TransientKeys, Values)
        /\ events' \in Seq(Messages) /\ l2_to_l1_logs' \in Seq(Messages)
        /\ pubdata' \in Int
    BY <2>1, RollbackToType DEF RollbackTo
  <2> QED
    BY <2>1, <2>2, <2>3 DEF TypeOK, charges, decommits, slots
<1> QED
  BY <1>1, <1>2

LEMMA ExternalSnapshotType ==
  ASSUME TypeOK
  PROVE  ExternalSnapshot \in ExternalSnapshots
<1>1. /\ Len(decommitted_hashes.old_entries) \in Nat
      /\ Len(slot_flags.old_entries) \in Nat
  BY LenProperties DEF TypeOK, JournaledMap
<1>2. Len(decommit_pinned_pages.old_entries) \in Nat
  BY LenProperties DEF TypeOK, JournaledSet
<1>3. Len(storage_refunds) \in Nat /\ Len(pubdata_costs) \in Nat
  BY LenProperties DEF TypeOK
<1>4. [Snapshot EXCEPT !.transient_storage_changes = 0] \in Snapshots
  BY SnapshotType DEF Snapshots
<1>5. frames \in Seq(Frames)
  BY DEF TypeOK
<1> QED
  BY <1>1, <1>2, <1>3, <1>4, <1>5 DEF ExternalSnapshot, ExternalSnapshots, MapSnapshot

LEMMA MakeSnapshotTypeOK ==
  ASSUME TypeOK, MakeSnapshot
  PROVE  TypeOK'
<1>1. snapshot' \in Seq(ExternalSnapshots) /\ Len(snapshot') <= 1
  BY ExternalSnapshotType DEF MakeSnapshot
<1> QED
  BY <1>1 DEF MakeSnapshot, TypeOK, rolled_back, charges, trace, decommits, slots

LEMMA PopSnapshotTypeOK ==
  ASSUME TypeOK, PopSnapshot
  PROVE  TypeOK'
<1>1. snapshot' \in Seq(ExternalSnapshots) /\ Len(snapshot') <= 1
  BY EmptySeq DEF PopSnapshot
<1>2. /\ storage_writes' \in JournaledMap(Keys, WriteEntries)
      /\ transient_storage_changes' \in JournaledMap(TransientKeys, Values)
      /\ decommitted_hashes' \in JournaledMap(Hashes, DecommitStates)
      /\ decommit_pinned_pages' \in JournaledSet(Pages)
      /\ slot_flags' \in JournaledMap(Keys, SUBSET SlotFlags)
  BY MapDeleteHistoryType, SetDeleteHistoryType DEF PopSnapshot, TypeOK
<1>3. UNCHANGED << events, l2_to_l1_logs, pubdata, charges, trace,
                   storage_initial_values, skip_storage_logs, frames >>
  BY DEF PopSnapshot
<1> QED
  BY <1>1, <1>2, <1>3 DEF TypeOK, charges, trace

LEMMA StartNewTxTypeOK ==
  ASSUME TypeOK, StartNewTx
  PROVE  TypeOK'
<1>1. transient_storage_changes' \in JournaledMap(TransientKeys, Values)
  BY EmptyMapType DEF StartNewTx
<1> QED
  BY <1>1 DEF StartNewTx, TypeOK, charges, trace, decommits, slots, control

LEMMA HostRollbackTypeOK ==
  ASSUME TypeOK, HostRollback
  PROVE  TypeOK'
<1> DEFINE s == snapshot[1]
           i == s.internal_snapshot
<1>1. s \in ExternalSnapshots
  <2>1. snapshot \in Seq(ExternalSnapshots) /\ snapshot # << >>
    BY DEF HostRollback, TypeOK
  <2>2. 1 \in 1..Len(snapshot)
    BY <2>1, EmptySeq
  <2> QED
    BY <2>1, <2>2, ElementOfSeq
<1>2. i \in Snapshots
  BY <1>1 DEF ExternalSnapshots
<1>3. /\ s.decommitted_hashes \in Nat /\ s.decommit_pinned_pages \in Nat
      /\ s.slot_flags \in Nat /\ s.storage_refunds \in Nat /\ s.pubdata_costs \in Nat
      /\ s.near_calls \in Seq(Frames)
  BY <1>1 DEF ExternalSnapshots
<1>4. /\ CanRollbackTo(i)
      /\ CanRollback(decommitted_hashes, s.decommitted_hashes)
      /\ CanRollback(decommit_pinned_pages, s.decommit_pinned_pages)
      /\ CanRollback(slot_flags, s.slot_flags)
  BY DEF HostRollback, CanRollbackExternally
<1>5. /\ storage_writes' =
           MapDeleteHistory(MapRollback(storage_writes, i.storage_writes))
      /\ events' = LogRollback(events, i.events)
      /\ l2_to_l1_logs' = LogRollback(l2_to_l1_logs, i.l2_to_l1_logs)
      /\ transient_storage_changes' = MapDeleteHistory(
           MapRollback(transient_storage_changes, i.transient_storage_changes))
      /\ pubdata' = i.pubdata
      /\ storage_refunds' = LogRollback(storage_refunds, s.storage_refunds)
      /\ pubdata_costs' = LogRollback(pubdata_costs, s.pubdata_costs)
      /\ decommitted_hashes' =
           MapDeleteHistory(MapRollback(decommitted_hashes, s.decommitted_hashes))
      /\ decommit_pinned_pages' =
           SetDeleteHistory(SetRollback(decommit_pinned_pages, s.decommit_pinned_pages))
      /\ slot_flags' = MapDeleteHistory(MapRollback(slot_flags, s.slot_flags))
      /\ storage_logs' = LogRollback(storage_logs, i.storage_logs_len)
      /\ rollback_storage_logs' =
           LogRollback(rollback_storage_logs, i.rollback_storage_logs_len)
      /\ frames' = s.near_calls
      /\ snapshot' = << >>
      /\ UNCHANGED << storage_initial_values, skip_storage_logs >>
  BY DEF HostRollback
<1> HIDE DEF s, i
<1>6. /\ storage_writes' \in JournaledMap(Keys, WriteEntries)
      /\ transient_storage_changes' \in JournaledMap(TransientKeys, Values)
      /\ events' \in Seq(Messages) /\ l2_to_l1_logs' \in Seq(Messages)
      /\ pubdata' \in Int
  BY <1>2, <1>4, <1>5, RollbackToType, MapDeleteHistoryType
<1>7. decommitted_hashes' \in JournaledMap(Hashes, DecommitStates)
  <2>1. /\ decommitted_hashes \in JournaledMap(Hashes, DecommitStates)
        /\ Len(decommitted_hashes.old_entries) \in Nat
    BY LenProperties DEF TypeOK, JournaledMap
  <2>2. s.decommitted_hashes \in 0..Len(decommitted_hashes.old_entries)
    BY <1>3, <1>4, <2>1 DEF CanRollback
  <2> QED
    BY <1>5, <2>1, <2>2, RollbackKeepsEarlier, MapDeleteHistoryType
<1>8. decommit_pinned_pages' \in JournaledSet(Pages)
  <2>1. /\ decommit_pinned_pages \in JournaledSet(Pages)
        /\ Len(decommit_pinned_pages.old_entries) \in Nat
    BY LenProperties DEF TypeOK, JournaledSet
  <2>2. s.decommit_pinned_pages \in 0..Len(decommit_pinned_pages.old_entries)
    BY <1>3, <1>4, <2>1 DEF CanRollback
  <2> QED
    BY <1>5, <2>1, <2>2, SetRollbackType, SetDeleteHistoryType
<1>9. slot_flags' \in JournaledMap(Keys, SUBSET SlotFlags)
  <2>1. /\ slot_flags \in JournaledMap(Keys, SUBSET SlotFlags)
        /\ Len(slot_flags.old_entries) \in Nat
    BY LenProperties DEF TypeOK, JournaledMap
  <2>2. s.slot_flags \in 0..Len(slot_flags.old_entries)
    BY <1>3, <1>4, <2>1 DEF CanRollback
  <2> QED
    BY <1>5, <2>1, <2>2, RollbackKeepsEarlier, MapDeleteHistoryType
<1>10. storage_refunds' \in Seq(Nat) /\ pubdata_costs' \in Seq(Int)
  BY <1>3, <1>5, LogRollbackPrefix DEF TypeOK
<1>11. storage_logs' \in Seq(LogQueries) /\ rollback_storage_logs' \in Seq(LogQueries)
  <2>1. i.storage_logs_len \in Nat /\ i.rollback_storage_logs_len \in Nat
    BY <1>2 DEF Snapshots
  <2> QED
    BY <1>5, <2>1, LogRollbackPrefix DEF TypeOK
<1>12. snapshot' \in Seq(ExternalSnapshots) /\ Len(snapshot') <= 1
  BY <1>5, EmptySeq
<1> QED
  BY <1>3, <1>5, <1>6, <1>7, <1>8, <1>9, <1>10, <1>11, <1>12 DEF TypeOK

-----------------------------------------------------------------------------
LEMMA InitTypeOK ==
  ASSUME Init
  PROVE  TypeOK
<1>1. /\ storage_writes \in JournaledMap(Keys, WriteEntries)
      /\ transient_storage_changes \in JournaledMap(TransientKeys, Values)
      /\ decommitted_hashes \in JournaledMap(Hashes, DecommitStates)
      /\ slot_flags \in JournaledMap(Keys, SUBSET SlotFlags)
  BY EmptyMapType DEF Init
<1>2. decommit_pinned_pages \in JournaledSet(Pages)
  BY EmptySeq DEF Init, EmptySet, JournaledSet
<1>3. /\ events \in Seq(Messages) /\ l2_to_l1_logs \in Seq(Messages)
      /\ storage_refunds \in Seq(Nat) /\ pubdata_costs \in Seq(Int)
      /\ storage_logs \in Seq(LogQueries) /\ rollback_storage_logs \in Seq(LogQueries)
      /\ frames \in Seq(Frames)
      /\ snapshot \in Seq(ExternalSnapshots) /\ Len(snapshot) <= 1
  BY EmptySeq DEF Init
<1>4. /\ pubdata \in Int
      /\ storage_initial_values \in [Keys -> Values \cup {None}]
      /\ skip_storage_logs \in BOOLEAN
  BY DEF Init
<1> QED
  BY <1>1, <1>2, <1>3, <1>4 DEF TypeOK

LEMMA NextTypeOK ==
  ASSUME TypeOK, [Next]_vars
  PROVE  TypeOK'
<1>1. CASE StorageStep
  BY <1>1, ReadStorageTypeOK, WriteFreeStorageTypeOK, WriteStorageTypeOK
     DEF StorageStep
<1>2. CASE TransientStep
  BY <1>2, TransientStepTypeOK
<1>3. CASE MessageStep
  BY <1>3, MessageStepTypeOK
<1>4. CASE DecommitStep
  BY <1>4, DecommitStepTypeOK
<1>5. CASE CallStep
  BY <1>5, NearCallTypeOK, FarCallTypeOK, ReturnTypeOK DEF CallStep
<1>6. CASE HostStep
  BY <1>6, MakeSnapshotTypeOK, HostRollbackTypeOK, PopSnapshotTypeOK, StartNewTxTypeOK
     DEF HostStep
<1>7. CASE UNCHANGED vars
  BY <1>7 DEF vars, TypeOK, rolled_back, charges, trace, decommits, slots, control
<1> QED
  BY <1>1, <1>2, <1>3, <1>4, <1>5, <1>6, <1>7 DEF Next

\* Every journal keeps its shape, refunds never go below zero and the host holds
\* at most one snapshot, whatever the instance (the types of WorldDiff, Snapshot
\* and ExternalSnapshot in world_diff.rs).
THEOREM TypeInvariant == Spec => []TypeOK
<1>1. Init => TypeOK
  BY InitTypeOK
<1>2. TypeOK /\ [Next]_vars => TypeOK'
  BY NextTypeOK
<1> QED
  BY <1>1, <1>2, PTL DEF Spec

-----------------------------------------------------------------------------
(* Initial values are cached. *)

\* A slot that the map or its journal names
Names(m, k) == m.map[k] # None \/ Touched(m, 0, k) # {}

LEMMA InsertNames ==
  ASSUME NEW K, NEW V, NEW m \in JournaledMap(K, V), NEW k \in K, NEW v, NEW j \in K,
         Names(MapInsert(m, k, v), j)
  PROVE  j = k \/ Names(m, j)
<1> DEFINE new == MapInsert(m, k, v)
           n == Len(m.old_entries)
<1>1. /\ m.old_entries \in Seq([key : K, old : V \cup {None}]) /\ n \in Nat
      /\ m.map \in [K -> V \cup {None}]
  BY LenProperties DEF JournaledMap
<1>2. /\ new.map = [m.map EXCEPT ![k] = v]
      /\ new.old_entries = Append(m.old_entries, [key |-> k, old |-> m.map[k]])
  BY DEF MapInsert
<1>3. /\ Len(new.old_entries) = n + 1
      /\ \A i \in 1..n : new.old_entries[i] = m.old_entries[i]
      /\ new.old_entries[n + 1] = [key |-> k, old |-> m.map[k]]
  BY <1>1, <1>2
<1> HIDE DEF new, n
<1>4. ASSUME j # k
      PROVE  Names(m, j)
  <2>1. CASE new.map[j] # None
    BY <1>1, <1>2, <1>4, <2>1 DEF Names
  <2>2. CASE Touched(new, 0, j) # {}
    <3>1. PICK i \in 1..(n + 1) : new.old_entries[i].key = j
      BY <1>3, <2>2 DEF Touched
    <3>2. i # n + 1
      BY <1>3, <1>4, <3>1
    <3>3. i \in 1..n /\ m.old_entries[i].key = j
      BY <1>1, <1>3, <3>1, <3>2
    <3> QED
      BY <3>3 DEF Names, Touched, n
  <2> QED
    BY <2>1, <2>2 DEF Names, new
<1> QED
  BY <1>4

LEMMA RollbackNames ==
  ASSUME NEW K, NEW V, NEW m \in JournaledMap(K, V), NEW n \in 0..Len(m.old_entries),
         NEW j \in K, Names(MapRollback(m, n), j)
  PROVE  Names(m, j)
<1> DEFINE old == MapRollback(m, n)
<1>1. /\ Len(m.old_entries) \in Nat /\ n \in Nat /\ DOMAIN m.map = K
      /\ m.old_entries \in Seq([key : K, old : V \cup {None}])
  BY LenProperties DEF JournaledMap
<1>2. old.map = MapAt(m, n) /\ old.old_entries = SubSeq(m.old_entries, 1, n)
  BY DEF MapRollback
<1>3. /\ Len(old.old_entries) = n
      /\ \A i \in 1..n : old.old_entries[i] = m.old_entries[i]
  BY <1>1, <1>2, SubSeqProperties
<1> HIDE DEF old
<1>4. CASE old.map[j] # None
  <2>1. CASE Touched(m, n, j) = {}
    BY <1>1, <1>2, <1>4, <2>1 DEF MapAt, Names
  <2>2. CASE Touched(m, n, j) # {}
    <3>1. Touched(m, n, j) \subseteq Touched(m, 0, j)
      BY <1>1 DEF Touched
    <3> QED
      BY <2>2, <3>1 DEF Names
  <2> QED
    BY <2>1, <2>2
<1>5. CASE Touched(old, 0, j) # {}
  <2>1. PICK i \in 1..n : old.old_entries[i].key = j
    BY <1>3, <1>5 DEF Touched
  <2>2. i \in 1..Len(m.old_entries) /\ m.old_entries[i].key = j
    BY <1>1, <1>3, <2>1
  <2> QED
    BY <2>2 DEF Names, Touched
<1> QED
  BY <1>4, <1>5 DEF Names, old

LEMMA DeleteHistoryNames ==
  ASSUME NEW m, NEW j, Names(MapDeleteHistory(m), j)
  PROVE  Names(m, j)
  BY DEF Names, Touched, MapDeleteHistory

LEMMA CachedIs ==
  WrittenSlotsAreCached <=>
    /\ \A k \in Keys : Names(storage_writes, k) => storage_initial_values[k] # None
    /\ \A k \in Keys : storage_initial_values[k] \in {None, InitialValue[k]}
  BY DEF WrittenSlotsAreCached, Names

\* What filling the cache does to it
LEMMA CacheFills ==
  ASSUME TypeOK, WrittenSlotsAreCached, NEW k \in Keys, CacheInitialValue(k)
  PROVE  /\ storage_initial_values'[k] # None
         /\ \A j \in Keys :
              /\ storage_initial_values[j] # None => storage_initial_values'[j] # None
              /\ storage_initial_values'[j] \in {None, InitialValue[j]}
<1>1. InitialValue[k] # None
  BY SlotAssumption
<1>2. storage_initial_values \in [Keys -> Values \cup {None}]
  BY DEF TypeOK
<1>3. storage_initial_values' =
        [storage_initial_values EXCEPT
           ![k] = IF storage_initial_values[k] = None THEN InitialValue[k]
                  ELSE storage_initial_values[k]]
  BY DEF CacheInitialValue
<1>4. \A j \in Keys : storage_initial_values[j] \in {None, InitialValue[j]}
  BY DEF WrittenSlotsAreCached
<1> QED
  BY <1>1, <1>2, <1>3, <1>4

\* A step that names no other slot than it caches
LEMMA CachingStep ==
  ASSUME TypeOK, WrittenSlotsAreCached,
         \A j \in Keys : Names(storage_writes, j)' =>
           Names(storage_writes, j) \/ storage_initial_values'[j] # None,
         \/ UNCHANGED storage_initial_values
         \/ \E k \in Keys : CacheInitialValue(k)
  PROVE  WrittenSlotsAreCached'
<1>1. \A j \in Keys :
        /\ storage_initial_values[j] # None => storage_initial_values'[j] # None
        /\ storage_initial_values'[j] \in {None, InitialValue[j]}
  BY CacheFills, CachedIs
<1>2. \A j \in Keys : Names(storage_writes, j) => storage_initial_values[j] # None
  BY CachedIs
<1> QED
  BY <1>1, <1>2 DEF WrittenSlotsAreCached, Names, Touched

LEMMA StorageStepCaches ==
  ASSUME TypeOK, WrittenSlotsAreCached, StorageStep
  PROVE  WrittenSlotsAreCached'
<1>1. PICK k \in Keys :
        \/ ReadStorage(k)
        \/ \E v \in Values : WriteFreeStorage(k, v) \/ WriteStorage(k, v)
  BY DEF StorageStep
<1>2. CASE ReadStorage(k)
  <2>1. storage_writes' = storage_writes
    BY <1>2 DEF ReadStorage, rolled_back
  <2>2. UNCHANGED storage_initial_values \/ CacheInitialValue(k)
    BY <1>2 DEF ReadStorage, ReadStorageInner
  <2>3. \A j \in Keys : Names(storage_writes, j)' => Names(storage_writes, j)
    BY <2>1 DEF Names, Touched
  <2> QED
    BY <2>2, <2>3, CachingStep
<1>3. ASSUME NEW v \in Values, WriteFreeStorage(k, v) \/ WriteStorage(k, v)
      PROVE  WrittenSlotsAreCached'
  <2>1. CacheInitialValue(k) /\ \E e : storage_writes' = MapInsert(storage_writes, k, e)
    BY <1>3 DEF WriteFreeStorage, WriteStorage
  <2>2. PICK e : storage_writes' = MapInsert(storage_writes, k, e)
    BY <2>1
  <2>3. ASSUME NEW j \in Keys, Names(storage_writes, j)'
        PROVE  Names(storage_writes, j) \/ storage_initial_values'[j] # None
    <3>1. storage_writes \in JournaledMap(Keys, WriteEntries)
      BY DEF TypeOK
    <3>2. Names(MapInsert(storage_writes, k, e), j)
      BY <2>2, <2>3 DEF Names, Touched
    <3>3. j = k \/ Names(storage_writes, j)
      BY <3>1, <3>2, InsertNames
    <3> QED
      BY <2>1, <3>3, CacheFills
  <2> QED
    BY <2>1, <2>3, CachingStep
<1> QED
  BY <1>1, <1>2, <1>3

\* A step that changes writes by undoing or forgetting only
LEMMA UndoingStep ==
  ASSUME TypeOK, WrittenSlotsAreCached, UNCHANGED storage_initial_values,
         NEW n \in Nat, n <= Len(storage_writes.old_entries),
         \/ storage_writes' = storage_writes
         \/ storage_writes' = MapRollback(storage_writes, n)
         \/ storage_writes' = MapDeleteHistory(storage_writes)
         \/ storage_writes' = MapDeleteHistory(MapRollback(storage_writes, n))
  PROVE  WrittenSlotsAreCached'
<1> SUFFICES ASSUME NEW j \in Keys, Names(storage_writes, j)'
             PROVE  Names(storage_writes, j)
  BY CachingStep
<1>1. storage_writes \in JournaledMap(Keys, WriteEntries)
  BY DEF TypeOK
<1>2. n \in 0..Len(storage_writes.old_entries)
  BY <1>1, LenProperties DEF JournaledMap
<1>3. Names(MapRollback(storage_writes, n), j) => Names(storage_writes, j)
  BY <1>1, <1>2, RollbackNames
<1>4. Names(MapDeleteHistory(storage_writes), j) => Names(storage_writes, j)
  BY DeleteHistoryNames
<1>5. Names(MapDeleteHistory(MapRollback(storage_writes, n)), j)
        => Names(MapRollback(storage_writes, n), j)
  BY DeleteHistoryNames
<1>6. \E m \in {storage_writes, MapRollback(storage_writes, n),
                MapDeleteHistory(storage_writes),
                MapDeleteHistory(MapRollback(storage_writes, n))} :
        storage_writes' = m /\ Names(m, j)
  BY DEF Names, Touched
<1> QED
  BY <1>3, <1>4, <1>5, <1>6

LEMMA CallStepCaches ==
  ASSUME TypeOK, WrittenSlotsAreCached, CallStep
  PROVE  WrittenSlotsAreCached'
<1>1. CASE NearCall \/ ReturnOk
  <2>1. UNCHANGED << storage_writes, storage_initial_values >>
    BY <1>1 DEF NearCall, ReturnOk, rolled_back, slots
  <2> QED
    BY <2>1 DEF WrittenSlotsAreCached, Touched
<1>2. CASE FarCall
  <2>1. UNCHANGED storage_writes
    BY <1>2 DEF FarCall, rolled_back
  <2>2. \/ UNCHANGED storage_initial_values
        \/ \E k \in Keys : CacheInitialValue(k)
    BY <1>2 DEF FarCall, FarCallDecommit, ReadStorageInner, slots
  <2>3. \A j \in Keys : Names(storage_writes, j)' => Names(storage_writes, j)
    BY <2>1 DEF Names, Touched
  <2> QED
    BY <2>2, <2>3, CachingStep
<1>3. CASE ReturnFailed
  <2> DEFINE s == Top.world_before_this_frame
  <2>1. /\ s.storage_writes <= Len(storage_writes.old_entries)
        /\ storage_writes' = MapRollback(storage_writes, s.storage_writes)
        /\ UNCHANGED storage_initial_values
    BY <1>3 DEF ReturnFailed, CanRollbackTo, CanRollback, RollbackTo, slots
  <2>2. s.storage_writes \in Nat
    <3>1. s \in Snapshots
      BY <1>3, PoppedType DEF ReturnFailed
    <3> QED
      BY <3>1 DEF Snapshots
  <2> HIDE DEF s
  <2> QED
    BY <2>1, <2>2, UndoingStep
<1> QED
  BY <1>1, <1>2, <1>3 DEF CallStep

LEMMA HostStepCaches ==
  ASSUME TypeOK, WrittenSlotsAreCached, HostStep
  PROVE  WrittenSlotsAreCached'
<1>1. CASE MakeSnapshot \/ StartNewTx
  <2>1. UNCHANGED << storage_writes, storage_initial_values >>
    BY <1>1 DEF MakeSnapshot, StartNewTx, rolled_back, slots
  <2> QED
    BY <2>1 DEF WrittenSlotsAreCached, Touched
<1>2. CASE PopSnapshot
  <2>1. 0 \in Nat /\ 0 <= Len(storage_writes.old_entries)
    BY LenProperties DEF TypeOK, JournaledMap
  <2>2. /\ storage_writes' = MapDeleteHistory(storage_writes)
        /\ UNCHANGED storage_initial_values
    BY <1>2 DEF PopSnapshot
  <2> QED
    BY <2>1, <2>2, UndoingStep
<1>3. CASE HostRollback
  <2> DEFINE n == snapshot[1].internal_snapshot.storage_writes
  <2>1. /\ n <= Len(storage_writes.old_entries)
        /\ storage_writes' = MapDeleteHistory(MapRollback(storage_writes, n))
        /\ UNCHANGED storage_initial_values
    BY <1>3 DEF HostRollback, CanRollbackExternally, CanRollbackTo, CanRollback
  <2>2. n \in Nat
    <3>1. snapshot # << >> /\ snapshot \in Seq(ExternalSnapshots)
      BY <1>3 DEF HostRollback, TypeOK
    <3>2. snapshot[1] \in ExternalSnapshots
      BY <3>1
    <3> QED
      BY <3>2 DEF ExternalSnapshots, Snapshots
  <2> HIDE DEF n
  <2> QED
    BY <2>1, <2>2, UndoingStep
<1> QED
  BY <1>1, <1>2, <1>3 DEF HostStep

LEMMA NextCaches ==
  ASSUME TypeOK, WrittenSlotsAreCached, [Next]_vars
  PROVE  WrittenSlotsAreCached'
<1>1. CASE TransientStep \/ MessageStep \/ DecommitStep \/ UNCHANGED vars
  <2>1. UNCHANGED << storage_writes, storage_initial_values >>
    BY <1>1 DEF TransientStep, ReadTransientStorage, WriteTransientStorage, MessageStep,
         RecordEvent, RecordL2ToL1Log, ChargePubdata, DecommitStep, DecommitOpcode,
         vars, rolled_back, slots
  <2> QED
    BY <2>1 DEF WrittenSlotsAreCached, Touched
<1> QED
  BY <1>1, StorageStepCaches, CallStepCaches, HostStepCaches DEF Next

\* get_storage_changes and get_storage_changes_after index the cache of initial
\* values for every slot in the map and in its journal: whatever fails or is
\* rolled back, the value is there, and it is the one the world holds.
THEOREM InitialValuesAreCached == Spec => []WrittenSlotsAreCached
<1>1. Init => WrittenSlotsAreCached
  BY DEF Init, WrittenSlotsAreCached, EmptyMap, Touched
<1>2. TypeOK /\ WrittenSlotsAreCached /\ [Next]_vars => WrittenSlotsAreCached'
  BY NextCaches
<1> QED
  BY <1>1, <1>2, TypeInvariant, PTL DEF Spec

-----------------------------------------------------------------------------
(* Snapshots nest *)

\* The journals and logs only grew, as far as earlier snapshots can tell.
WorldGrows ==
  /\ MapGrows(storage_writes, storage_writes')
  /\ MapGrows(transient_storage_changes, transient_storage_changes')
  /\ LogGrows(events, events')
  /\ LogGrows(l2_to_l1_logs, l2_to_l1_logs')

LedgerGrows ==
  /\ MapGrows(slot_flags, slot_flags')
  /\ MapGrows(decommitted_hashes, decommitted_hashes')
  /\ SetGrows(decommit_pinned_pages, decommit_pinned_pages')
  /\ LogGrows(storage_refunds, storage_refunds')
  /\ LogGrows(pubdata_costs, pubdata_costs')

TraceGrows == LogGrows(storage_logs, storage_logs')

JournalsGrow == WorldGrows /\ LedgerGrows /\ TraceGrows

LEMMA WorldStays ==
  ASSUME TypeOK, UNCHANGED << storage_writes, transient_storage_changes, events,
                              l2_to_l1_logs >>
  PROVE  WorldGrows
  BY MapGrowsReflexive, LogGrowsReflexive DEF TypeOK, WorldGrows

LEMMA LedgerStays ==
  ASSUME TypeOK, UNCHANGED << slot_flags, decommits, charges >>
  PROVE  LedgerGrows
  BY MapGrowsReflexive, SetGrowsReflexive, LogGrowsReflexive
     DEF TypeOK, LedgerGrows, decommits, charges

LEMMA TraceStays ==
  ASSUME TypeOK, UNCHANGED storage_logs
  PROVE  TraceGrows
  BY LogGrowsReflexive DEF TypeOK, TraceGrows

\* What an access to a slot does to the ledger and the trace.
LEMMA ReadStorageInnerGrows ==
  ASSUME TypeOK, NEW k \in Keys, ReadStorageInner(k)
  PROVE  /\ MapGrows(slot_flags, slot_flags')
         /\ LogGrows(pubdata_costs, pubdata_costs')
         /\ TraceGrows
<1>1. slot_flags \in JournaledMap(Keys, SUBSET SlotFlags)
  BY DEF TypeOK
<1>2. MapGrows(slot_flags, slot_flags')
  <2> DEFINE read == AddFlags(slot_flags, k, {SLOT_READ})
             both == AddFlags(read, k, {SLOT_PROTECTIVE_READ})
  <2>1. slot_flags' = read \/ slot_flags' = both
    BY DEF ReadStorageInner
  <2>2. read \in JournaledMap(Keys, SUBSET SlotFlags) /\ MapGrows(slot_flags, read)
    BY <1>1, FlagSets, AddFlagsGrows
  <2>3. both \in JournaledMap(Keys, SUBSET SlotFlags) /\ MapGrows(read, both)
    BY <2>2, FlagSets, AddFlagsGrows
  <2>4. MapGrows(slot_flags, both)
    BY <1>1, <2>2, <2>3, MapGrowsTransitive
  <2> QED
    BY <2>1, <2>2, <2>4
<1>3. LogGrows(pubdata_costs, pubdata_costs')
  <2>1. pubdata_costs' = Append(pubdata_costs, 0) /\ pubdata_costs \in Seq(Int)
    BY DEF ReadStorageInner, TypeOK
  <2> QED
    BY <2>1, AppendGrows
<1>4. TraceGrows
  <2> DEFINE log == Log(k, CurrentValue(k), CurrentValue(k), FALSE)
  <2>1. storage_logs \in Seq(LogQueries) /\ log \in LogQueries
    BY CurrentValueType, LogType DEF TypeOK
  <2>2. storage_logs' = Append(storage_logs, log) \/ storage_logs' = storage_logs
    BY DEF ReadStorageInner
  <2>3. LogGrows(storage_logs, Append(storage_logs, log))
    BY <2>1, AppendGrows
  <2> QED
    BY <2>1, <2>2, <2>3, LogGrowsReflexive DEF TraceGrows
<1> QED
  BY <1>2, <1>3, <1>4

LEMMA WrittenFlagsGrow ==
  ASSUME TypeOK, NEW k \in Keys,
         \/ slot_flags' = AddFlags(slot_flags, k, {SLOT_WRITTEN})
         \/ slot_flags' = AddFlags(AddFlags(slot_flags, k, {SLOT_WRITTEN}),
                                   k, {SLOT_READ})
  PROVE  MapGrows(slot_flags, slot_flags')
<1> DEFINE written == AddFlags(slot_flags, k, {SLOT_WRITTEN})
           both == AddFlags(written, k, {SLOT_READ})
<1>1. slot_flags \in JournaledMap(Keys, SUBSET SlotFlags)
  BY DEF TypeOK
<1>2. written \in JournaledMap(Keys, SUBSET SlotFlags) /\ MapGrows(slot_flags, written)
  BY <1>1, FlagSets, AddFlagsGrows
<1>3. both \in JournaledMap(Keys, SUBSET SlotFlags) /\ MapGrows(written, both)
  BY <1>2, FlagSets, AddFlagsGrows
<1>4. MapGrows(slot_flags, both)
  BY <1>1, <1>2, <1>3, MapGrowsTransitive
<1> QED
  BY <1>2, <1>4

LEMMA RecordWriteGrows ==
  ASSUME TypeOK, NEW k \in Keys, NEW v \in Values, RecordWrite(k, v)
  PROVE  TraceGrows
<1> DEFINE log == Log(k, CurrentValue(k), v, TRUE)
<1>1. storage_logs \in Seq(LogQueries) /\ log \in LogQueries
  BY CurrentValueType, LogType DEF TypeOK
<1>2. storage_logs' = Append(storage_logs, log) \/ storage_logs' = storage_logs
  BY DEF RecordWrite, trace
<1>3. LogGrows(storage_logs, Append(storage_logs, log))
  BY <1>1, AppendGrows
<1> QED
  BY <1>1, <1>2, <1>3, LogGrowsReflexive DEF TraceGrows

LEMMA StorageStepGrows ==
  ASSUME TypeOK, StorageStep
  PROVE  JournalsGrow /\ UNCHANGED control
<1>1. PICK k \in Keys :
        \/ ReadStorage(k)
        \/ \E v \in Values : WriteFreeStorage(k, v) \/ WriteStorage(k, v)
  BY DEF StorageStep
<1>2. CASE ReadStorage(k)
  <2>1. ReadStorageInner(k) /\ UNCHANGED << rolled_back, decommits, control >>
    BY <1>2 DEF ReadStorage
  <2>2. LogGrows(storage_refunds, storage_refunds')
    <3>1. ReadRefund(k) \in Nat /\ storage_refunds \in Seq(Nat)
      BY RefundTypes DEF ReadRefund, TypeOK
    <3>2. storage_refunds' = Append(storage_refunds, ReadRefund(k))
      BY <1>2 DEF ReadStorage
    <3> QED
      BY <3>1, <3>2, AppendGrows
  <2>3. WorldGrows
    BY <2>1, WorldStays DEF rolled_back
  <2>4. /\ MapGrows(decommitted_hashes, decommitted_hashes')
        /\ SetGrows(decommit_pinned_pages, decommit_pinned_pages')
    BY <2>1, MapGrowsReflexive, SetGrowsReflexive DEF TypeOK, decommits
  <2> QED
    BY <2>1, <2>2, <2>3, <2>4, ReadStorageInnerGrows DEF JournalsGrow, LedgerGrows
<1>3. ASSUME NEW v \in Values, WriteFreeStorage(k, v) \/ WriteStorage(k, v)
      PROVE  JournalsGrow /\ UNCHANGED control
  <2>1. PICK paid \in Nat, refund \in Nat, cost \in Int :
          /\ storage_writes' = MapInsert(storage_writes, k, [value |-> v, paid |-> paid])
          /\ storage_refunds' = Append(storage_refunds, refund)
          /\ pubdata_costs' = Append(pubdata_costs, cost)
    <3>1. Paid(storage_writes.map[k]) \in Nat /\ WriteCost[k][v] \in Nat
      BY PaidType, SlotAssumption
    <3>2. CASE WriteFreeStorage(k, v)
      <4>1. WARM_WRITE_REFUND \in Nat /\ 0 \in Int
        BY RefundTypes
      <4> QED
        BY <3>1, <3>2, <4>1, Zenon DEF WriteFreeStorage
    <3>3. CASE WriteStorage(k, v)
      <4>1. WriteRefund(k) \in Nat
        BY RefundTypes DEF WriteRefund
      <4>2. WriteCost[k][v] - Paid(storage_writes.map[k]) \in Int
        BY <3>1
      <4> QED
        BY <3>1, <3>3, <4>1, <4>2, Zenon DEF WriteStorage
    <3> QED
      BY <1>3, <3>2, <3>3
  <2>2. MapGrows(storage_writes, storage_writes')
    <3>1. [value |-> v, paid |-> paid] \in WriteEntries
      BY <2>1 DEF WriteEntries
    <3> QED
      BY <2>1, <3>1, InsertGrows DEF TypeOK
  <2>3. /\ LogGrows(storage_refunds, storage_refunds')
        /\ LogGrows(pubdata_costs, pubdata_costs')
    BY <2>1, AppendGrows DEF TypeOK
  <2>4. MapGrows(slot_flags, slot_flags')
    BY <1>3, WrittenFlagsGrow DEF WriteFreeStorage, WriteStorage
  <2>5. TraceGrows
    BY <1>3, RecordWriteGrows DEF WriteFreeStorage, WriteStorage
  <2>6. UNCHANGED << transient_storage_changes, events, l2_to_l1_logs,
                     decommits, control >>
    BY <1>3 DEF WriteFreeStorage, WriteStorage
  <2>7. /\ MapGrows(transient_storage_changes, transient_storage_changes')
        /\ LogGrows(events, events') /\ LogGrows(l2_to_l1_logs, l2_to_l1_logs')
        /\ MapGrows(decommitted_hashes, decommitted_hashes')
        /\ SetGrows(decommit_pinned_pages, decommit_pinned_pages')
    BY <2>6, MapGrowsReflexive, SetGrowsReflexive, LogGrowsReflexive
       DEF TypeOK, decommits
  <2> QED
    BY <2>2, <2>3, <2>4, <2>5, <2>6, <2>7 DEF JournalsGrow, WorldGrows, LedgerGrows
<1> QED
  BY <1>1, <1>2, <1>3

LEMMA TransientStepGrows ==
  ASSUME TypeOK, TransientStep
  PROVE  JournalsGrow /\ UNCHANGED control
<1>1. PICK k \in TransientKeys :
        ReadTransientStorage(k) \/ \E v \in Values : WriteTransientStorage(k, v)
  BY DEF TransientStep
<1>2. /\ pubdata_costs' = Append(pubdata_costs, 0)
      /\ UNCHANGED << storage_writes, events, l2_to_l1_logs, storage_refunds,
                      trace, decommits, slots, control >>
  BY <1>1 DEF ReadTransientStorage, WriteTransientStorage, rolled_back
<1>3. MapGrows(transient_storage_changes, transient_storage_changes')
  BY <1>1, InsertGrows, MapGrowsReflexive
     DEF ReadTransientStorage, WriteTransientStorage, rolled_back, TypeOK
<1>4. LogGrows(pubdata_costs, pubdata_costs')
  BY <1>2, AppendGrows DEF TypeOK
<1>5. /\ MapGrows(storage_writes, storage_writes')
      /\ LogGrows(events, events') /\ LogGrows(l2_to_l1_logs, l2_to_l1_logs')
      /\ MapGrows(slot_flags, slot_flags')
      /\ MapGrows(decommitted_hashes, decommitted_hashes')
      /\ SetGrows(decommit_pinned_pages, decommit_pinned_pages')
      /\ LogGrows(storage_refunds, storage_refunds')
      /\ TraceGrows
  BY <1>2, MapGrowsReflexive, SetGrowsReflexive, LogGrowsReflexive
     DEF TypeOK, trace, decommits, slots, TraceGrows
<1> QED
  BY <1>2, <1>3, <1>4, <1>5 DEF JournalsGrow, WorldGrows, LedgerGrows

LEMMA MessageStepGrows ==
  ASSUME TypeOK, MessageStep
  PROVE  JournalsGrow /\ UNCHANGED control
<1>1. LogGrows(events, events')
  <2>1. events' = events \/ \E m \in Messages : events' = Append(events, m)
    BY DEF MessageStep, RecordEvent, RecordL2ToL1Log, ChargePubdata
  <2>2. events \in Seq(Messages)
    BY DEF TypeOK
  <2> QED
    BY <2>1, <2>2, AppendGrows, LogGrowsReflexive
<1>2. LogGrows(l2_to_l1_logs, l2_to_l1_logs')
  <2>1. l2_to_l1_logs' = l2_to_l1_logs \/ \E m \in Messages : l2_to_l1_logs' = Append(l2_to_l1_logs, m)
    BY DEF MessageStep, RecordEvent, RecordL2ToL1Log, ChargePubdata
  <2>2. l2_to_l1_logs \in Seq(Messages)
    BY DEF TypeOK
  <2> QED
    BY <2>1, <2>2, AppendGrows, LogGrowsReflexive
<1>3. UNCHANGED << storage_writes, transient_storage_changes, charges, trace,
                   decommits, slots, control >>
  BY DEF MessageStep, RecordEvent, RecordL2ToL1Log, ChargePubdata
<1>4. LedgerGrows
  BY <1>3, LedgerStays DEF slots
<1>5. TraceGrows
  BY <1>3, TraceStays DEF trace
<1>6. /\ MapGrows(storage_writes, storage_writes')
      /\ MapGrows(transient_storage_changes, transient_storage_changes')
  BY <1>3, MapGrowsReflexive DEF TypeOK
<1> QED
  BY <1>1, <1>2, <1>3, <1>4, <1>5, <1>6 DEF JournalsGrow, WorldGrows

LEMMA DecommitGrows ==
  ASSUME TypeOK, NEW h \in Hashes,
         \/ FailToPayForDecommit(h)
         \/ \E p \in Pages : MaterializeDecommitPage(h, p)
         \/ UNCHANGED decommits
  PROVE  /\ MapGrows(decommitted_hashes, decommitted_hashes')
         /\ SetGrows(decommit_pinned_pages, decommit_pinned_pages')
<1>1. /\ decommitted_hashes \in JournaledMap(Hashes, DecommitStates)
      /\ decommit_pinned_pages \in JournaledSet(Pages)
  BY DEF TypeOK
<1>2. CASE FailToPayForDecommit(h)
  <2>1. /\ decommitted_hashes' = MapInsert(decommitted_hashes, h, Unsuccessful)
        /\ decommit_pinned_pages' = decommit_pinned_pages
        /\ Unsuccessful \in DecommitStates
    BY <1>2 DEF FailToPayForDecommit, DecommitStates
  <2> QED
    BY <1>1, <2>1, InsertGrows, SetGrowsReflexive
<1>3. ASSUME NEW p \in Pages, MaterializeDecommitPage(h, p), ~IsSucceeded(h)
      PROVE  /\ MapGrows(decommitted_hashes, decommitted_hashes')
             /\ SetGrows(decommit_pinned_pages, decommit_pinned_pages')
  <2>1. /\ decommitted_hashes' = MapInsert(decommitted_hashes, h, Succeeded(p))
        /\ decommit_pinned_pages' = SetAdd(decommit_pinned_pages, p)
        /\ Succeeded(p) \in DecommitStates
    BY <1>3 DEF MaterializeDecommitPage, DecommitStates
  <2> QED
    BY <1>1, <2>1, InsertGrows, SetAddGrows
<1>4. CASE UNCHANGED decommits
  BY <1>1, <1>4, MapGrowsReflexive, SetGrowsReflexive DEF decommits
<1> QED
  BY <1>2, <1>3, <1>4 DEF MaterializeDecommitPage

LEMMA DecommitStepGrows ==
  ASSUME TypeOK, DecommitStep
  PROVE  JournalsGrow /\ UNCHANGED control
<1>1. PICK h \in Hashes, p \in Pages : DecommitOpcode(h, p)
  BY DEF DecommitStep
<1>2. /\ MaterializeDecommitPage(h, p)
      /\ UNCHANGED << rolled_back, charges, trace, slots, control >>
  BY <1>1 DEF DecommitOpcode
<1>3. /\ MapGrows(decommitted_hashes, decommitted_hashes')
      /\ SetGrows(decommit_pinned_pages, decommit_pinned_pages')
  BY <1>2, DecommitGrows
<1>4. /\ MapGrows(slot_flags, slot_flags')
      /\ LogGrows(storage_refunds, storage_refunds')
      /\ LogGrows(pubdata_costs, pubdata_costs')
      /\ TraceGrows
  BY <1>2, MapGrowsReflexive, LogGrowsReflexive DEF TypeOK, charges, trace, slots, TraceGrows
<1>5. WorldGrows
  BY <1>2, WorldStays DEF rolled_back
<1> QED
  BY <1>2, <1>3, <1>4, <1>5 DEF JournalsGrow, LedgerGrows

LEMMA NearCallGrows ==
  ASSUME TypeOK, NearCall
  PROVE  /\ JournalsGrow
         /\ frames' = Append(frames, Frame("near", Len(storage_logs)))
         /\ UNCHANGED << rolled_back, snapshot >>
<1>1. UNCHANGED << rolled_back, charges, trace, decommits, slots, snapshot >>
  BY DEF NearCall
<1>2. WorldGrows /\ LedgerGrows /\ TraceGrows
  BY <1>1, WorldStays, LedgerStays, TraceStays DEF rolled_back, trace, slots
<1> QED
  BY <1>1, <1>2 DEF NearCall, JournalsGrow

LEMMA FarCallGrows ==
  ASSUME TypeOK, FarCall
  PROVE  /\ JournalsGrow
         /\ frames' = Append(frames, Frame("far", Len(storage_logs')))
         /\ UNCHANGED << rolled_back, snapshot >>
<1>1. /\ frames' = Append(frames, Frame("far", Len(storage_logs')))
      /\ UNCHANGED << rolled_back, storage_refunds, snapshot >>
  BY DEF FarCall
<1>2. WorldGrows
  BY <1>1, WorldStays DEF rolled_back
<1>3. LogGrows(storage_refunds, storage_refunds')
  BY <1>1, LogGrowsReflexive DEF TypeOK
<1>4. /\ MapGrows(slot_flags, slot_flags')
      /\ LogGrows(pubdata_costs, pubdata_costs')
      /\ TraceGrows
      /\ MapGrows(decommitted_hashes, decommitted_hashes')
      /\ SetGrows(decommit_pinned_pages, decommit_pinned_pages')
  <2>1. CASE UNCHANGED << pubdata_costs, trace, decommits, slots >>
    BY <2>1, MapGrowsReflexive, SetGrowsReflexive, LogGrowsReflexive
       DEF TypeOK, trace, decommits, slots, TraceGrows
  <2>2. CASE \E k \in Keys : FarCallDecommit(k)
    <3>1. PICK k \in Keys : FarCallDecommit(k)
      BY <2>2
    <3>2. /\ MapGrows(slot_flags, slot_flags')
          /\ LogGrows(pubdata_costs, pubdata_costs')
          /\ TraceGrows
      BY <3>1, ReadStorageInnerGrows DEF FarCallDecommit
    <3>3. \/ UNCHANGED decommits
          \/ \E h \in Hashes : FailToPayForDecommit(h)
          \/ \E h \in Hashes, p \in Pages : MaterializeDecommitPage(h, p)
      BY <3>1 DEF FarCallDecommit
    <3>4. ASSUME UNCHANGED decommits
          PROVE  /\ MapGrows(decommitted_hashes, decommitted_hashes')
                 /\ SetGrows(decommit_pinned_pages, decommit_pinned_pages')
      BY <3>4, MapGrowsReflexive, SetGrowsReflexive DEF TypeOK, decommits
    <3>5. /\ MapGrows(decommitted_hashes, decommitted_hashes')
          /\ SetGrows(decommit_pinned_pages, decommit_pinned_pages')
      BY <3>3, <3>4, DecommitGrows
    <3> QED
      BY <3>2, <3>5
  <2> QED
    BY <2>1, <2>2 DEF FarCall
<1> QED
  BY <1>1, <1>2, <1>3, <1>4 DEF JournalsGrow, LedgerGrows

\* Leaving a call and taking a snapshot leave every journal alone.
LEMMA ReturnOkGrows ==
  ASSUME TypeOK, ReturnOk \/ MakeSnapshot \/ UNCHANGED vars
  PROVE  JournalsGrow /\ UNCHANGED << rolled_back, charges, trace, decommits, slots >>
<1>1. UNCHANGED << rolled_back, charges, trace, decommits, slots >>
  BY DEF ReturnOk, MakeSnapshot, vars
<1>2. WorldGrows /\ LedgerGrows /\ TraceGrows
  BY <1>1, WorldStays, LedgerStays, TraceStays DEF rolled_back, trace, slots
<1> QED
  BY <1>1, <1>2 DEF JournalsGrow

-----------------------------------------------------------------------------
(* Growing journals keep snapshots nested *)

LEMMA NoLaterThanTransitive ==
  ASSUME NEW s \in Snapshots, NEW t \in Snapshots, NEW u \in Snapshots,
         NoLaterThan(s, t), NoLaterThan(t, u)
  PROVE  NoLaterThan(s, u)
  BY DEF NoLaterThan, Snapshots

LEMMA NoLaterThanReflexive ==
  ASSUME NEW s \in Snapshots
  PROVE  NoLaterThan(s, s)
  BY DEF NoLaterThan, Snapshots

\* The part of the host's snapshot that no failing frame ever goes back to.
HostPartWithin(s, lengths) ==
  /\ s.internal_snapshot.storage_logs_len <= lengths.storage_logs
  /\ s.decommitted_hashes <= lengths.decommitted_hashes
  /\ s.decommit_pinned_pages <= lengths.decommit_pinned_pages
  /\ s.slot_flags <= lengths.slot_flags
  /\ s.storage_refunds <= lengths.storage_refunds
  /\ s.pubdata_costs <= lengths.pubdata_costs

HostLengths ==
  [storage_logs          |-> Len(storage_logs),
   decommitted_hashes    |-> Len(decommitted_hashes.old_entries),
   decommit_pinned_pages |-> Len(decommit_pinned_pages.old_entries),
   slot_flags            |-> Len(slot_flags.old_entries),
   storage_refunds       |-> Len(storage_refunds),
   pubdata_costs         |-> Len(pubdata_costs)]

LEMMA MapLength ==
  ASSUME NEW K, NEW V, NEW m \in JournaledMap(K, V)
  PROVE  Len(m.old_entries) \in Nat
  BY DEF JournaledMap

LEMMA SetLength ==
  ASSUME NEW K, NEW s \in JournaledSet(K)
  PROVE  Len(s.old_entries) \in Nat
  BY DEF JournaledSet

LEMMA LogLength ==
  ASSUME NEW T, NEW log \in Seq(T)
  PROVE  Len(log) \in Nat
  OBVIOUS

LEMMA SnapshotAdvances ==
  ASSUME TypeOK, TypeOK', WorldGrows
  PROVE  /\ Snapshot \in Snapshots /\ Snapshot' \in Snapshots
         /\ NoLaterThan(Snapshot, Snapshot')
<1>1. Snapshot \in Snapshots
  BY SnapshotType
<1>2. Snapshot' \in Snapshots
  BY MapLength, LogLength DEF TypeOK, Snapshot, Snapshots, MapSnapshot
<1>3. /\ MapSnapshot(storage_writes) <= MapSnapshot(storage_writes')
      /\ MapSnapshot(transient_storage_changes) <= MapSnapshot(transient_storage_changes')
      /\ Len(events) <= Len(events')
      /\ Len(l2_to_l1_logs) <= Len(l2_to_l1_logs')
  BY DEF WorldGrows, MapGrows, LogGrows, MapSnapshot
<1> QED
  BY <1>1, <1>2, <1>3 DEF NoLaterThan, Snapshot

LEMMA HostPartAdvances ==
  ASSUME TypeOK, TypeOK', LedgerGrows, TraceGrows,
         NEW s \in ExternalSnapshots, HostPartWithin(s, HostLengths)
  PROVE  HostPartWithin(s, HostLengths')
<1>1. /\ Len(storage_logs) <= Len(storage_logs')
      /\ Len(decommitted_hashes.old_entries) <= Len(decommitted_hashes'.old_entries)
      /\ Len(decommit_pinned_pages.old_entries) <= Len(decommit_pinned_pages'.old_entries)
      /\ Len(slot_flags.old_entries) <= Len(slot_flags'.old_entries)
      /\ Len(storage_refunds) <= Len(storage_refunds')
      /\ Len(pubdata_costs) <= Len(pubdata_costs')
  BY DEF LedgerGrows, TraceGrows, MapGrows, SetGrows, LogGrows
<1>2. /\ Len(storage_logs) \in Nat /\ Len(storage_logs') \in Nat
      /\ Len(storage_refunds) \in Nat /\ Len(storage_refunds') \in Nat
      /\ Len(pubdata_costs) \in Nat /\ Len(pubdata_costs') \in Nat
      /\ Len(decommitted_hashes.old_entries) \in Nat
      /\ Len(decommitted_hashes'.old_entries) \in Nat
  BY MapLength, LogLength DEF TypeOK
<1>3. /\ Len(slot_flags.old_entries) \in Nat /\ Len(slot_flags'.old_entries) \in Nat
      /\ Len(decommit_pinned_pages.old_entries) \in Nat
      /\ Len(decommit_pinned_pages'.old_entries) \in Nat
  BY MapLength, SetLength DEF TypeOK
<1>4. /\ s.internal_snapshot.storage_logs_len \in Nat
      /\ s.decommitted_hashes \in Nat /\ s.decommit_pinned_pages \in Nat
      /\ s.slot_flags \in Nat /\ s.storage_refunds \in Nat /\ s.pubdata_costs \in Nat
  BY DEF ExternalSnapshots, Snapshots
<1>5. /\ HostLengths.storage_logs \in Nat /\ HostLengths'.storage_logs \in Nat
      /\ HostLengths.decommitted_hashes \in Nat /\ HostLengths'.decommitted_hashes \in Nat
      /\ HostLengths.decommit_pinned_pages \in Nat /\ HostLengths'.decommit_pinned_pages \in Nat
      /\ HostLengths.slot_flags \in Nat /\ HostLengths'.slot_flags \in Nat
      /\ HostLengths.storage_refunds \in Nat /\ HostLengths'.storage_refunds \in Nat
      /\ HostLengths.pubdata_costs \in Nat /\ HostLengths'.pubdata_costs \in Nat
  BY <1>2, <1>3 DEF HostLengths
<1>6. /\ HostLengths.storage_logs <= HostLengths'.storage_logs
      /\ HostLengths.decommitted_hashes <= HostLengths'.decommitted_hashes
      /\ HostLengths.decommit_pinned_pages <= HostLengths'.decommit_pinned_pages
      /\ HostLengths.slot_flags <= HostLengths'.slot_flags
      /\ HostLengths.storage_refunds <= HostLengths'.storage_refunds
      /\ HostLengths.pubdata_costs <= HostLengths'.pubdata_costs
  BY <1>1 DEF HostLengths
<1> QED
  BY <1>4, <1>5, <1>6 DEF HostPartWithin

\* Calls are left, or none is entered: what the remaining snapshots remember is
\* still there.
LEMMA PrefixKeepsNesting ==
  ASSUME SnapshotsNest,
         Len(frames) \in Nat, Len(frames') \in Nat, Len(frames') <= Len(frames),
         \A i \in 1..Len(frames') : frames'[i] = frames[i],
         \A i \in 1..Len(frames') :
           NoLaterThan(frames[i].world_before_this_frame, Snapshot'),
         snapshot' = snapshot,
         \A b \in 1..Len(snapshot) :
           /\ NoLaterThan(snapshot[b].internal_snapshot, Snapshot')
           /\ HostPartWithin(snapshot[b], HostLengths')
  PROVE  SnapshotsNest'
<1>1. \A i \in 1..Len(frames') :
        NoLaterThan(frames'[i].world_before_this_frame, Snapshot')
  OBVIOUS
<1>2. \A i, j \in 1..Len(frames') : i <= j =>
        NoLaterThan(frames'[i].world_before_this_frame,
                    frames'[j].world_before_this_frame)
  BY DEF SnapshotsNest
<1>3. ASSUME NEW b \in 1..Len(snapshot')
      PROVE  /\ snapshot'[b].near_calls = << >>
             /\ snapshot'[b].internal_snapshot.transient_storage_changes = 0
             /\ NoLaterThan(snapshot'[b].internal_snapshot, Snapshot')
             /\ \A i \in 1..Len(frames') :
                  NoLaterThan(snapshot'[b].internal_snapshot,
                              frames'[i].world_before_this_frame)
             /\ HostPartWithin(snapshot'[b], HostLengths')
  <2>1. b \in 1..Len(snapshot) /\ snapshot'[b] = snapshot[b]
    BY <1>3
  <2>2. /\ snapshot[b].near_calls = << >>
        /\ snapshot[b].internal_snapshot.transient_storage_changes = 0
        /\ \A i \in 1..Len(frames) :
             NoLaterThan(snapshot[b].internal_snapshot,
                         frames[i].world_before_this_frame)
    BY <2>1 DEF SnapshotsNest
  <2>3. NoLaterThan(snapshot[b].internal_snapshot, Snapshot') /\ HostPartWithin(snapshot[b], HostLengths')
    BY <2>1
  <2>4. \A i \in 1..Len(frames') :
          i \in 1..Len(frames) /\ frames'[i] = frames[i]
    OBVIOUS
  <2> QED
    BY <2>1, <2>2, <2>3, <2>4
<1> QED
  BY <1>1, <1>2, <1>3 DEF SnapshotsNest, HostPartWithin, HostLengths, MapSnapshot
\* What the snapshots of a nested state say about its own lengths.
LEMMA NestedWithin ==
  ASSUME TypeOK, SnapshotsNest
  PROVE  /\ Len(frames) \in Nat
         /\ \A i \in 1..Len(frames) :
              /\ frames[i].world_before_this_frame \in Snapshots
              /\ NoLaterThan(frames[i].world_before_this_frame, Snapshot)
         /\ \A b \in 1..Len(snapshot) :
              /\ snapshot[b] \in ExternalSnapshots
              /\ snapshot[b].internal_snapshot \in Snapshots
              /\ NoLaterThan(snapshot[b].internal_snapshot, Snapshot)
              /\ HostPartWithin(snapshot[b], HostLengths)
<1>1. frames \in Seq(Frames) /\ snapshot \in Seq(ExternalSnapshots)
  BY DEF TypeOK
<1>2. /\ Len(frames) \in Nat
      /\ \A i \in 1..Len(frames) : frames[i].world_before_this_frame \in Snapshots
  <2>1. Len(frames) \in Nat /\ \A i \in 1..Len(frames) : frames[i] \in Frames
    BY <1>1, ElementOfSeq, LenProperties
  <2>2. \A f \in Frames : f.world_before_this_frame \in Snapshots
    BY DEF Frames
  <2> QED
    BY <2>1, <2>2
<1>3. \A b \in 1..Len(snapshot) :
        snapshot[b] \in ExternalSnapshots /\ snapshot[b].internal_snapshot \in Snapshots
  <2>1. \A b \in 1..Len(snapshot) : snapshot[b] \in ExternalSnapshots
    BY <1>1, ElementOfSeq
  <2>2. \A s \in ExternalSnapshots : s.internal_snapshot \in Snapshots
    BY DEF ExternalSnapshots
  <2> QED
    BY <2>1, <2>2
<1>4. ASSUME NEW b \in 1..Len(snapshot)
      PROVE  /\ NoLaterThan(snapshot[b].internal_snapshot, Snapshot)
             /\ HostPartWithin(snapshot[b], HostLengths)
  BY DEF SnapshotsNest, HostPartWithin, HostLengths, MapSnapshot
<1> QED
  BY <1>2, <1>3, <1>4 DEF SnapshotsNest

\* Steps that leave the calls and the host's snapshot alone.
LEMMA StepInsideKeepsNesting ==
  ASSUME TypeOK, TypeOK', SnapshotsNest, JournalsGrow, UNCHANGED control
  PROVE  SnapshotsNest'
<1>1. frames' = frames /\ snapshot' = snapshot
  BY DEF control
<1>2. /\ Snapshot \in Snapshots /\ Snapshot' \in Snapshots
      /\ NoLaterThan(Snapshot, Snapshot')
  BY SnapshotAdvances DEF JournalsGrow
<1>3. \A i \in 1..Len(frames') : NoLaterThan(frames[i].world_before_this_frame, Snapshot')
  BY <1>1, <1>2, NestedWithin, NoLaterThanTransitive
<1>4. \A b \in 1..Len(snapshot) :
        /\ NoLaterThan(snapshot[b].internal_snapshot, Snapshot')
        /\ HostPartWithin(snapshot[b], HostLengths')
  BY <1>2, NestedWithin, NoLaterThanTransitive, HostPartAdvances DEF JournalsGrow
<1>5. Len(frames) \in Nat
  BY NestedWithin
<1> QED
  BY <1>1, <1>3, <1>4, <1>5, PrefixKeepsNesting

LEMMA ReturnOkKeepsNesting ==
  ASSUME TypeOK, TypeOK', SnapshotsNest, ReturnOk
  PROVE  SnapshotsNest'
<1>1. JournalsGrow
  BY ReturnOkGrows
<1>2. /\ Snapshot \in Snapshots /\ Snapshot' \in Snapshots
      /\ NoLaterThan(Snapshot, Snapshot')
  BY <1>1, SnapshotAdvances DEF JournalsGrow
<1>3. frames' = Popped /\ snapshot' = snapshot /\ frames # << >>
  BY DEF ReturnOk
<1>4. /\ Len(frames') = Len(frames) - 1
      /\ \A i \in 1..Len(frames') : frames'[i] = frames[i]
      /\ Len(frames) \in Nat \ {0}
  BY <1>3, PoppedType
<1>5. \A i \in 1..Len(frames') : NoLaterThan(frames[i].world_before_this_frame, Snapshot')
  BY <1>2, <1>4, NestedWithin, NoLaterThanTransitive
<1>6. \A b \in 1..Len(snapshot) :
        /\ NoLaterThan(snapshot[b].internal_snapshot, Snapshot')
        /\ HostPartWithin(snapshot[b], HostLengths')
  BY <1>1, <1>2, NestedWithin, NoLaterThanTransitive, HostPartAdvances DEF JournalsGrow
<1> QED
  BY <1>3, <1>4, <1>5, <1>6, PrefixKeepsNesting

\* A failing call cuts the journals back to its own snapshot, which every outer
\* call's snapshot precedes.
LEMMA ReturnFailedKeepsNesting ==
  ASSUME TypeOK, TypeOK', SnapshotsNest, ReturnFailed
  PROVE  SnapshotsNest'
<1> DEFINE s == Top.world_before_this_frame
<1>1. /\ frames # << >> /\ CanRollbackTo(s) /\ AppendRollbackLogs(s) /\ RollbackTo(s)
      /\ frames' = Popped
      /\ UNCHANGED << charges, decommits, slots, snapshot >>
  BY DEF ReturnFailed
<1>2. /\ Len(frames') = Len(frames) - 1
      /\ \A i \in 1..Len(frames') : frames'[i] = frames[i]
      /\ Len(frames) \in Nat \ {0}
      /\ s \in Snapshots
  BY <1>1, PoppedType
<1>3. NoLaterThan(s, Snapshot)
  BY <1>2, NestedWithin DEF Top
<1>4. /\ Snapshot'.storage_writes = s.storage_writes
      /\ Snapshot'.transient_storage_changes = s.transient_storage_changes
      /\ Snapshot'.events = s.events
      /\ Snapshot'.l2_to_l1_logs = s.l2_to_l1_logs
  <2>1. /\ s.storage_writes \in 0..Len(storage_writes.old_entries)
        /\ s.transient_storage_changes
             \in 0..Len(transient_storage_changes.old_entries)
        /\ s.events \in 0..Len(events)
        /\ s.l2_to_l1_logs \in 0..Len(l2_to_l1_logs)
    <3>1. /\ Len(storage_writes.old_entries) \in Nat
          /\ Len(transient_storage_changes.old_entries) \in Nat
          /\ Len(events) \in Nat /\ Len(l2_to_l1_logs) \in Nat
      BY MapLength, LogLength DEF TypeOK
    <3> QED
      BY <1>2, <1>3, <3>1 DEF NoLaterThan, Snapshot, Snapshots, MapSnapshot
  <2>2. Len(storage_writes'.old_entries) = s.storage_writes
    <3>1. storage_writes \in JournaledMap(Keys, WriteEntries)
      BY DEF TypeOK
    <3>2. Len(MapRollback(storage_writes, s.storage_writes).old_entries) = s.storage_writes
      BY <2>1, <3>1, RollbackKeepsEarlier
    <3> QED
      BY <1>1, <3>2 DEF RollbackTo
  <2>3. Len(transient_storage_changes'.old_entries) = s.transient_storage_changes
    <3> DEFINE n == s.transient_storage_changes
    <3>1. transient_storage_changes \in JournaledMap(TransientKeys, Values)
      BY DEF TypeOK
    <3>2. Len(MapRollback(transient_storage_changes, n).old_entries) = n
      BY <2>1, <3>1, RollbackKeepsEarlier
    <3> QED
      BY <1>1, <3>2 DEF RollbackTo
  <2>4. Len(events') = s.events /\ Len(l2_to_l1_logs') = s.l2_to_l1_logs
    <3>1. events \in Seq(Messages) /\ l2_to_l1_logs \in Seq(Messages)
      BY DEF TypeOK
    <3>2. /\ Len(LogRollback(events, s.events)) = s.events
          /\ Len(LogRollback(l2_to_l1_logs, s.l2_to_l1_logs)) = s.l2_to_l1_logs
      BY <2>1, <3>1, LogRollbackKeepsEarlier
    <3> QED
      BY <1>1, <3>2 DEF RollbackTo
  <2> QED
    BY <2>2, <2>3, <2>4 DEF Snapshot, MapSnapshot
<1>5. ASSUME NEW t \in Snapshots, NoLaterThan(t, s)
      PROVE  NoLaterThan(t, Snapshot')
  BY <1>4, <1>5 DEF NoLaterThan
<1>6. \A i \in 1..Len(frames') : NoLaterThan(frames[i].world_before_this_frame, Snapshot')
  <2> SUFFICES ASSUME NEW i \in 1..Len(frames')
               PROVE  NoLaterThan(frames[i].world_before_this_frame, Snapshot')
    OBVIOUS
  <2>1. i \in 1..Len(frames) /\ Len(frames) \in 1..Len(frames) /\ i <= Len(frames)
    BY <1>2
  <2>2. NoLaterThan(frames[i].world_before_this_frame, s)
    BY <2>1 DEF SnapshotsNest, Top
  <2> QED
    BY <1>5, <2>1, <2>2, NestedWithin
<1>7. LedgerGrows /\ TraceGrows
  BY <1>1, <1>2, LedgerStays, AppendRollbackLogsType DEF slots, TraceGrows
<1>8. \A b \in 1..Len(snapshot) :
        /\ NoLaterThan(snapshot[b].internal_snapshot, Snapshot')
        /\ HostPartWithin(snapshot[b], HostLengths')
  <2> SUFFICES ASSUME NEW b \in 1..Len(snapshot)
               PROVE  /\ NoLaterThan(snapshot[b].internal_snapshot, Snapshot')
                      /\ HostPartWithin(snapshot[b], HostLengths')
    OBVIOUS
  <2>1. Len(frames) \in 1..Len(frames)
    BY <1>2
  <2>2. NoLaterThan(snapshot[b].internal_snapshot, s)
    BY <2>1 DEF SnapshotsNest, Top
  <2> QED
    BY <1>5, <1>7, <2>2, NestedWithin, HostPartAdvances
<1> QED
  BY <1>1, <1>2, <1>6, <1>8, PrefixKeepsNesting
\* A call's snapshot is taken of the journals as they are, so it comes last.
LEMMA CallKeepsNesting ==
  ASSUME TypeOK, TypeOK', SnapshotsNest, NearCall \/ FarCall
  PROVE  SnapshotsNest'
<1>1. PICK kind \in {"near", "far"}, n \in Nat :
        /\ JournalsGrow
        /\ frames' = Append(frames, Frame(kind, n))
        /\ UNCHANGED << rolled_back, snapshot >>
  <2>1. CASE NearCall
    BY <2>1, NearCallGrows, SnapshotType
  <2>2. CASE FarCall
    <3>1. Len(storage_logs') \in Nat
      BY LogLength DEF TypeOK
    <3> QED
      BY <2>2, <3>1, FarCallGrows
  <2> QED
    BY <2>1, <2>2
<1> DEFINE f == Frame(kind, n)
           w == f.world_before_this_frame
<1>2. Snapshot \in Snapshots /\ w \in Snapshots
  BY SnapshotType, FrameType DEF Frames
<1>3. NoLaterThan(Snapshot, w) /\ NoLaterThan(w, Snapshot')
  <2>1. /\ w.storage_writes = Snapshot.storage_writes
        /\ w.transient_storage_changes = Snapshot.transient_storage_changes
        /\ w.events = Snapshot.events
        /\ w.l2_to_l1_logs = Snapshot.l2_to_l1_logs
    BY DEF Frame, Snapshot
  <2>2. /\ Snapshot'.storage_writes = Snapshot.storage_writes
        /\ Snapshot'.transient_storage_changes = Snapshot.transient_storage_changes
        /\ Snapshot'.events = Snapshot.events
        /\ Snapshot'.l2_to_l1_logs = Snapshot.l2_to_l1_logs
    BY <1>1 DEF Snapshot, rolled_back
  <2>3. NoLaterThan(Snapshot, Snapshot)
    BY <1>2, NoLaterThanReflexive
  <2> QED
    BY <2>1, <2>2, <2>3 DEF NoLaterThan
<1>4. Snapshot' \in Snapshots
  BY <1>1, SnapshotAdvances DEF JournalsGrow
<1> HIDE DEF f, w
<1>5. /\ Len(frames') = Len(frames) + 1
      /\ Len(frames) \in Nat
      /\ \A i \in 1..Len(frames) : frames'[i] = frames[i]
      /\ frames'[Len(frames) + 1] = f
  <2>1. frames \in Seq(Frames) /\ f \in Frames /\ frames' = Append(frames, f)
    BY <1>1, FrameType DEF TypeOK, f
  <2> QED
    BY <2>1, AppendProperties, LenProperties
<1>6. ASSUME NEW i \in 1..Len(frames')
      PROVE  /\ NoLaterThan(frames'[i].world_before_this_frame, w)
             /\ NoLaterThan(frames'[i].world_before_this_frame, Snapshot')
  <2>1. CASE i = Len(frames) + 1
    <3>1. frames'[i].world_before_this_frame = w
      BY <1>5, <2>1 DEF w
    <3> QED
      BY <1>2, <1>3, <3>1, NoLaterThanReflexive
  <2>2. CASE i \in 1..Len(frames)
    <3>1. frames'[i] = frames[i]
      BY <1>5, <2>2
    <3>2. /\ frames[i].world_before_this_frame \in Snapshots
          /\ NoLaterThan(frames[i].world_before_this_frame, Snapshot)
      BY <2>2, NestedWithin
    <3> QED
      BY <1>2, <1>3, <1>4, <3>1, <3>2, NoLaterThanTransitive
  <2> QED
    BY <1>5, <2>1, <2>2
<1>7. ASSUME NEW i \in 1..Len(frames'), NEW j \in 1..Len(frames'), i <= j
      PROVE  NoLaterThan(frames'[i].world_before_this_frame,
                         frames'[j].world_before_this_frame)
  <2>1. CASE j = Len(frames) + 1
    BY <1>5, <1>6, <2>1 DEF w
  <2>2. CASE j \in 1..Len(frames)
    BY <1>5, <1>7, <2>2 DEF SnapshotsNest
  <2> QED
    BY <1>5, <2>1, <2>2
<1>8. ASSUME NEW b \in 1..Len(snapshot')
      PROVE  /\ snapshot'[b].near_calls = << >>
             /\ snapshot'[b].internal_snapshot.transient_storage_changes = 0
             /\ NoLaterThan(snapshot'[b].internal_snapshot, Snapshot')
             /\ \A i \in 1..Len(frames') :
                  NoLaterThan(snapshot'[b].internal_snapshot,
                              frames'[i].world_before_this_frame)
             /\ HostPartWithin(snapshot'[b], HostLengths')
  <2>1. b \in 1..Len(snapshot) /\ snapshot'[b] = snapshot[b]
    BY <1>1
  <2>2. /\ snapshot[b] \in ExternalSnapshots
        /\ snapshot[b].internal_snapshot \in Snapshots
        /\ NoLaterThan(snapshot[b].internal_snapshot, Snapshot)
        /\ HostPartWithin(snapshot[b], HostLengths)
    BY <2>1, NestedWithin
  <2>3. /\ NoLaterThan(snapshot[b].internal_snapshot, w)
        /\ NoLaterThan(snapshot[b].internal_snapshot, Snapshot')
    BY <1>2, <1>3, <1>4, <2>2, NoLaterThanTransitive
  <2>4. HostPartWithin(snapshot[b], HostLengths')
    BY <1>1, <2>2, HostPartAdvances DEF JournalsGrow
  <2>5. \A i \in 1..Len(frames') :
          NoLaterThan(snapshot[b].internal_snapshot, frames'[i].world_before_this_frame)
    <3>1. \A i \in 1..Len(frames) :
            NoLaterThan(snapshot[b].internal_snapshot, frames[i].world_before_this_frame)
      BY <2>1 DEF SnapshotsNest
    <3>2. NoLaterThan(snapshot[b].internal_snapshot,
                      frames'[Len(frames) + 1].world_before_this_frame)
      BY <1>5, <2>3 DEF w
    <3>3. \A i \in 1..Len(frames') : i \in 1..Len(frames) \/ i = Len(frames) + 1
      BY <1>5
    <3> QED
      BY <1>5, <3>1, <3>2, <3>3
  <2>6. /\ snapshot[b].near_calls = << >>
        /\ snapshot[b].internal_snapshot.transient_storage_changes = 0
    BY <2>1 DEF SnapshotsNest
  <2> QED
    BY <2>1, <2>3, <2>4, <2>5, <2>6
<1> QED
  BY <1>6, <1>7, <1>8 DEF SnapshotsNest, HostPartWithin, HostLengths, MapSnapshot
LEMMA MakeSnapshotNests ==
  ASSUME ~HostAnywhere, TypeOK, TypeOK', SnapshotsNest, MakeSnapshot
  PROVE  SnapshotsNest'
<1>1. /\ frames = << >> /\ frames' = << >>
      /\ snapshot' = << ExternalSnapshot >>
      /\ UNCHANGED << rolled_back, charges, trace, decommits, slots >>
  BY DEF MakeSnapshot, HostMayAct
<1> DEFINE s == ExternalSnapshot
           i == s.internal_snapshot
<1>2. s.near_calls = << >>
  BY <1>1 DEF ExternalSnapshot
<1>3. /\ i.storage_writes = Snapshot.storage_writes
      /\ i.transient_storage_changes = 0
      /\ i.events = Snapshot.events
      /\ i.l2_to_l1_logs = Snapshot.l2_to_l1_logs
      /\ i.storage_logs_len = Len(storage_logs)
  BY DEF ExternalSnapshot, Snapshot
<1>4. Snapshot' = Snapshot /\ Snapshot \in Snapshots
  BY <1>1, SnapshotType DEF Snapshot, rolled_back, trace
<1>5. NoLaterThan(i, Snapshot')
  <2>1. NoLaterThan(Snapshot, Snapshot)
    BY <1>4, NoLaterThanReflexive
  <2>2. 0 <= Snapshot.transient_storage_changes
    BY <1>4 DEF Snapshots
  <2> QED
    BY <1>3, <1>4, <2>1, <2>2 DEF NoLaterThan
<1>6. HostPartWithin(s, HostLengths')
  <2>1. /\ HostLengths' = HostLengths
        /\ s.internal_snapshot.storage_logs_len = HostLengths.storage_logs
        /\ s.decommitted_hashes = HostLengths.decommitted_hashes
        /\ s.decommit_pinned_pages = HostLengths.decommit_pinned_pages
        /\ s.slot_flags = HostLengths.slot_flags
        /\ s.storage_refunds = HostLengths.storage_refunds
        /\ s.pubdata_costs = HostLengths.pubdata_costs
    BY <1>1, <1>3
       DEF HostLengths, ExternalSnapshot, MapSnapshot, charges, trace, decommits, slots
  <2>2. /\ HostLengths.storage_logs \in Nat
        /\ HostLengths.decommitted_hashes \in Nat
        /\ HostLengths.decommit_pinned_pages \in Nat
        /\ HostLengths.slot_flags \in Nat
        /\ HostLengths.storage_refunds \in Nat
        /\ HostLengths.pubdata_costs \in Nat
    BY MapLength, SetLength, LogLength DEF TypeOK, HostLengths
  <2> QED
    BY <2>1, <2>2 DEF HostPartWithin
<1> HIDE DEF s, i
<1>7. \A b \in 1..Len(snapshot') : snapshot'[b] = s
  BY <1>1 DEF s
<1> QED
  BY <1>1, <1>2, <1>3, <1>5, <1>6, <1>7
     DEF SnapshotsNest, HostPartWithin, HostLengths, MapSnapshot, i

\* After these two the host has no snapshot and no call is open.
LEMMA HostForgets ==
  ASSUME ~HostAnywhere, SnapshotsNest, HostRollback \/ PopSnapshot
  PROVE  SnapshotsNest'
<1>1. snapshot' = << >>
  BY DEF HostRollback, PopSnapshot
<1>2. frames' = << >>
  <2>1. CASE HostRollback
    <3>1. snapshot # << >> /\ frames' = snapshot[1].near_calls
      BY <2>1 DEF HostRollback
    <3>2. 1 \in 1..Len(snapshot)
      BY <2>1 DEF HostRollback, HostMayAct
    <3> QED
      BY <3>1, <3>2 DEF SnapshotsNest
  <2>2. CASE PopSnapshot
    BY <2>2 DEF PopSnapshot, HostMayAct
  <2> QED
    BY <2>1, <2>2
<1> QED
  BY <1>1, <1>2 DEF SnapshotsNest

\* A new transaction throws the transient journal away.
LEMMA StartNewTxNests ==
  ASSUME ~HostAnywhere, TypeOK, TypeOK', SnapshotsNest, StartNewTx
  PROVE  SnapshotsNest'
<1>1. /\ frames = << >> /\ frames' = << >> /\ snapshot' = snapshot
      /\ UNCHANGED << storage_writes, events, l2_to_l1_logs, pubdata,
                      charges, trace, decommits, slots >>
      /\ transient_storage_changes'.old_entries = << >>
  BY DEF StartNewTx, control, EmptyMap
<1>2. /\ Snapshot'.storage_writes = Snapshot.storage_writes
      /\ Snapshot'.transient_storage_changes = 0
      /\ Snapshot'.events = Snapshot.events
      /\ Snapshot'.l2_to_l1_logs = Snapshot.l2_to_l1_logs
  BY <1>1 DEF Snapshot, MapSnapshot
<1>3. HostLengths' = HostLengths
  BY <1>1 DEF HostLengths, charges, trace, decommits, slots
<1>4. ASSUME NEW b \in 1..Len(snapshot)
      PROVE  /\ NoLaterThan(snapshot[b].internal_snapshot, Snapshot')
             /\ HostPartWithin(snapshot[b], HostLengths')
  <2>1. /\ NoLaterThan(snapshot[b].internal_snapshot, Snapshot)
        /\ HostPartWithin(snapshot[b], HostLengths)
    BY NestedWithin
  <2>2. snapshot[b].internal_snapshot.transient_storage_changes = 0
    BY DEF SnapshotsNest
  <2> QED
    BY <1>2, <1>3, <2>1, <2>2 DEF NoLaterThan
<1>5. Len(frames) = 0 /\ Len(frames') = 0
  BY <1>1
<1> QED
  BY <1>1, <1>4, <1>5, PrefixKeepsNesting

LEMMA NextKeepsNesting ==
  ASSUME ~HostAnywhere, TypeOK, TypeOK', SnapshotsNest, [Next]_vars
  PROVE  SnapshotsNest'
<1>1. CASE StorageStep
  BY <1>1, StorageStepGrows, StepInsideKeepsNesting
<1>2. CASE TransientStep
  BY <1>2, TransientStepGrows, StepInsideKeepsNesting
<1>3. CASE MessageStep
  BY <1>3, MessageStepGrows, StepInsideKeepsNesting
<1>4. CASE DecommitStep
  BY <1>4, DecommitStepGrows, StepInsideKeepsNesting
<1>5. CASE CallStep
  BY <1>5, CallKeepsNesting, ReturnOkKeepsNesting, ReturnFailedKeepsNesting
     DEF CallStep
<1>6. CASE HostStep
  BY <1>6, MakeSnapshotNests, HostForgets, StartNewTxNests DEF HostStep
<1>7. CASE UNCHANGED vars
  <2>1. UNCHANGED control
    BY <1>7 DEF vars
  <2> QED
    BY <1>7, <2>1, ReturnOkGrows, StepInsideKeepsNesting
<1> QED
  BY <1>1, <1>2, <1>3, <1>4, <1>5, <1>6, <1>7 DEF Next

-----------------------------------------------------------------------------
(* The theorems *)

\* Snapshots nest like the calls that took them, whatever is written, called,
\* reverted, decommitted or rolled back (WorldDiff::snapshot, rollback,
\* external_snapshot and external_rollback).
THEOREM Nesting ==
  ASSUME ~HostAnywhere
  PROVE  Spec => []SnapshotsNest
<1>1. Init => SnapshotsNest
  BY DEF Init, SnapshotsNest
<1>2. TypeOK /\ TypeOK' /\ SnapshotsNest /\ [Next]_vars => SnapshotsNest'
  BY NextKeepsNesting
<1> QED
  BY <1>1, <1>2, TypeInvariant, PTL DEF Spec

LEMMA NestedCallsCanFail ==
  ASSUME TypeOK, SnapshotsNest
  PROVE  OpenCallsCanFail
<1>1. ASSUME NEW i \in 1..Len(frames)
      PROVE  CanRollbackTo(frames[i].world_before_this_frame)
  <2>1. NoLaterThan(frames[i].world_before_this_frame, Snapshot)
    BY DEF SnapshotsNest
  <2> QED
    BY <2>1 DEF NoLaterThan, Snapshot, MapSnapshot, CanRollbackTo, CanRollback
<1> QED
  BY <1>1 DEF OpenCallsCanFail

\* Whatever inner calls did, a revert or panic of any open call finds its
\* snapshot within the journals: RollbackableMap::rollback never drains past
\* their end.  The host waits until no call is open.
THEOREM CallsCanAlwaysFail ==
  ASSUME ~HostAnywhere
  PROVE  Spec => []OpenCallsCanFail
<1>1. TypeOK /\ SnapshotsNest => OpenCallsCanFail
  BY NestedCallsCanFail
<1> QED
  BY <1>1, TypeInvariant, Nesting, PTL

LEMMA NestedHostCanRollBack ==
  ASSUME TypeOK, SnapshotsNest
  PROVE  SnapshotStaysAhead
<1>1. ASSUME NEW b \in 1..Len(snapshot)
      PROVE  CanRollbackExternally(snapshot[b])
  <2>1. /\ NoLaterThan(snapshot[b].internal_snapshot, Snapshot)
        /\ HostPartWithin(snapshot[b], HostLengths)
    BY NestedWithin
  <2>2. CanRollbackTo(snapshot[b].internal_snapshot)
    BY <2>1 DEF NoLaterThan, Snapshot, MapSnapshot, CanRollbackTo, CanRollback
  <2>3. /\ CanRollback(decommitted_hashes, snapshot[b].decommitted_hashes)
        /\ CanRollback(decommit_pinned_pages, snapshot[b].decommit_pinned_pages)
        /\ CanRollback(slot_flags, snapshot[b].slot_flags)
    BY <2>1 DEF HostPartWithin, HostLengths, CanRollback
  <2> QED
    BY <2>2, <2>3 DEF CanRollbackExternally
<1> QED
  BY <1>1 DEF SnapshotStaysAhead

\* The host can always go back to its snapshot: no revert cut a journal below it
\* and no new transaction invalidated it (VirtualMachine::rollback), if the
\* host acts only while no call is open.
THEOREM HostCanAlwaysRollBack ==
  ASSUME ~HostAnywhere
  PROVE  Spec => []SnapshotStaysAhead
<1>1. TypeOK /\ SnapshotsNest => SnapshotStaysAhead
  BY NestedHostCanRollBack
<1> QED
  BY <1>1, TypeInvariant, Nesting, PTL

-----------------------------------------------------------------------------
(* Pins are the pages of successful decommits. *)

PinsOf(hashes) == {p \in Pages : \E h \in Hashes : hashes[h] = Succeeded(p)}

\* The set and the map agree now, and agree where the host's snapshot cuts their
\* journals, which it does at different lengths.
DecommitsPaired ==
  /\ decommit_pinned_pages.map = PinsOf(decommitted_hashes.map)
  /\ \A b \in 1..Len(snapshot) :
       LET n == snapshot[b].decommit_pinned_pages
           m == snapshot[b].decommitted_hashes
       IN /\ n \in 0..Len(decommit_pinned_pages.old_entries)
          /\ m \in 0..Len(decommitted_hashes.old_entries)
          /\ SetAt(decommit_pinned_pages, n) = PinsOf(MapAt(decommitted_hashes, m))

LEMMA SucceededIs ==
  /\ \A p, q : Succeeded(p) = Succeeded(q) => p = q
  /\ \A p : Succeeded(p) # Unsuccessful /\ Succeeded(p).state = "succeeded"
<1>1. \A p : Succeeded(p).page = p /\ Succeeded(p).state = "succeeded"
  BY DEF Succeeded
<1>2. Unsuccessful.state = "unsuccessful"
  BY DEF Unsuccessful
<1>3. \A p, q : Succeeded(p) = Succeeded(q) => p = q
  BY <1>1
<1>4. \A p : Succeeded(p) # Unsuccessful
  BY <1>1, <1>2
<1> QED
  BY <1>1, <1>3, <1>4

LEMMA PairedNext ==
  ASSUME decommit_pinned_pages'.map = PinsOf(decommitted_hashes'.map),
         \A b \in 1..Len(snapshot') :
           LET n == snapshot'[b].decommit_pinned_pages
               m == snapshot'[b].decommitted_hashes
           IN /\ n \in 0..Len(decommit_pinned_pages'.old_entries)
              /\ m \in 0..Len(decommitted_hashes'.old_entries)
              /\ SetAt(decommit_pinned_pages', n) = PinsOf(MapAt(decommitted_hashes', m))
  PROVE  DecommitsPaired'
<1> DEFINE Paired(pins, hashes, s) ==
             LET n == s.decommit_pinned_pages
                 m == s.decommitted_hashes
             IN /\ n \in 0..Len(pins.old_entries)
                /\ m \in 0..Len(hashes.old_entries)
                /\ SetAt(pins, n) = PinsOf(MapAt(hashes, m))
<1>1. DecommitsPaired' <=>
        /\ decommit_pinned_pages'.map = PinsOf(decommitted_hashes'.map)
        /\ \A b \in 1..Len(snapshot') :
             Paired(decommit_pinned_pages', decommitted_hashes', snapshot'[b])
  BY Zenon DEF DecommitsPaired, PinsOf, SetAt, MapAt, Touched
<1> QED
  BY <1>1

LEMMA DecommitsStayPaired ==
  ASSUME TypeOK, DecommitsPaired, UNCHANGED decommits, snapshot' \in {snapshot, << >>}
  PROVE  DecommitsPaired'
<1>1. \A n : SetAt(decommit_pinned_pages, n)' = SetAt(decommit_pinned_pages, n)
  BY DEF decommits, SetAt
<1>2. \A m : MapAt(decommitted_hashes, m)' = MapAt(decommitted_hashes, m)
  BY DEF decommits, MapAt, Touched
<1>3. PinsOf(decommitted_hashes.map)' = PinsOf(decommitted_hashes.map)
  BY DEF decommits, PinsOf
<1>4. \A m : PinsOf(MapAt(decommitted_hashes, m))' = PinsOf(MapAt(decommitted_hashes, m))
  BY <1>2 DEF PinsOf
<1>5. CASE snapshot' = snapshot
  BY <1>1, <1>3, <1>4, <1>5 DEF DecommitsPaired, decommits
<1>6. CASE snapshot' = << >>
  BY <1>3, <1>6 DEF DecommitsPaired, decommits
<1> QED
  BY <1>5, <1>6

\* A decommit changes the two together.
LEMMA DecommitKeepsPairs ==
  ASSUME None \notin DecommitStates, TypeOK, DecommitsPaired, UNCHANGED snapshot,
         NEW h \in Hashes,
         FailToPayForDecommit(h) \/ \E p \in Pages : MaterializeDecommitPage(h, p)
  PROVE  DecommitsPaired'
<1> DEFINE hashes == decommitted_hashes.map
           pins == decommit_pinned_pages.map
<1>1. /\ hashes \in [Hashes -> DecommitStates \cup {None}]
      /\ pins \subseteq Pages /\ pins = PinsOf(hashes)
      /\ Len(decommitted_hashes.old_entries) \in Nat
      /\ Len(decommit_pinned_pages.old_entries) \in Nat
      /\ Len(decommitted_hashes'.old_entries) \in Nat
      /\ Len(decommit_pinned_pages'.old_entries) \in Nat
  <2>1. /\ decommitted_hashes \in JournaledMap(Hashes, DecommitStates)
        /\ decommit_pinned_pages \in JournaledSet(Pages)
    BY DEF TypeOK
  <2>2. /\ decommitted_hashes' \in JournaledMap(Hashes, DecommitStates)
        /\ decommit_pinned_pages' \in JournaledSet(Pages)
    BY <2>1, FailToPayType, MaterializeType
  <2> QED
    BY <2>1, <2>2, LenProperties DEF JournaledMap, JournaledSet, DecommitsPaired
<1>2. /\ MapGrows(decommitted_hashes, decommitted_hashes')
      /\ SetGrows(decommit_pinned_pages, decommit_pinned_pages')
  BY DecommitGrows
<1>3. decommit_pinned_pages'.map = PinsOf(decommitted_hashes'.map)
  <2>1. CASE IsSucceeded(h)
    <3>1. UNCHANGED decommits
      BY <2>1 DEF FailToPayForDecommit, MaterializeDecommitPage
    <3> QED
      BY <1>1, <3>1 DEF decommits
  <2>2. CASE ~IsSucceeded(h)
    <3>1. \A p \in Pages : hashes[h] # Succeeded(p)
      <4>1. ASSUME NEW p \in Pages, hashes[h] = Succeeded(p)
            PROVE  FALSE
        <5>1. hashes[h] # None
          BY <4>1 DEF DecommitStates
        <5> QED
          BY <2>2, <4>1, <5>1, SucceededIs DEF IsSucceeded
      <4> QED
        BY <4>1
    <3>2. CASE FailToPayForDecommit(h)
      <4>1. /\ decommitted_hashes'.map = [hashes EXCEPT ![h] = Unsuccessful]
            /\ decommit_pinned_pages' = decommit_pinned_pages
        BY <3>2 DEF FailToPayForDecommit, MapInsert
      <4> QED
        BY <1>1, <3>1, <4>1, SucceededIs DEF PinsOf
    <3>3. ASSUME NEW p \in Pages, MaterializeDecommitPage(h, p)
          PROVE  decommit_pinned_pages'.map = PinsOf(decommitted_hashes'.map)
      <4>1. /\ decommitted_hashes'.map = [hashes EXCEPT ![h] = Succeeded(p)]
            /\ decommit_pinned_pages'.map = pins \cup {p}
        BY <2>2, <3>3 DEF MaterializeDecommitPage, MapInsert, SetAdd
      <4>2. \A q \in Pages : (\E g \in Hashes : decommitted_hashes'.map[g] = Succeeded(q))
              <=> q = p \/ \E g \in Hashes : hashes[g] = Succeeded(q)
        BY <1>1, <3>1, <4>1, SucceededIs
      <4> QED
        BY <1>1, <4>1, <4>2 DEF PinsOf
    <3> QED
      BY <3>2, <3>3
  <2> QED
    BY <2>1, <2>2
<1>4. ASSUME NEW b \in 1..Len(snapshot'),
             NEW n, n = snapshot'[b].decommit_pinned_pages,
             NEW m, m = snapshot'[b].decommitted_hashes
      PROVE  /\ n \in 0..Len(decommit_pinned_pages'.old_entries)
             /\ m \in 0..Len(decommitted_hashes'.old_entries)
             /\ SetAt(decommit_pinned_pages', n) = PinsOf(MapAt(decommitted_hashes', m))
  <2>1. /\ n \in 0..Len(decommit_pinned_pages.old_entries)
        /\ m \in 0..Len(decommitted_hashes.old_entries)
        /\ SetAt(decommit_pinned_pages, n) = PinsOf(MapAt(decommitted_hashes, m))
    BY <1>4 DEF DecommitsPaired
  <2>2. /\ SetAt(decommit_pinned_pages', n) = SetAt(decommit_pinned_pages, n)
        /\ MapAt(decommitted_hashes', m) = MapAt(decommitted_hashes, m)
    BY <1>2, <2>1 DEF MapGrows, SetGrows
  <2> QED
    BY <1>1, <1>2, <2>1, <2>2 DEF MapGrows, SetGrows
<1> QED
  BY <1>3, <1>4, PairedNext

\* The host takes both back to where they agreed.
LEMMA HostKeepsPairs ==
  ASSUME TypeOK, DecommitsPaired, HostRollback \/ PopSnapshot
  PROVE  DecommitsPaired'
<1>1. snapshot' = << >>
  BY DEF HostRollback, PopSnapshot
<1>2. decommit_pinned_pages'.map = PinsOf(decommitted_hashes'.map)
  <2>1. CASE PopSnapshot
    BY <2>1 DEF PopSnapshot, MapDeleteHistory, SetDeleteHistory, DecommitsPaired
  <2>2. CASE HostRollback
    <3> DEFINE n == snapshot[1].decommit_pinned_pages
               m == snapshot[1].decommitted_hashes
    <3>1. 1 \in 1..Len(snapshot)
      <4>1. snapshot # << >> /\ snapshot \in Seq(ExternalSnapshots)
        BY <2>2 DEF HostRollback, TypeOK
      <4> QED
        BY <4>1, EmptySeq, LenProperties
    <3>2. SetAt(decommit_pinned_pages, n) = PinsOf(MapAt(decommitted_hashes, m))
      BY <3>1 DEF DecommitsPaired
    <3>3. /\ decommit_pinned_pages'.map = SetAt(decommit_pinned_pages, n)
          /\ decommitted_hashes'.map = MapAt(decommitted_hashes, m)
      BY <2>2 DEF HostRollback, MapDeleteHistory, SetDeleteHistory, MapRollback, SetRollback
    <3> QED
      BY <3>2, <3>3
  <2> QED
    BY <2>1, <2>2
<1> QED
  BY <1>1, <1>2 DEF DecommitsPaired, PinsOf

LEMMA MakeSnapshotKeepsPairs ==
  ASSUME TypeOK, DecommitsPaired, MakeSnapshot
  PROVE  DecommitsPaired'
<1> DEFINE n == Len(decommit_pinned_pages.old_entries)
           m == Len(decommitted_hashes.old_entries)
<1>1. /\ decommitted_hashes \in JournaledMap(Hashes, DecommitStates)
      /\ decommit_pinned_pages \in JournaledSet(Pages)
      /\ n \in 0..n /\ m \in 0..m
  BY LenProperties DEF TypeOK, JournaledMap, JournaledSet
<1>2. SetAt(decommit_pinned_pages, n) = PinsOf(MapAt(decommitted_hashes, m))
  BY <1>1, MapAtNow, SetAtNow DEF DecommitsPaired
<1>3. /\ decommit_pinned_pages' = decommit_pinned_pages
      /\ decommitted_hashes' = decommitted_hashes
      /\ Len(snapshot') = 1 /\ snapshot'[1].decommit_pinned_pages = n
      /\ snapshot'[1].decommitted_hashes = m
  BY DEF MakeSnapshot, decommits, ExternalSnapshot, MapSnapshot
<1> HIDE DEF n, m
<1>4. \A b \in 1..Len(snapshot') : b = 1
  BY <1>3
<1>5. /\ n \in 0..Len(decommit_pinned_pages'.old_entries)
      /\ m \in 0..Len(decommitted_hashes'.old_entries)
      /\ SetAt(decommit_pinned_pages', n) = PinsOf(MapAt(decommitted_hashes', m))
      /\ decommit_pinned_pages'.map = PinsOf(decommitted_hashes'.map)
  BY <1>1, <1>2, <1>3 DEF n, m, DecommitsPaired
<1> QED
  BY <1>3, <1>4, <1>5, PairedNext

LEMMA NextKeepsPairs ==
  ASSUME None \notin DecommitStates, TypeOK, DecommitsPaired, [Next]_vars
  PROVE  DecommitsPaired'
<1>1. CASE StorageStep \/ TransientStep \/ MessageStep \/ UNCHANGED vars
  <2>1. UNCHANGED << decommits, snapshot >>
    BY <1>1 DEF StorageStep, ReadStorage, WriteFreeStorage, WriteStorage,
         TransientStep, ReadTransientStorage, WriteTransientStorage, MessageStep,
         RecordEvent, RecordL2ToL1Log, ChargePubdata, vars, control
  <2> QED
    BY <2>1, DecommitsStayPaired
<1>2. CASE DecommitStep
  <2>1. PICK h \in Hashes, p \in Pages : MaterializeDecommitPage(h, p)
    BY <1>2 DEF DecommitStep, DecommitOpcode
  <2>2. UNCHANGED snapshot
    BY <1>2 DEF DecommitStep, DecommitOpcode, control
  <2> QED
    BY <2>1, <2>2, DecommitKeepsPairs
<1>3. CASE NearCall \/ ReturnOk \/ ReturnFailed \/ StartNewTx
  <2>1. UNCHANGED << decommits, snapshot >>
    BY <1>3 DEF NearCall, ReturnOk, ReturnFailed, StartNewTx, control
  <2> QED
    BY <2>1, DecommitsStayPaired
<1>4. CASE FarCall
  <2>1. UNCHANGED snapshot
    BY <1>4 DEF FarCall
  <2>2. \/ UNCHANGED decommits
        \/ \E h \in Hashes : FailToPayForDecommit(h)
        \/ \E h \in Hashes, p \in Pages : MaterializeDecommitPage(h, p)
    BY <1>4 DEF FarCall, FarCallDecommit
  <2> QED
    BY <2>1, <2>2, DecommitsStayPaired, DecommitKeepsPairs
<1>5. CASE HostRollback \/ PopSnapshot \/ MakeSnapshot
  BY <1>5, HostKeepsPairs, MakeSnapshotKeepsPairs
<1> QED
  BY <1>1, <1>2, <1>3, <1>4, <1>5 DEF Next, CallStep, HostStep

\* The pages protected from deallocation are those of the successful decommits:
\* external_rollback cuts the journal of the hashes and that of the pins where
\* they belong together, although a page that was pinned already, or a hash that
\* could not be paid for, leaves them of different lengths.
THEOREM PinsFollowDecommits ==
  ASSUME None \notin DecommitStates
  PROVE  Spec => []PinnedPagesAreSucceeded
<1>1. Init => DecommitsPaired
  <2> SUFFICES ASSUME Init PROVE DecommitsPaired
    OBVIOUS
  <2>1. decommit_pinned_pages.map = {} /\ snapshot = << >>
        /\ \A h \in Hashes : decommitted_hashes.map[h] = None
    BY DEF Init, EmptySet, EmptyMap
  <2>2. \A p \in Pages : Succeeded(p) # None
    BY DEF DecommitStates
  <2> QED
    BY <2>1, <2>2 DEF DecommitsPaired, PinsOf
<1>2. TypeOK /\ DecommitsPaired /\ [Next]_vars => DecommitsPaired'
  BY NextKeepsPairs
<1>3. DecommitsPaired => PinnedPagesAreSucceeded
  BY DEF DecommitsPaired, PinnedPagesAreSucceeded, PinsOf
<1> QED
  BY <1>1, <1>2, <1>3, TypeInvariant, PTL DEF Spec

-----------------------------------------------------------------------------
(* The world keeps copies. *)

\* What journals remember of a snapshot
WorldOf(writes, transient, emitted, logs, s) ==
  [writes        |-> MapAt(writes, s.storage_writes),
   transient     |-> MapAt(transient, s.transient_storage_changes),
   events        |-> LogRollback(emitted, s.events),
   l2_to_l1_logs |-> LogRollback(logs, s.l2_to_l1_logs),
   pubdata       |-> s.pubdata]

LedgerOf(flags, hashes, pins, refunds, costs, s) ==
  [flags   |-> MapAt(flags, s.slot_flags),
   hashes  |-> MapAt(hashes, s.decommitted_hashes),
   pinned  |-> SetAt(pins, s.decommit_pinned_pages),
   refunds |-> LogRollback(refunds, s.storage_refunds),
   costs   |-> LogRollback(costs, s.pubdata_costs)]

\* Before a step, and after it
Copy(s) == WorldOf(storage_writes, transient_storage_changes, events, l2_to_l1_logs, s)
NewCopy(s) == WorldOf(storage_writes', transient_storage_changes', events', l2_to_l1_logs', s)

LedgerCopy(s) == LedgerOf(slot_flags, decommitted_hashes, decommit_pinned_pages,
                          storage_refunds, pubdata_costs, s)
NewLedgerCopy(s) == LedgerOf(slot_flags', decommitted_hashes', decommit_pinned_pages',
                             storage_refunds', pubdata_costs', s)

HostCopy(s) ==
  [world |-> Copy(s.internal_snapshot), ledger |-> LedgerCopy(s),
   trace |-> LogRollback(storage_logs, s.internal_snapshot.storage_logs_len)]
NewHostCopy(s) ==
  [world |-> NewCopy(s.internal_snapshot), ledger |-> NewLedgerCopy(s),
   trace |-> LogRollback(storage_logs', s.internal_snapshot.storage_logs_len)]

Floor == MapAt(transient_storage_changes, 0)

\* What the mapping reads off the journals, before a step and after it
LEMMA Mapping ==
  /\ Saved = [i \in 1..Len(frames) |-> Copy(frames[i].world_before_this_frame)]
  /\ Saved' = [i \in 1..Len(frames') |-> NewCopy(frames'[i].world_before_this_frame)]
  /\ Batch = [i \in 1..Len(snapshot) |-> HostCopy(snapshot[i])]
  /\ Batch' = [i \in 1..Len(snapshot') |-> NewHostCopy(snapshot'[i])]
  /\ Floor' = MapAt(transient_storage_changes', 0)
<1>1. Saved = [i \in 1..Len(frames) |-> Copy(frames[i].world_before_this_frame)]
  BY DEF Saved, WorldAt, Copy, WorldOf
<1>2. Saved' = [i \in 1..Len(frames') |-> NewCopy(frames'[i].world_before_this_frame)]
  BY Zenon DEF Saved, WorldAt, NewCopy, WorldOf, MapAt, Touched, LogRollback
<1>3. Batch = [i \in 1..Len(snapshot) |-> HostCopy(snapshot[i])]
  BY DEF Batch, WorldAt, LedgerAt, HostCopy, Copy, LedgerCopy, WorldOf, LedgerOf
<1>4. Batch' = [i \in 1..Len(snapshot') |-> NewHostCopy(snapshot'[i])]
  BY Zenon DEF Batch, WorldAt, LedgerAt, NewHostCopy, NewCopy, NewLedgerCopy, WorldOf,
               LedgerOf, MapAt, Touched, LogRollback, SetAt
<1>5. Floor' = MapAt(transient_storage_changes', 0)
  BY DEF Floor, MapAt, Touched
<1> QED
  BY <1>1, <1>2, <1>3, <1>4, <1>5

LEMMA NewWorld ==
  /\ World' = [writes |-> storage_writes'.map, transient |-> transient_storage_changes'.map,
               events |-> events', l2_to_l1_logs |-> l2_to_l1_logs', pubdata |-> pubdata']
  /\ Ledger' = [flags |-> slot_flags'.map, hashes |-> decommitted_hashes'.map,
                pinned |-> decommit_pinned_pages'.map,
                refunds |-> storage_refunds', costs |-> pubdata_costs']
  BY DEF World, Ledger

\* Journals that only grow still have the copies of every snapshot within them.
LEMMA CopyKept ==
  ASSUME TypeOK, WorldGrows, NEW s \in Snapshots, NoLaterThan(s, Snapshot)
  PROVE  NewCopy(s) = Copy(s)
<1>1. /\ s.storage_writes \in Nat /\ s.transient_storage_changes \in Nat
      /\ s.events \in Nat /\ s.l2_to_l1_logs \in Nat
  BY DEF Snapshots
<1>2. /\ s.storage_writes <= Len(storage_writes.old_entries)
      /\ s.transient_storage_changes <= Len(transient_storage_changes.old_entries)
      /\ s.events <= Len(events) /\ s.l2_to_l1_logs <= Len(l2_to_l1_logs)
  BY DEF NoLaterThan, Snapshot, MapSnapshot
<1>3. /\ Len(storage_writes.old_entries) \in Nat
      /\ Len(transient_storage_changes.old_entries) \in Nat
      /\ Len(events) \in Nat /\ Len(l2_to_l1_logs) \in Nat
  BY MapLength, LogLength DEF TypeOK
<1>4. /\ MapAt(storage_writes', s.storage_writes) = MapAt(storage_writes, s.storage_writes)
      /\ MapAt(transient_storage_changes', s.transient_storage_changes)
           = MapAt(transient_storage_changes, s.transient_storage_changes)
  <2>1. /\ s.storage_writes \in 0..Len(storage_writes.old_entries)
        /\ s.transient_storage_changes \in 0..Len(transient_storage_changes.old_entries)
    BY <1>1, <1>2, <1>3
  <2> QED
    BY <2>1 DEF WorldGrows, MapGrows
<1>5. /\ LogRollback(events', s.events) = LogRollback(events, s.events)
      /\ LogRollback(l2_to_l1_logs', s.l2_to_l1_logs)
           = LogRollback(l2_to_l1_logs, s.l2_to_l1_logs)
  <2>1. s.events \in 0..Len(events) /\ s.l2_to_l1_logs \in 0..Len(l2_to_l1_logs)
    BY <1>1, <1>2, <1>3
  <2> QED
    BY <2>1 DEF WorldGrows, LogGrows
<1> QED
  BY <1>4, <1>5 DEF NewCopy, Copy, WorldOf

\* The same for what only the host takes back
LEMMA LedgerCopyKept ==
  ASSUME TypeOK, LedgerGrows, NEW s \in ExternalSnapshots, HostPartWithin(s, HostLengths)
  PROVE  NewLedgerCopy(s) = LedgerCopy(s)
<1>1. /\ s.slot_flags \in Nat /\ s.decommitted_hashes \in Nat
      /\ s.decommit_pinned_pages \in Nat
      /\ s.storage_refunds \in Nat /\ s.pubdata_costs \in Nat
  BY DEF ExternalSnapshots
<1>2. /\ s.slot_flags <= Len(slot_flags.old_entries)
      /\ s.decommitted_hashes <= Len(decommitted_hashes.old_entries)
      /\ s.decommit_pinned_pages <= Len(decommit_pinned_pages.old_entries)
      /\ s.storage_refunds <= Len(storage_refunds)
      /\ s.pubdata_costs <= Len(pubdata_costs)
  BY DEF HostPartWithin, HostLengths
<1>3. /\ Len(slot_flags.old_entries) \in Nat /\ Len(decommitted_hashes.old_entries) \in Nat
      /\ Len(decommit_pinned_pages.old_entries) \in Nat
      /\ Len(storage_refunds) \in Nat /\ Len(pubdata_costs) \in Nat
  BY MapLength, SetLength, LogLength DEF TypeOK
<1>4. /\ MapAt(slot_flags', s.slot_flags) = MapAt(slot_flags, s.slot_flags)
      /\ MapAt(decommitted_hashes', s.decommitted_hashes)
           = MapAt(decommitted_hashes, s.decommitted_hashes)
  <2>1. /\ s.slot_flags \in 0..Len(slot_flags.old_entries)
        /\ s.decommitted_hashes \in 0..Len(decommitted_hashes.old_entries)
    BY <1>1, <1>2, <1>3
  <2> QED
    BY <2>1 DEF LedgerGrows, MapGrows
<1>5. SetAt(decommit_pinned_pages', s.decommit_pinned_pages)
        = SetAt(decommit_pinned_pages, s.decommit_pinned_pages)
  <2>1. s.decommit_pinned_pages \in 0..Len(decommit_pinned_pages.old_entries)
    BY <1>1, <1>2, <1>3
  <2> QED
    BY <2>1 DEF LedgerGrows, SetGrows
<1>6. /\ LogRollback(storage_refunds', s.storage_refunds)
           = LogRollback(storage_refunds, s.storage_refunds)
      /\ LogRollback(pubdata_costs', s.pubdata_costs)
           = LogRollback(pubdata_costs, s.pubdata_costs)
  <2>1. /\ s.storage_refunds \in 0..Len(storage_refunds)
        /\ s.pubdata_costs \in 0..Len(pubdata_costs)
    BY <1>1, <1>2, <1>3
  <2> QED
    BY <2>1 DEF LedgerGrows, LogGrows
<1> QED
  BY <1>4, <1>5, <1>6 DEF NewLedgerCopy, LedgerCopy, LedgerOf


\* The host's copies stay when those of its world do, and when nothing it
\* charged or recorded was taken back.
LEMMA BatchStays ==
  ASSUME TypeOK, SnapshotsNest, LedgerGrows, TraceGrows, UNCHANGED snapshot,
         \A b \in 1..Len(snapshot) : NewCopy(snapshot[b].internal_snapshot)
                                       = Copy(snapshot[b].internal_snapshot)
  PROVE  Batch' = Batch
<1>1. ASSUME NEW b \in 1..Len(snapshot)
      PROVE  NewHostCopy(snapshot[b]) = HostCopy(snapshot[b])
  <2> DEFINE s == snapshot[b]
             n == s.internal_snapshot.storage_logs_len
  <2>1. /\ s \in ExternalSnapshots /\ s.internal_snapshot \in Snapshots
        /\ HostPartWithin(s, HostLengths)
    BY NestedWithin
  <2>2. n \in 0..Len(storage_logs)
    <3>1. n \in Nat
      BY <2>1 DEF Snapshots
    <3>2. n <= Len(storage_logs)
      BY <2>1 DEF HostPartWithin, HostLengths
    <3>3. Len(storage_logs) \in Nat
      BY LogLength DEF TypeOK
    <3> QED
      BY <3>1, <3>2, <3>3
  <2>3. LogRollback(storage_logs', n) = LogRollback(storage_logs, n)
    BY <2>2 DEF TraceGrows, LogGrows
  <2>4. /\ NewCopy(s.internal_snapshot) = Copy(s.internal_snapshot)
        /\ NewLedgerCopy(s) = LedgerCopy(s)
    BY <2>1, LedgerCopyKept
  <2> QED
    BY <2>3, <2>4 DEF NewHostCopy, HostCopy
<1> QED
  BY <1>1, Mapping

LEMMA BatchKept ==
  ASSUME TypeOK, SnapshotsNest, JournalsGrow, UNCHANGED snapshot
  PROVE  Batch' = Batch /\ Floor' = Floor
<1>1. Batch' = Batch
  <2>1. \A b \in 1..Len(snapshot) : NewCopy(snapshot[b].internal_snapshot)
                                      = Copy(snapshot[b].internal_snapshot)
    BY NestedWithin, CopyKept DEF JournalsGrow
  <2> QED
    BY <2>1, BatchStays DEF JournalsGrow
<1>2. Len(transient_storage_changes.old_entries) \in Nat
  BY MapLength DEF TypeOK
<1>3. MapAt(transient_storage_changes', 0) = MapAt(transient_storage_changes, 0)
  BY <1>2 DEF JournalsGrow, WorldGrows, MapGrows
<1> QED
  BY <1>1, <1>3, Mapping DEF Floor

LEMMA FrameCopyKept ==
  ASSUME TypeOK, SnapshotsNest, WorldGrows, NEW i \in 1..Len(frames)
  PROVE  NewCopy(frames[i].world_before_this_frame)
           = Copy(frames[i].world_before_this_frame)
  BY NestedWithin, CopyKept

LEMMA CopiesKept ==
  ASSUME TypeOK, SnapshotsNest, JournalsGrow, UNCHANGED control
  PROVE  Saved' = Saved /\ Batch' = Batch /\ Floor' = Floor
<1>1. frames' = frames /\ snapshot' = snapshot
  BY DEF control
<1>2. \A i \in 1..Len(frames) : NewCopy(frames[i].world_before_this_frame)
                                  = Copy(frames[i].world_before_this_frame)
  BY FrameCopyKept DEF JournalsGrow
<1>3. Saved' = Saved
  BY <1>1, <1>2, Mapping
<1> QED
  BY <1>1, <1>3, BatchKept

-----------------------------------------------------------------------------
(* What is charged and what is remembered about accesses only grows. *)

\* A log whose truncations all stay is extended at its end.
LEMMA GrownIsExtended ==
  ASSUME NEW T, NEW log \in Seq(T), NEW log2 \in Seq(T), LogGrows(log, log2)
  PROVE  Abstract!IsPrefixOf(log, log2)
<1>1. Len(log) \in Nat /\ Len(log2) \in Nat /\ Len(log) <= Len(log2)
  BY LenProperties DEF LogGrows
<1>2. LogRollback(log2, Len(log)) = log
  BY <1>1, LogRollbackNow DEF LogGrows
<1>3. \A i \in 1..Len(log) : LogRollback(log2, Len(log))[i] = log2[i]
  BY <1>1, <1>2, LogRollbackPrefix
<1> QED
  BY <1>1, <1>2, <1>3 DEF Abstract!IsPrefixOf

FlagsKept(m, m2) ==
  \A k \in Keys : m.map[k] # None => m2.map[k] # None /\ m.map[k] \subseteq m2.map[k]

HashesKept(m, m2) == \A h \in Hashes : m.map[h] # None => m2.map[h] # None

\* add_flags drops no flag.
LEMMA AddingKeepsFlags ==
  ASSUME None \notin SUBSET SlotFlags, NEW m \in JournaledMap(Keys, SUBSET SlotFlags),
         NEW k \in Keys, NEW flags \in SUBSET SlotFlags
  PROVE  FlagsKept(m, AddFlags(m, k, flags))
<1>1. m.map \in [Keys -> (SUBSET SlotFlags) \cup {None}]
  BY DEF JournaledMap
<1>2. CASE AddsFlags(m, k, flags)
  <2> DEFINE v == IF m.map[k] = None THEN flags ELSE m.map[k] \cup flags
  <2>1. AddFlags(m, k, flags).map = [m.map EXCEPT ![k] = v]
    BY <1>2 DEF AddFlags, MapInsert
  <2>2. v \in SUBSET SlotFlags /\ (m.map[k] # None => m.map[k] \subseteq v)
    BY <1>1
  <2>3. v # None
    BY <2>2
  <2> HIDE DEF v
  <2> QED
    BY <1>1, <2>1, <2>2, <2>3 DEF FlagsKept
<1>3. CASE ~AddsFlags(m, k, flags)
  BY <1>3 DEF AddFlags, FlagsKept
<1> QED
  BY <1>2, <1>3

LEMMA AddingTwiceKeepsFlags ==
  ASSUME None \notin SUBSET SlotFlags, NEW m \in JournaledMap(Keys, SUBSET SlotFlags),
         NEW k \in Keys, NEW f \in SUBSET SlotFlags, NEW g \in SUBSET SlotFlags
  PROVE  FlagsKept(m, AddFlags(AddFlags(m, k, f), k, g))
<1>1. AddFlags(m, k, f) \in JournaledMap(Keys, SUBSET SlotFlags)
  BY AddFlagsType
<1>2. /\ FlagsKept(m, AddFlags(m, k, f))
      /\ FlagsKept(AddFlags(m, k, f), AddFlags(AddFlags(m, k, f), k, g))
  BY <1>1, AddingKeepsFlags
<1> QED
  BY <1>2 DEF FlagsKept

LEMMA ReadKeepsFlags ==
  ASSUME None \notin SUBSET SlotFlags, TypeOK, NEW k \in Keys, ReadStorageInner(k)
  PROVE  FlagsKept(slot_flags, slot_flags')
<1>1. slot_flags \in JournaledMap(Keys, SUBSET SlotFlags)
  BY DEF TypeOK
<1>2. \/ slot_flags' = AddFlags(slot_flags, k, {SLOT_READ})
      \/ slot_flags' = AddFlags(AddFlags(slot_flags, k, {SLOT_READ}),
                                k, {SLOT_PROTECTIVE_READ})
  BY DEF ReadStorageInner
<1>3. FlagsKept(slot_flags, AddFlags(slot_flags, k, {SLOT_READ}))
  BY <1>1, FlagSets, AddingKeepsFlags
<1>4. FlagsKept(slot_flags, AddFlags(AddFlags(slot_flags, k, {SLOT_READ}),
                                     k, {SLOT_PROTECTIVE_READ}))
  BY <1>1, FlagSets, AddingTwiceKeepsFlags
<1> QED
  BY <1>2, <1>3, <1>4, Zenon

LEMMA WriteKeepsFlags ==
  ASSUME None \notin SUBSET SlotFlags, TypeOK, NEW k \in Keys, NEW v \in Values,
         WriteFreeStorage(k, v) \/ WriteStorage(k, v)
  PROVE  FlagsKept(slot_flags, slot_flags')
<1>1. slot_flags \in JournaledMap(Keys, SUBSET SlotFlags)
  BY DEF TypeOK
<1>2. \/ slot_flags' = AddFlags(slot_flags, k, {SLOT_WRITTEN})
      \/ slot_flags' = AddFlags(AddFlags(slot_flags, k, {SLOT_WRITTEN}), k, {SLOT_READ})
  BY DEF WriteFreeStorage, WriteStorage
<1>3. FlagsKept(slot_flags, AddFlags(slot_flags, k, {SLOT_WRITTEN}))
  BY <1>1, FlagSets, AddingKeepsFlags
<1>4. FlagsKept(slot_flags, AddFlags(AddFlags(slot_flags, k, {SLOT_WRITTEN}),
                                     k, {SLOT_READ}))
  BY <1>1, FlagSets, AddingTwiceKeepsFlags
<1> QED
  BY <1>2, <1>3, <1>4, Zenon

\* A hash that was seen is not forgotten.
LEMMA DecommitKeepsHashes ==
  ASSUME None \notin DecommitStates, TypeOK, NEW h \in Hashes,
         \/ FailToPayForDecommit(h)
         \/ \E p \in Pages : MaterializeDecommitPage(h, p)
         \/ UNCHANGED decommits
  PROVE  HashesKept(decommitted_hashes, decommitted_hashes')
<1>1. decommitted_hashes.map \in [Hashes -> DecommitStates \cup {None}]
  BY DEF TypeOK, JournaledMap
<1>2. CASE decommitted_hashes' = decommitted_hashes
  BY <1>2 DEF HashesKept
<1>3. ASSUME NEW v \in DecommitStates,
             decommitted_hashes' = MapInsert(decommitted_hashes, h, v)
      PROVE  HashesKept(decommitted_hashes, decommitted_hashes')
  <2>1. decommitted_hashes'.map = [decommitted_hashes.map EXCEPT ![h] = v]
    BY <1>3 DEF MapInsert
  <2> QED
    BY <1>1, <1>3, <2>1 DEF HashesKept
<1>4. \/ decommitted_hashes' = decommitted_hashes
      \/ decommitted_hashes' = MapInsert(decommitted_hashes, h, Unsuccessful)
      \/ \E p \in Pages : decommitted_hashes' = MapInsert(decommitted_hashes, h, Succeeded(p))
  BY DEF FailToPayForDecommit, MaterializeDecommitPage, decommits
<1>5. Unsuccessful \in DecommitStates /\ \A p \in Pages : Succeeded(p) \in DecommitStates
  BY DEF DecommitStates
<1> QED
  BY <1>2, <1>3, <1>4, <1>5

LEMMA GrownSetIsLarger ==
  ASSUME NEW K, NEW s \in JournaledSet(K), NEW s2, SetGrows(s, s2)
  PROVE  s.map \subseteq s2.map
<1>1. Len(s.old_entries) \in Nat
  BY SetLength
<1>2. SetAt(s2, Len(s.old_entries)) = s.map
  BY <1>1, SetAtNow DEF SetGrows
<1> QED
  BY <1>2 DEF SetAt

LEMMA LedgerExtends ==
  ASSUME TypeOK, TypeOK', LedgerGrows,
         FlagsKept(slot_flags, slot_flags'),
         HashesKept(decommitted_hashes, decommitted_hashes')
  PROVE  Abstract!LedgerGrows
<1>1. /\ Abstract!IsPrefixOf(storage_refunds, storage_refunds')
      /\ Abstract!IsPrefixOf(pubdata_costs, pubdata_costs')
  BY GrownIsExtended DEF TypeOK, LedgerGrows
<1>2. decommit_pinned_pages.map \subseteq decommit_pinned_pages'.map
  BY GrownSetIsLarger DEF TypeOK, LedgerGrows
<1>3. /\ Ledger.flags = slot_flags.map /\ Ledger'.flags = slot_flags'.map
      /\ Ledger.hashes = decommitted_hashes.map /\ Ledger'.hashes = decommitted_hashes'.map
      /\ Ledger.pinned = decommit_pinned_pages.map
      /\ Ledger'.pinned = decommit_pinned_pages'.map
      /\ Ledger.refunds = storage_refunds /\ Ledger'.refunds = storage_refunds'
      /\ Ledger.costs = pubdata_costs /\ Ledger'.costs = pubdata_costs'
  BY DEF Ledger
<1> QED
  BY <1>1, <1>2, <1>3 DEF Abstract!LedgerGrows, FlagsKept, HashesKept

LEMMA TraceExtends ==
  ASSUME TypeOK, TypeOK', TraceGrows
  PROVE  Abstract!TraceGrows
  BY GrownIsExtended DEF TypeOK, TraceGrows, Abstract!TraceGrows

-----------------------------------------------------------------------------
(* Every step is a step of the world that keeps copies. *)

NoneIsNoRecord ==
  /\ None \notin WriteEntries
  /\ None \notin SUBSET SlotFlags
  /\ None \notin DecommitStates

\* Steps that leave all copies alone.
CopiesStay == Saved' = Saved /\ Batch' = Batch /\ Floor' = Floor

LEMMA ObservingStep ==
  ASSUME CopiesStay, World' = World, Abstract!LedgerGrows, Abstract!TraceGrows
  PROVE  Abstract!Observe
  BY DEF CopiesStay, Floor, Abstract!Observe

\* Two parts of a world replaced at once
LEMMA WorldExcept ==
  ASSUME NEW x, NEW y
  PROVE  /\ [World EXCEPT !.writes = x, !.pubdata = y]
              = [writes |-> x, transient |-> transient_storage_changes.map,
                 events |-> events, l2_to_l1_logs |-> l2_to_l1_logs, pubdata |-> y]
         /\ [World EXCEPT !.events = x, !.l2_to_l1_logs = y]
              = [writes |-> storage_writes.map,
                 transient |-> transient_storage_changes.map,
                 events |-> x, l2_to_l1_logs |-> y, pubdata |-> pubdata]
<1> DEFINE w == storage_writes.map
           t == transient_storage_changes.map
<1>1. World = [writes |-> w, transient |-> t, events |-> events,
               l2_to_l1_logs |-> l2_to_l1_logs, pubdata |-> pubdata]
  BY DEF World
<1> HIDE DEF w, t
<1>2. [World EXCEPT !.writes = x, !.pubdata = y]
        = [writes |-> x, transient |-> t, events |-> events,
           l2_to_l1_logs |-> l2_to_l1_logs, pubdata |-> y]
  <2>1. [World EXCEPT !.writes = x, !.pubdata = y]
          = [[World EXCEPT !.writes = x] EXCEPT !.pubdata = y]
    BY <1>1
  <2>2. [World EXCEPT !.writes = x]
          = [writes |-> x, transient |-> t, events |-> events,
             l2_to_l1_logs |-> l2_to_l1_logs, pubdata |-> pubdata]
    BY <1>1
  <2>3. [[writes |-> x, transient |-> t, events |-> events,
          l2_to_l1_logs |-> l2_to_l1_logs, pubdata |-> pubdata] EXCEPT !.pubdata = y]
          = [writes |-> x, transient |-> t, events |-> events,
             l2_to_l1_logs |-> l2_to_l1_logs, pubdata |-> y]
    OBVIOUS
  <2> QED
    BY <2>1, <2>2, <2>3, Zenon
<1>3. [World EXCEPT !.events = x, !.l2_to_l1_logs = y]
        = [writes |-> w, transient |-> t, events |-> x,
           l2_to_l1_logs |-> y, pubdata |-> pubdata]
  <2>1. [World EXCEPT !.events = x, !.l2_to_l1_logs = y]
          = [[World EXCEPT !.events = x] EXCEPT !.l2_to_l1_logs = y]
    BY <1>1
  <2>2. [World EXCEPT !.events = x]
          = [writes |-> w, transient |-> t, events |-> x,
             l2_to_l1_logs |-> l2_to_l1_logs, pubdata |-> pubdata]
    BY <1>1
  <2>3. [[writes |-> w, transient |-> t, events |-> x,
          l2_to_l1_logs |-> l2_to_l1_logs, pubdata |-> pubdata]
            EXCEPT !.l2_to_l1_logs = y]
          = [writes |-> w, transient |-> t, events |-> x,
             l2_to_l1_logs |-> y, pubdata |-> pubdata]
    OBVIOUS
  <2> QED
    BY <2>1, <2>2, <2>3, Zenon
<1> QED
  BY <1>2, <1>3 DEF w, t

\* An entry for a slot, and pubdata by what it pays more than before
LEMMA WritingStep ==
  ASSUME NoneIsNoRecord, TypeOK, CopiesStay, Abstract!LedgerGrows, Abstract!TraceGrows,
         NEW k \in Keys, NEW e \in WriteEntries,
         storage_writes' = MapInsert(storage_writes, k, e),
         pubdata' = pubdata + (e.paid - Paid(storage_writes.map[k])),
         UNCHANGED << transient_storage_changes, events, l2_to_l1_logs >>
  PROVE  Abstract!Write
<1>1. storage_writes.map \in [Keys -> WriteEntries \cup {None}]
  BY DEF TypeOK, JournaledMap
<1>2. storage_writes'.map = [storage_writes.map EXCEPT ![k] = e]
  BY DEF MapInsert
<1>3. World'.writes[k] = e /\ e # None
  BY <1>1, <1>2, NewWorld DEF NoneIsNoRecord
<1>4. Abstract!Paid(World.writes[k]) = Paid(storage_writes.map[k])
  BY DEF World, Abstract!Paid, Paid
<1>5. World' = [World EXCEPT
            !.writes  = [@ EXCEPT ![k] = World'.writes[k]],
            !.pubdata = @ + World'.writes[k].paid - Abstract!Paid(World.writes[k])]
  <2>1. World' = [writes |-> [storage_writes.map EXCEPT ![k] = e],
                  transient |-> transient_storage_changes.map,
                  events |-> events, l2_to_l1_logs |-> l2_to_l1_logs,
                  pubdata |-> pubdata + (e.paid - Paid(storage_writes.map[k]))]
    BY <1>2, NewWorld
  <2>2. World' = [World EXCEPT
            !.writes  = [@ EXCEPT ![k] = e],
            !.pubdata = @ + (e.paid - Paid(storage_writes.map[k]))]
    <3> DEFINE x == [storage_writes.map EXCEPT ![k] = e]
               y == pubdata + (e.paid - Paid(storage_writes.map[k]))
    <3>1. World' = [writes |-> x, transient |-> transient_storage_changes.map,
                    events |-> events, l2_to_l1_logs |-> l2_to_l1_logs, pubdata |-> y]
      BY <2>1
    <3> HIDE DEF x, y
    <3>2. World' = [World EXCEPT !.writes = x, !.pubdata = y]
      BY <3>1, WorldExcept, Zenon
    <3>3. World.writes = storage_writes.map /\ World.pubdata = pubdata
      BY DEF World
    <3> QED
      BY <3>2, <3>3, Zenon DEF x, y
  <2>3. World' = [World EXCEPT
            !.writes  = [@ EXCEPT ![k] = World'.writes[k]],
            !.pubdata = @ + World'.writes[k].paid - Paid(storage_writes.map[k])]
    BY <1>3, <2>2, Zenon
  <2> QED
    BY <1>4, <2>3, Zenon
<1> QED
  BY <1>3, <1>5 DEF CopiesStay, Floor, Abstract!Write

LEMMA StorageStepRefines ==
  ASSUME NoneIsNoRecord, TypeOK, TypeOK', SnapshotsNest, StorageStep
  PROVE  Abstract!Observe \/ Abstract!Write
<1>1. JournalsGrow /\ CopiesStay
  BY StorageStepGrows, CopiesKept DEF CopiesStay
<1>2. Abstract!TraceGrows
  BY <1>1, TraceExtends DEF JournalsGrow
<1>3. PICK k \in Keys :
        \/ ReadStorage(k)
        \/ \E v \in Values : WriteFreeStorage(k, v) \/ WriteStorage(k, v)
  BY DEF StorageStep
<1>4. CASE ReadStorage(k)
  <2>1. ReadStorageInner(k) /\ UNCHANGED << rolled_back, decommits >>
    BY <1>4 DEF ReadStorage
  <2>2. FlagsKept(slot_flags, slot_flags')
    BY <2>1, ReadKeepsFlags DEF NoneIsNoRecord
  <2>3. HashesKept(decommitted_hashes, decommitted_hashes')
    BY <2>1 DEF decommits, HashesKept
  <2>4. World' = World
    BY <2>1 DEF World, rolled_back
  <2> QED
    BY <1>1, <1>2, <2>2, <2>3, <2>4, LedgerExtends, ObservingStep DEF JournalsGrow
<1>5. ASSUME NEW v \in Values, WriteFreeStorage(k, v) \/ WriteStorage(k, v)
      PROVE  Abstract!Write
  <2>1. FlagsKept(slot_flags, slot_flags')
    BY <1>5, WriteKeepsFlags DEF NoneIsNoRecord
  <2>2. /\ HashesKept(decommitted_hashes, decommitted_hashes')
        /\ UNCHANGED << transient_storage_changes, events, l2_to_l1_logs >>
    BY <1>5 DEF WriteFreeStorage, WriteStorage, decommits, HashesKept
  <2>3. Abstract!LedgerGrows
    BY <1>1, <2>1, <2>2, LedgerExtends DEF JournalsGrow
  <2>4. /\ Paid(storage_writes.map[k]) \in Nat /\ WriteCost[k][v] \in Nat
        /\ pubdata \in Int
    <3>1. Paid(storage_writes.map[k]) \in Nat
      BY PaidType
    <3>2. WriteCost[k][v] \in Nat
      BY SlotAssumption
    <3>3. pubdata \in Int
      BY DEF TypeOK
    <3> QED
      BY <3>1, <3>2, <3>3
  <2>5. CASE WriteFreeStorage(k, v)
    <3> DEFINE e == [value |-> v, paid |-> Paid(storage_writes.map[k])]
    <3>1. storage_writes' = MapInsert(storage_writes, k, e) /\ pubdata' = pubdata
      BY <2>5 DEF WriteFreeStorage
    <3>2. e \in WriteEntries
      BY <2>4 DEF WriteEntries
    <3>3. pubdata' = pubdata + (e.paid - Paid(storage_writes.map[k]))
      BY <2>4, <3>1
    <3> HIDE DEF e
    <3> QED
      BY <1>1, <1>2, <2>2, <2>3, <3>1, <3>2, <3>3, WritingStep
  <2>6. CASE WriteStorage(k, v)
    <3> DEFINE e == [value |-> v, paid |-> WriteCost[k][v]]
    <3>1. /\ storage_writes' = MapInsert(storage_writes, k, e)
          /\ pubdata' = pubdata + (WriteCost[k][v] - Paid(storage_writes.map[k]))
      BY <2>6 DEF WriteStorage
    <3>2. e \in WriteEntries /\ e.paid = WriteCost[k][v]
      BY <2>4 DEF WriteEntries
    <3> HIDE DEF e
    <3> QED
      BY <1>1, <1>2, <2>2, <2>3, <3>1, <3>2, WritingStep
  <2> QED
    BY <1>5, <2>5, <2>6
<1> QED
  BY <1>3, <1>4, <1>5

LEMMA TransientStepRefines ==
  ASSUME NoneIsNoRecord, TypeOK, TypeOK', SnapshotsNest, TransientStep
  PROVE  Abstract!Observe \/ Abstract!WriteTransient
<1>1. JournalsGrow /\ CopiesStay
  BY TransientStepGrows, CopiesKept DEF CopiesStay
<1>2. PICK k \in TransientKeys :
        ReadTransientStorage(k) \/ \E v \in Values : WriteTransientStorage(k, v)
  BY DEF TransientStep
<1>3. UNCHANGED << storage_writes, events, l2_to_l1_logs, pubdata, trace, decommits, slots >>
  BY <1>2 DEF ReadTransientStorage, WriteTransientStorage, rolled_back
<1>4. Abstract!LedgerGrows /\ Abstract!TraceGrows
  <2>1. /\ FlagsKept(slot_flags, slot_flags')
        /\ HashesKept(decommitted_hashes, decommitted_hashes')
    BY <1>3 DEF slots, decommits, FlagsKept, HashesKept
  <2> QED
    BY <1>1, <2>1, LedgerExtends, TraceExtends DEF JournalsGrow
<1>5. CASE ReadTransientStorage(k)
  <2>1. World' = World
    BY <1>5 DEF ReadTransientStorage, World, rolled_back
  <2> QED
    BY <1>1, <1>4, <2>1, ObservingStep
<1>6. ASSUME NEW v \in Values, WriteTransientStorage(k, v)
      PROVE  Abstract!WriteTransient
  <2>1. transient_storage_changes'.map = [transient_storage_changes.map EXCEPT ![k] = v]
    BY <1>6 DEF WriteTransientStorage, MapInsert
  <2>2. transient_storage_changes.map \in [TransientKeys -> Values \cup {None}]
    BY DEF TypeOK, JournaledMap
  <2>3. World' = [World EXCEPT !.transient = [@ EXCEPT ![k] = World'.transient[k]]]
    BY <1>3, <2>1, <2>2, NewWorld DEF World
  <2>4. storage_logs' = storage_logs
    BY <1>3 DEF trace
  <2> QED
    BY <1>1, <1>4, <2>3, <2>4 DEF CopiesStay, Floor, Abstract!WriteTransient
<1> QED
  BY <1>2, <1>5, <1>6

LEMMA MessageStepRefines ==
  ASSUME TypeOK, TypeOK', SnapshotsNest, MessageStep
  PROVE  Abstract!Emit \/ Abstract!ChargePubdata
<1>1. JournalsGrow /\ CopiesStay
  BY MessageStepGrows, CopiesKept DEF CopiesStay
<1>2. UNCHANGED << storage_writes, transient_storage_changes, charges, trace,
                   decommits, slots >>
  BY DEF MessageStep, RecordEvent, RecordL2ToL1Log, ChargePubdata
<1>3. Ledger' = Ledger /\ storage_logs' = storage_logs
  BY <1>2 DEF Ledger, charges, trace, decommits, slots
<1>4. CASE \E m \in Messages : RecordEvent(m) \/ RecordL2ToL1Log(m)
  <2>1. pubdata' = pubdata
    BY <1>4 DEF RecordEvent, RecordL2ToL1Log
  <2>2. /\ Abstract!IsPrefixOf(events, events')
        /\ Abstract!IsPrefixOf(l2_to_l1_logs, l2_to_l1_logs')
    BY <1>1, GrownIsExtended DEF TypeOK, JournalsGrow, WorldGrows
  <2>3. /\ World.events = events /\ World'.events = events'
        /\ World.l2_to_l1_logs = l2_to_l1_logs /\ World'.l2_to_l1_logs = l2_to_l1_logs'
    BY DEF World
  <2>4. World' = [World EXCEPT !.events = World'.events,
                               !.l2_to_l1_logs = World'.l2_to_l1_logs]
    <3>1. World' = [writes |-> storage_writes.map,
                    transient |-> transient_storage_changes.map,
                    events |-> World'.events, l2_to_l1_logs |-> World'.l2_to_l1_logs,
                    pubdata |-> pubdata]
      BY <1>2, <2>1, NewWorld
    <3> QED
      BY <3>1, WorldExcept, Zenon
  <2> QED
    BY <1>1, <1>3, <2>2, <2>3, <2>4 DEF CopiesStay, Floor, Abstract!Emit
<1>5. CASE \E d \in PubdataExtras : ChargePubdata(d)
  <2>1. PICK d \in PubdataExtras : ChargePubdata(d)
    BY <1>5
  <2>2. /\ pubdata' = pubdata + d
        /\ UNCHANGED << events, l2_to_l1_logs >>
    BY <2>1 DEF ChargePubdata
  <2>3. d \in Nat /\ pubdata \in Int
    BY CostAssumption DEF TypeOK
  <2>4. World'.pubdata >= World.pubdata
    BY <2>2, <2>3, NewWorld DEF World
  <2>5. World' = [World EXCEPT !.pubdata = World'.pubdata]
    BY <1>2, <2>2, NewWorld DEF World
  <2> QED
    BY <1>1, <1>3, <2>4, <2>5 DEF CopiesStay, Floor, Abstract!ChargePubdata
<1> QED
  BY <1>4, <1>5 DEF MessageStep

LEMMA DecommitStepRefines ==
  ASSUME NoneIsNoRecord, TypeOK, TypeOK', SnapshotsNest, DecommitStep
  PROVE  Abstract!Observe
<1>1. JournalsGrow /\ CopiesStay
  BY DecommitStepGrows, CopiesKept DEF CopiesStay
<1>2. PICK h \in Hashes, p \in Pages : DecommitOpcode(h, p)
  BY DEF DecommitStep
<1>3. MaterializeDecommitPage(h, p) /\ UNCHANGED << rolled_back, slots >>
  BY <1>2 DEF DecommitOpcode
<1>4. /\ FlagsKept(slot_flags, slot_flags')
      /\ HashesKept(decommitted_hashes, decommitted_hashes')
      /\ World' = World
  BY <1>3, DecommitKeepsHashes DEF NoneIsNoRecord, slots, FlagsKept, World, rolled_back
<1> QED
  BY <1>1, <1>4, LedgerExtends, TraceExtends, ObservingStep DEF JournalsGrow

\* A function on 1..n, taken as a sequence
LEMMA FunctionAsSequence ==
  ASSUME NEW n \in Nat, NEW s, s = [i \in 1..n |-> s[i]]
  PROVE  /\ s \in Seq({s[i] : i \in 1..n}) /\ Len(s) = n
         /\ n # 0 => SubSeq(s, 1, n - 1) = [i \in 1..(n - 1) |-> s[i]]
         /\ \A x : Append(s, x) = [i \in 1..(n + 1) |-> IF i <= n THEN s[i] ELSE x]
<1>1. s \in Seq({s[i] : i \in 1..n}) /\ Len(s) = n
  <2>1. s \in [1..n -> {s[i] : i \in 1..n}]
    OBVIOUS
  <2> QED
    BY <2>1, IsASeq, LenProperties
<1>2. n # 0 => SubSeq(s, 1, n - 1) = [i \in 1..(n - 1) |-> s[i]]
  BY <1>1
<1>3. \A x : Append(s, x) = [i \in 1..(n + 1) |-> IF i <= n THEN s[i] ELSE x]
  BY <1>1
<1> QED
  BY <1>1, <1>2, <1>3

LEMMA NoCopies ==
  /\ frames = << >> => Saved = << >>
  /\ frames' = << >> => Saved' = << >>
  /\ snapshot = << >> => Batch = << >>
  /\ snapshot' = << >> => Batch' = << >>
<1>1. \A s : s = [i \in 1..0 |-> s[i]] => s = << >>
  OBVIOUS
<1> QED
  BY <1>1, Mapping

\* A snapshot taken now remembers what there is now.
LEMMA CopyNow ==
  ASSUME TypeOK, NEW w,
         w.storage_writes = Snapshot.storage_writes,
         w.transient_storage_changes = Snapshot.transient_storage_changes,
         w.events = Snapshot.events, w.l2_to_l1_logs = Snapshot.l2_to_l1_logs,
         w.pubdata = Snapshot.pubdata
  PROVE  Copy(w) = World
<1>1. /\ w.storage_writes = Len(storage_writes.old_entries)
      /\ w.transient_storage_changes = Len(transient_storage_changes.old_entries)
      /\ w.events = Len(events) /\ w.l2_to_l1_logs = Len(l2_to_l1_logs)
      /\ w.pubdata = pubdata
  BY DEF Snapshot, MapSnapshot
<1>2. /\ MapAt(storage_writes, w.storage_writes) = storage_writes.map
      /\ MapAt(transient_storage_changes, w.transient_storage_changes)
           = transient_storage_changes.map
      /\ LogRollback(events, w.events) = events
      /\ LogRollback(l2_to_l1_logs, w.l2_to_l1_logs) = l2_to_l1_logs
  BY <1>1, MapAtNow, LogRollbackNow DEF TypeOK
<1> QED
  BY <1>1, <1>2 DEF Copy, WorldOf, World

LEMMA SavedIs ==
  ASSUME TypeOK
  PROVE  /\ Len(Saved) = Len(frames) /\ Len(frames) \in Nat
         /\ Saved = [i \in 1..Len(frames) |-> Saved[i]]
         /\ \A i \in 1..Len(frames) : Saved[i] = Copy(frames[i].world_before_this_frame)
<1>1. Len(frames) \in Nat
  BY LogLength DEF TypeOK
<1>2. /\ Saved = [i \in 1..Len(frames) |-> Saved[i]]
      /\ \A i \in 1..Len(frames) : Saved[i] = Copy(frames[i].world_before_this_frame)
  BY Mapping
<1> QED
  BY <1>1, <1>2, FunctionAsSequence

\* A call saves a copy; what it reads and decommits on its way in stays.
LEMMA CallRefines ==
  ASSUME NoneIsNoRecord, TypeOK, TypeOK', SnapshotsNest, NearCall \/ FarCall
  PROVE  Abstract!Enter
<1>1. PICK kind \in {"near", "far"}, n \in Nat :
        /\ JournalsGrow
        /\ frames' = Append(frames, Frame(kind, n))
        /\ UNCHANGED << rolled_back, snapshot >>
  <2>1. CASE NearCall
    BY <2>1, NearCallGrows, SnapshotType
  <2>2. CASE FarCall
    <3>1. Len(storage_logs') \in Nat
      BY LogLength DEF TypeOK
    <3> QED
      BY <2>2, <3>1, FarCallGrows
  <2> QED
    BY <2>1, <2>2
<1> DEFINE f == Frame(kind, n)
           w == f.world_before_this_frame
<1>2. NewCopy(w) = World
  <2>1. Copy(w) = World
    <3>1. /\ w.storage_writes = Snapshot.storage_writes
          /\ w.transient_storage_changes = Snapshot.transient_storage_changes
          /\ w.events = Snapshot.events /\ w.l2_to_l1_logs = Snapshot.l2_to_l1_logs
          /\ w.pubdata = Snapshot.pubdata
      BY DEF Frame, Snapshot
    <3> HIDE DEF w
    <3> QED
      BY <3>1, CopyNow
  <2>2. NewCopy(w) = Copy(w)
    BY <1>1 DEF NewCopy, Copy, rolled_back
  <2> QED
    BY <2>1, <2>2
<1>3. f \in Frames /\ frames \in Seq(Frames)
  BY FrameType DEF TypeOK
<1> HIDE DEF f
<1>4. /\ Len(frames') = Len(frames) + 1 /\ Len(frames) \in Nat
      /\ \A i \in 1..Len(frames) : frames'[i] = frames[i]
      /\ frames'[Len(frames) + 1] = f
  <2>1. frames' = Append(frames, f)
    BY <1>1 DEF f
  <2> QED
    BY <1>3, <2>1, AppendProperties, LenProperties
<1>5. Saved' = Append(Saved, World)
  <2>1. \A i \in 1..Len(frames) :
          NewCopy(frames[i].world_before_this_frame) = Saved[i]
    BY <1>1, FrameCopyKept, SavedIs DEF JournalsGrow
  <2>2. Saved' = [i \in 1..(Len(frames) + 1) |->
                    NewCopy(frames'[i].world_before_this_frame)]
    BY <1>4, Mapping
  <2>3. \A i \in 1..(Len(frames) + 1) :
          NewCopy(frames'[i].world_before_this_frame)
            = IF i <= Len(frames) THEN Saved[i] ELSE World
    <3> SUFFICES ASSUME NEW i \in 1..(Len(frames) + 1)
                 PROVE  NewCopy(frames'[i].world_before_this_frame)
                          = IF i <= Len(frames) THEN Saved[i] ELSE World
      OBVIOUS
    <3>1. CASE i <= Len(frames)
      BY <1>4, <2>1, <3>1
    <3>2. CASE ~(i <= Len(frames))
      <4>1. i = Len(frames) + 1
        BY <1>4, <3>2
      <4> QED
        BY <1>2, <1>4, <3>2, <4>1
    <3> QED
      BY <3>1, <3>2
  <2>4. Saved' = [i \in 1..(Len(frames) + 1) |->
                    IF i <= Len(frames) THEN Saved[i] ELSE World]
    BY <2>2, <2>3
  <2>5. Append(Saved, World)
          = [i \in 1..(Len(frames) + 1) |-> IF i <= Len(frames) THEN Saved[i] ELSE World]
    <3>1. Len(frames) \in Nat /\ Saved = [i \in 1..Len(frames) |-> Saved[i]]
      BY SavedIs
    <3> QED
      BY <3>1, FunctionAsSequence
  <2> QED
    BY <2>4, <2>5, Zenon
<1>6. Batch' = Batch /\ Floor' = Floor
  BY <1>1, BatchKept
<1>7. World' = World
  BY <1>1 DEF World, rolled_back
<1>8. FlagsKept(slot_flags, slot_flags') /\ HashesKept(decommitted_hashes, decommitted_hashes')
  <2>1. CASE UNCHANGED << decommits, slots >>
    BY <2>1 DEF decommits, slots, FlagsKept, HashesKept
  <2>2. CASE \E k \in Keys : FarCallDecommit(k)
    <3>1. PICK k \in Keys : FarCallDecommit(k)
      BY <2>2
    <3>2. FlagsKept(slot_flags, slot_flags')
      BY <3>1, ReadKeepsFlags DEF FarCallDecommit, NoneIsNoRecord
    <3>3. \/ UNCHANGED decommits
          \/ \E h \in Hashes : FailToPayForDecommit(h)
          \/ \E h \in Hashes, p \in Pages : MaterializeDecommitPage(h, p)
      BY <3>1 DEF FarCallDecommit
    <3>4. HashesKept(decommitted_hashes, decommitted_hashes')
      <4>1. CASE UNCHANGED decommits
        BY <4>1 DEF decommits, HashesKept
      <4> QED
        BY <3>3, <4>1, DecommitKeepsHashes DEF NoneIsNoRecord
    <3> QED
      BY <3>2, <3>4
  <2> QED
    BY <2>1, <2>2 DEF NearCall, FarCall
<1>9. Abstract!LedgerGrows /\ Abstract!TraceGrows
  BY <1>1, <1>8, LedgerExtends, TraceExtends DEF JournalsGrow
<1> QED
  BY <1>5, <1>6, <1>7, <1>9 DEF Floor, Abstract!Enter

\* Leaving a call drops the last copy, if the earlier ones stay.
LEMMA LastCopyDropped ==
  ASSUME TypeOK, frames # << >>, frames' = Popped,
         \A i \in 1..Len(frames') : NewCopy(frames[i].world_before_this_frame)
                                      = Copy(frames[i].world_before_this_frame)
  PROVE  /\ Saved # << >>
         /\ Saved' = SubSeq(Saved, 1, Len(Saved) - 1)
         /\ Saved[Len(Saved)] = Copy(Top.world_before_this_frame)
<1>1. /\ Len(frames) \in Nat \ {0} /\ Len(frames') = Len(frames) - 1
      /\ \A i \in 1..Len(frames') : frames'[i] = frames[i]
  BY PoppedType
<1>2. Saved # << >> /\ Saved[Len(Saved)] = Copy(Top.world_before_this_frame)
  BY <1>1, SavedIs DEF Top
<1>3. Saved' = [i \in 1..(Len(frames) - 1) |-> Saved[i]]
  <2>1. \A i \in 1..(Len(frames) - 1) :
          NewCopy(frames'[i].world_before_this_frame) = Saved[i]
    BY <1>1, SavedIs
  <2> QED
    BY <1>1, <2>1, Mapping
<1> QED
  BY <1>1, <1>2, <1>3, SavedIs, FunctionAsSequence

LEMMA ReturnOkRefines ==
  ASSUME TypeOK, SnapshotsNest, ReturnOk
  PROVE  Abstract!Leave
<1>1. /\ frames # << >> /\ frames' = Popped /\ snapshot' = snapshot
      /\ UNCHANGED << rolled_back, charges, trace, decommits, slots >>
  BY DEF ReturnOk
<1>2. JournalsGrow
  BY ReturnOkGrows
<1>3. \A i \in 1..Len(frames') : NewCopy(frames[i].world_before_this_frame)
                                   = Copy(frames[i].world_before_this_frame)
  BY <1>1, <1>2, PoppedType, FrameCopyKept DEF JournalsGrow
<1>4. Batch' = Batch /\ Floor' = Floor
  BY <1>1, <1>2, BatchKept
<1>5. World' = World /\ Ledger' = Ledger /\ storage_logs' = storage_logs
  BY <1>1 DEF World, Ledger, rolled_back, charges, trace, decommits, slots
<1> QED
  BY <1>1, <1>3, <1>4, <1>5, LastCopyDropped DEF Floor, Abstract!Leave

\* A failing call puts its copy back, and the journals it cut short still have
\* every earlier copy.
LEMMA ReturnFailedRefines ==
  ASSUME TypeOK, TypeOK', SnapshotsNest, ReturnFailed
  PROVE  Abstract!Fail
<1> DEFINE s == Top.world_before_this_frame
<1>1. /\ frames # << >> /\ AppendRollbackLogs(s) /\ RollbackTo(s)
      /\ frames' = Popped
      /\ UNCHANGED << charges, decommits, slots, snapshot >>
  BY DEF ReturnFailed
<1>2. /\ Len(frames') = Len(frames) - 1
      /\ Len(frames) \in Nat \ {0}
      /\ s \in Snapshots
  BY <1>1, PoppedType
<1>3. NoLaterThan(s, Snapshot)
  BY <1>2, NestedWithin DEF Top
<1> HIDE DEF s
<1>4. /\ s.storage_writes \in 0..Len(storage_writes.old_entries)
      /\ s.transient_storage_changes \in 0..Len(transient_storage_changes.old_entries)
      /\ s.events \in 0..Len(events)
      /\ s.l2_to_l1_logs \in 0..Len(l2_to_l1_logs)
  <2>1. /\ Len(storage_writes.old_entries) \in Nat
        /\ Len(transient_storage_changes.old_entries) \in Nat
        /\ Len(events) \in Nat /\ Len(l2_to_l1_logs) \in Nat
    BY MapLength, LogLength DEF TypeOK
  <2> QED
    BY <1>2, <1>3, <2>1 DEF NoLaterThan, Snapshot, Snapshots, MapSnapshot
<1>5. /\ storage_writes' = MapRollback(storage_writes, s.storage_writes)
      /\ transient_storage_changes' =
           MapRollback(transient_storage_changes, s.transient_storage_changes)
      /\ events' = LogRollback(events, s.events)
      /\ l2_to_l1_logs' = LogRollback(l2_to_l1_logs, s.l2_to_l1_logs)
      /\ pubdata' = s.pubdata
  BY <1>1 DEF RollbackTo
<1>6. /\ \A n \in 0..s.storage_writes :
           MapAt(storage_writes', n) = MapAt(storage_writes, n)
      /\ \A n \in 0..s.transient_storage_changes :
           MapAt(transient_storage_changes', n) = MapAt(transient_storage_changes, n)
  <2>1. \A n \in 0..s.storage_writes :
          MapAt(MapRollback(storage_writes, s.storage_writes), n) = MapAt(storage_writes, n)
    <3>1. storage_writes \in JournaledMap(Keys, WriteEntries)
      BY DEF TypeOK
    <3> QED
      BY <1>4, <3>1, RollbackKeepsEarlier
  <2>2. \A n \in 0..s.transient_storage_changes :
          MapAt(MapRollback(transient_storage_changes, s.transient_storage_changes), n)
            = MapAt(transient_storage_changes, n)
    <3>1. transient_storage_changes \in JournaledMap(TransientKeys, Values)
      BY DEF TypeOK
    <3> QED
      BY <1>4, <3>1, RollbackKeepsEarlier
  <2> QED
    BY <1>5, <2>1, <2>2
<1>7. /\ \A n \in 0..s.events : LogRollback(events', n) = LogRollback(events, n)
      /\ \A n \in 0..s.l2_to_l1_logs :
           LogRollback(l2_to_l1_logs', n) = LogRollback(l2_to_l1_logs, n)
  BY <1>4, <1>5, LogRollbackKeepsEarlier DEF TypeOK
<1>8. ASSUME NEW t \in Snapshots, NoLaterThan(t, s)
      PROVE  NewCopy(t) = Copy(t)
  <2>1. /\ t.storage_writes \in 0..s.storage_writes
        /\ t.transient_storage_changes \in 0..s.transient_storage_changes
        /\ t.events \in 0..s.events /\ t.l2_to_l1_logs \in 0..s.l2_to_l1_logs
    BY <1>2, <1>8 DEF NoLaterThan, Snapshots
  <2> QED
    BY <1>6, <1>7, <2>1 DEF NewCopy, Copy, WorldOf
<1>9. World' = Copy(s)
  <2>1. /\ storage_writes'.map = MapAt(storage_writes, s.storage_writes)
        /\ transient_storage_changes'.map
             = MapAt(transient_storage_changes, s.transient_storage_changes)
    BY <1>5 DEF MapRollback
  <2> QED
    BY <1>5, <2>1, NewWorld DEF Copy, WorldOf
<1>10. \A i \in 1..Len(frames') : NewCopy(frames[i].world_before_this_frame)
                                    = Copy(frames[i].world_before_this_frame)
  <2> SUFFICES ASSUME NEW i \in 1..Len(frames')
               PROVE  NewCopy(frames[i].world_before_this_frame)
                        = Copy(frames[i].world_before_this_frame)
    OBVIOUS
  <2>1. i \in 1..Len(frames) /\ Len(frames) \in 1..Len(frames) /\ i <= Len(frames)
    BY <1>2
  <2>2. NoLaterThan(frames[i].world_before_this_frame, s)
    BY <2>1 DEF SnapshotsNest, Top, s
  <2> QED
    BY <1>8, <2>1, <2>2, NestedWithin
<1>11. LedgerGrows /\ TraceGrows
  BY <1>1, <1>2, LedgerStays, AppendRollbackLogsType DEF slots, TraceGrows
<1>12. Batch' = Batch
  <2>1. ASSUME NEW b \in 1..Len(snapshot)
        PROVE  NewCopy(snapshot[b].internal_snapshot) = Copy(snapshot[b].internal_snapshot)
    <3>1. Len(frames) \in 1..Len(frames)
      BY <1>2
    <3>2. NoLaterThan(snapshot[b].internal_snapshot, s)
      BY <3>1 DEF SnapshotsNest, Top, s
    <3> QED
      BY <1>8, <3>2, NestedWithin
  <2> QED
    BY <1>1, <1>11, <2>1, BatchStays
<1>13. Floor' = Floor
  <2>1. 0 \in 0..s.transient_storage_changes
    BY <1>2 DEF Snapshots
  <2> QED
    BY <1>6, <2>1, Mapping DEF Floor
<1>14. Ledger' = Ledger
  BY <1>1 DEF Ledger, charges, decommits, slots
<1>15. Abstract!TraceGrows
  BY <1>11, TraceExtends
<1>16. /\ Saved # << >> /\ World' = Saved[Len(Saved)]
       /\ Saved' = SubSeq(Saved, 1, Len(Saved) - 1)
  BY <1>1, <1>9, <1>10, LastCopyDropped DEF s
<1> QED
  BY <1>12, <1>13, <1>14, <1>15, <1>16 DEF Floor, Abstract!Fail

-----------------------------------------------------------------------------
(* The host *)

\* Everything is held as it is, except transient storage, which is held as it was
\* when its history was deleted last.
LEMMA MakeSnapshotRefines ==
  ASSUME ~HostAnywhere, TypeOK, MakeSnapshot
  PROVE  Abstract!HoldBatch
<1>1. /\ frames = << >> /\ frames' = << >> /\ snapshot = << >>
      /\ snapshot' = << ExternalSnapshot >>
      /\ UNCHANGED << rolled_back, charges, trace, decommits, slots >>
  BY DEF MakeSnapshot, HostMayAct
<1>2. Saved = << >> /\ Saved' = << >> /\ Batch = << >>
  BY <1>1, NoCopies
<1> DEFINE s == ExternalSnapshot
           i == s.internal_snapshot
           Held == [world |-> [World EXCEPT !.transient = Floor],
                    ledger |-> Ledger, trace |-> storage_logs]
<1>3. /\ i.storage_writes = Len(storage_writes.old_entries)
      /\ i.transient_storage_changes = 0
      /\ i.events = Len(events) /\ i.l2_to_l1_logs = Len(l2_to_l1_logs)
      /\ i.pubdata = pubdata
      /\ i.storage_logs_len = Len(storage_logs)
  BY DEF ExternalSnapshot, Snapshot, MapSnapshot
<1>4. /\ s.decommitted_hashes = Len(decommitted_hashes.old_entries)
      /\ s.decommit_pinned_pages = Len(decommit_pinned_pages.old_entries)
      /\ s.slot_flags = Len(slot_flags.old_entries)
      /\ s.storage_refunds = Len(storage_refunds)
      /\ s.pubdata_costs = Len(pubdata_costs)
  BY DEF ExternalSnapshot, MapSnapshot
<1> HIDE DEF s
<1>5. Copy(i) = [World EXCEPT !.transient = Floor]
  <2>1. /\ MapAt(storage_writes, i.storage_writes) = storage_writes.map
        /\ LogRollback(events, i.events) = events
        /\ LogRollback(l2_to_l1_logs, i.l2_to_l1_logs) = l2_to_l1_logs
    BY <1>3, MapAtNow, LogRollbackNow DEF TypeOK
  <2> QED
    BY <1>3, <2>1 DEF Copy, WorldOf, World, Floor
<1>6. LedgerCopy(s) = Ledger
  <2>1. /\ MapAt(slot_flags, s.slot_flags) = slot_flags.map
        /\ MapAt(decommitted_hashes, s.decommitted_hashes) = decommitted_hashes.map
    BY <1>4, MapAtNow DEF TypeOK
  <2>2. SetAt(decommit_pinned_pages, s.decommit_pinned_pages) = decommit_pinned_pages.map
    BY <1>4, SetAtNow DEF TypeOK
  <2>3. /\ LogRollback(storage_refunds, s.storage_refunds) = storage_refunds
        /\ LogRollback(pubdata_costs, s.pubdata_costs) = pubdata_costs
    BY <1>4, LogRollbackNow DEF TypeOK
  <2> QED
    BY <2>1, <2>2, <2>3 DEF LedgerCopy, LedgerOf, Ledger
<1>7. LogRollback(storage_logs, i.storage_logs_len) = storage_logs
  BY <1>3, LogRollbackNow DEF TypeOK
<1>8. NewHostCopy(s) = HostCopy(s)
  BY <1>1 DEF NewHostCopy, HostCopy, NewCopy, Copy, NewLedgerCopy, LedgerCopy,
              rolled_back, charges, trace, decommits, slots
<1>9. NewHostCopy(s) = Held
  BY <1>5, <1>6, <1>7, <1>8 DEF HostCopy
<1>10. Batch' = << Held >>
  <2>1. Len(snapshot') = 1 /\ snapshot'[1] = s
    BY <1>1 DEF s
  <2>2. Batch' = [b \in 1..1 |-> Held]
    BY <1>9, <2>1, Mapping
  <2> HIDE DEF Held
  <2> QED
    BY <2>2
<1>11. World' = World /\ Ledger' = Ledger /\ storage_logs' = storage_logs /\ Floor' = Floor
  BY <1>1 DEF World, Ledger, Floor, MapAt, Touched, rolled_back, charges, trace,
              decommits, slots
<1> QED
  BY <1>2, <1>10, <1>11 DEF Floor, Abstract!HoldBatch

\* With its history deleted, transient storage cannot go back beyond what it is.
LEMMA FloorNow ==
  ASSUME TypeOK', transient_storage_changes'.old_entries = << >>
  PROVE  Floor' = transient_storage_changes'.map
<1>1. MapAt(transient_storage_changes', Len(transient_storage_changes'.old_entries))
        = transient_storage_changes'.map
  BY MapAtNow DEF TypeOK
<1>2. Len(transient_storage_changes'.old_entries) = 0
  OBVIOUS
<1> QED
  BY <1>1, <1>2, Mapping

LEMMA HostRollbackRefines ==
  ASSUME ~HostAnywhere, TypeOK, TypeOK', SnapshotsNest, HostRollback
  PROVE  Abstract!UndoBatch
<1> DEFINE s == snapshot[1]
           i == s.internal_snapshot
<1>1. frames = << >> /\ snapshot # << >> /\ snapshot' = << >> /\ frames' = s.near_calls
  BY DEF HostRollback, HostMayAct
<1>2. Len(snapshot) = 1
  <2>1. snapshot \in Seq(ExternalSnapshots) /\ Len(snapshot) <= 1
    BY DEF TypeOK
  <2>2. Len(snapshot) \in Nat
    BY <2>1, LogLength
  <2>3. Len(snapshot) # 0
    BY <1>1, <2>1, EmptySeq
  <2>4. \A n \in Nat : n # 0 /\ n <= 1 => n = 1
    OBVIOUS
  <2> QED
    BY <2>1, <2>2, <2>3, <2>4, Zenon
<1>3. frames' = << >>
  BY <1>1, <1>2 DEF SnapshotsNest
<1>4. Saved = << >> /\ Saved' = << >> /\ Batch' = << >>
  BY <1>1, <1>3, NoCopies
<1>5. Batch # << >> /\ Batch[1] = HostCopy(s)
  BY <1>2, Mapping
<1>6. /\ storage_writes'.map = MapAt(storage_writes, i.storage_writes)
      /\ transient_storage_changes'.map
           = MapAt(transient_storage_changes, i.transient_storage_changes)
      /\ transient_storage_changes'.old_entries = << >>
      /\ events' = LogRollback(events, i.events)
      /\ l2_to_l1_logs' = LogRollback(l2_to_l1_logs, i.l2_to_l1_logs)
      /\ pubdata' = i.pubdata
  BY DEF HostRollback, MapRollback, MapDeleteHistory
<1>7. /\ storage_refunds' = LogRollback(storage_refunds, s.storage_refunds)
      /\ pubdata_costs' = LogRollback(pubdata_costs, s.pubdata_costs)
      /\ decommitted_hashes'.map = MapAt(decommitted_hashes, s.decommitted_hashes)
      /\ decommit_pinned_pages'.map
           = SetAt(decommit_pinned_pages, s.decommit_pinned_pages)
      /\ slot_flags'.map = MapAt(slot_flags, s.slot_flags)
      /\ storage_logs' = LogRollback(storage_logs, i.storage_logs_len)
  BY DEF HostRollback, MapRollback, MapDeleteHistory, SetRollback, SetDeleteHistory
<1>8. World' = Copy(i)
  BY <1>6, NewWorld DEF Copy, WorldOf
<1>9. Ledger' = LedgerCopy(s)
  BY <1>7, NewWorld DEF LedgerCopy, LedgerOf
<1>10. Floor' = World'.transient
  BY <1>6, FloorNow, NewWorld
<1>11. /\ Batch[1].world = World' /\ Batch[1].ledger = Ledger'
       /\ Batch[1].trace = storage_logs'
  BY <1>5, <1>7, <1>8, <1>9 DEF HostCopy
<1> QED
  BY <1>4, <1>5, <1>10, <1>11 DEF Floor, Abstract!UndoBatch

LEMMA PopSnapshotRefines ==
  ASSUME ~HostAnywhere, TypeOK, TypeOK', PopSnapshot
  PROVE  Abstract!CommitBatch
<1>1. /\ frames = << >> /\ frames' = << >> /\ snapshot' = << >>
      /\ UNCHANGED << events, l2_to_l1_logs, pubdata, charges, trace >>
  BY DEF PopSnapshot, HostMayAct
<1>2. /\ storage_writes'.map = storage_writes.map
      /\ transient_storage_changes'.map = transient_storage_changes.map
      /\ transient_storage_changes'.old_entries = << >>
      /\ decommitted_hashes'.map = decommitted_hashes.map
      /\ decommit_pinned_pages'.map = decommit_pinned_pages.map
      /\ slot_flags'.map = slot_flags.map
  BY DEF PopSnapshot, MapDeleteHistory, SetDeleteHistory
<1>3. Saved = << >> /\ Saved' = << >> /\ Batch' = << >>
  BY <1>1, NoCopies
<1>4. World' = World /\ Ledger' = Ledger /\ storage_logs' = storage_logs
  BY <1>1, <1>2 DEF World, Ledger, charges, trace
<1>5. Floor' = World.transient
  BY <1>2, FloorNow DEF World
<1> QED
  BY <1>3, <1>4, <1>5 DEF Floor, Abstract!CommitBatch

\* The host's copy of transient storage is emptied too.
LEMMA StartNewTxRefines ==
  ASSUME ~HostAnywhere, TypeOK, TypeOK', SnapshotsNest, StartNewTx
  PROVE  Abstract!StartTx
<1> DEFINE absent == Abstract!Absent(TransientKeys)
<1>1. /\ frames = << >> /\ frames' = << >> /\ snapshot' = snapshot
      /\ UNCHANGED << storage_writes, events, l2_to_l1_logs, pubdata,
                      charges, trace, decommits, slots >>
      /\ transient_storage_changes' = EmptyMap(TransientKeys)
  BY DEF StartNewTx, control
<1>2. /\ transient_storage_changes'.map = absent
      /\ transient_storage_changes'.old_entries = << >>
  BY <1>1 DEF EmptyMap, Abstract!Absent
<1> HIDE DEF absent
<1>3. Saved = << >> /\ Saved' = << >>
  BY <1>1, NoCopies
<1>4. Floor' = absent /\ MapAt(transient_storage_changes', 0) = absent
  BY <1>2, FloorNow, Mapping
<1>5. World' = [World EXCEPT !.transient = absent]
  BY <1>1, <1>2, NewWorld DEF World
<1>6. Ledger' = Ledger /\ storage_logs' = storage_logs
  BY <1>1 DEF Ledger, charges, trace, decommits, slots
<1>7. ASSUME NEW b \in 1..Len(snapshot)
      PROVE  NewHostCopy(snapshot[b])
               = [HostCopy(snapshot[b]) EXCEPT !.world.transient = absent]
  <2> DEFINE s == snapshot[b]
             i == s.internal_snapshot
  <2>1. i.transient_storage_changes = 0
    BY DEF SnapshotsNest
  <2> HIDE DEF s
  <2>2. NewCopy(i) = [Copy(i) EXCEPT !.transient = absent]
    <3>1. /\ NewCopy(i) = [writes |-> MapAt(storage_writes, i.storage_writes),
                           transient |-> absent,
                           events |-> LogRollback(events, i.events),
                           l2_to_l1_logs |-> LogRollback(l2_to_l1_logs, i.l2_to_l1_logs),
                           pubdata |-> i.pubdata]
      BY <1>1, <1>4, <2>1 DEF NewCopy, WorldOf
    <3> QED
      BY <3>1 DEF Copy, WorldOf
  <2>3. NewLedgerCopy(s) = LedgerCopy(s)
    BY <1>1 DEF NewLedgerCopy, LedgerCopy, charges, decommits, slots
  <2>4. HostCopy(s) = [world |-> Copy(i), ledger |-> LedgerCopy(s),
                       trace |-> LogRollback(storage_logs, i.storage_logs_len)]
    BY DEF HostCopy
  <2>5. NewHostCopy(s) = [world |-> [Copy(i) EXCEPT !.transient = absent],
                          ledger |-> LedgerCopy(s),
                          trace |-> LogRollback(storage_logs, i.storage_logs_len)]
    BY <1>6, <2>2, <2>3 DEF NewHostCopy
  <2> QED
    BY <2>4, <2>5 DEF s
<1>8. Batch' = [b \in 1..Len(Batch) |-> [Batch[b] EXCEPT !.world.transient = absent]]
  <2>1. Len(snapshot) \in Nat
    BY LogLength DEF TypeOK
  <2>2. Len(Batch) = Len(snapshot)
    BY <2>1, Mapping, FunctionAsSequence
  <2>3. \A b \in 1..Len(snapshot) : Batch[b] = HostCopy(snapshot[b])
    BY Mapping
  <2>4. Batch' = [b \in 1..Len(snapshot) |-> NewHostCopy(snapshot[b])]
    BY <1>1, Mapping
  <2> QED
    BY <1>7, <2>2, <2>3, <2>4
<1> QED
  BY <1>3, <1>4, <1>5, <1>6, <1>8 DEF Floor, absent, Abstract!StartTx

LEMMA InitRefines ==
  ASSUME Init
  PROVE  Abstract!Init
<1>1. /\ World = [writes |-> Abstract!Absent(Keys),
                  transient |-> Abstract!Absent(TransientKeys),
                  events |-> << >>, l2_to_l1_logs |-> << >>, pubdata |-> 0]
      /\ Ledger = [flags |-> Abstract!Absent(Keys), hashes |-> Abstract!Absent(Hashes),
                   pinned |-> {}, refunds |-> << >>, costs |-> << >>]
  BY DEF Init, World, Ledger, EmptyMap, EmptySet, Abstract!Absent
<1>2. Saved = << >> /\ Batch = << >> /\ storage_logs = << >>
  BY NoCopies DEF Init
<1>3. Floor = Abstract!Absent(TransientKeys)
  <2>1. EmptyMap(TransientKeys) \in JournaledMap(TransientKeys, Values)
    BY EmptyMapType
  <2>2. Len(EmptyMap(TransientKeys).old_entries) = 0
    BY DEF EmptyMap
  <2>3. MapAt(EmptyMap(TransientKeys), 0) = EmptyMap(TransientKeys).map
    BY <2>1, <2>2, MapAtNow
  <2> QED
    BY <2>3 DEF Init, Floor, EmptyMap, Abstract!Absent
<1> QED
  BY <1>1, <1>2, <1>3 DEF Floor, Abstract!Init

LEMMA NextRefines ==
  ASSUME ~HostAnywhere, NoneIsNoRecord, TypeOK, TypeOK', SnapshotsNest, [Next]_vars
  PROVE  [Abstract!Next]_(Abstract!avars)
<1>1. CASE StorageStep
  BY <1>1, StorageStepRefines DEF Abstract!Next
<1>2. CASE TransientStep
  BY <1>2, TransientStepRefines DEF Abstract!Next
<1>3. CASE MessageStep
  BY <1>3, MessageStepRefines DEF Abstract!Next
<1>4. CASE DecommitStep
  BY <1>4, DecommitStepRefines DEF Abstract!Next
<1>5. CASE CallStep
  BY <1>5, CallRefines, ReturnOkRefines, ReturnFailedRefines DEF CallStep, Abstract!Next
<1>6. CASE HostStep
  BY <1>6, MakeSnapshotRefines, HostRollbackRefines, PopSnapshotRefines,
     StartNewTxRefines DEF HostStep, Abstract!Next
<1>7. CASE UNCHANGED vars
  <2>1. /\ UNCHANGED << rolled_back, charges, trace, decommits, slots >>
        /\ UNCHANGED control
    BY <1>7 DEF vars
  <2>2. World' = World /\ Ledger' = Ledger /\ storage_logs' = storage_logs
    BY <2>1 DEF World, Ledger, rolled_back, charges, trace, decommits, slots
  <2>3. Saved' = Saved /\ Batch' = Batch /\ Floor' = Floor
    BY <1>7, <2>1, ReturnOkGrows, CopiesKept
  <2> QED
    BY <2>2, <2>3 DEF Floor, Abstract!avars
<1> QED
  BY <1>1, <1>2, <1>3, <1>4, <1>5, <1>6, <1>7 DEF Next

\* The journaled world is the world that keeps copies, for any number of slots,
\* calls and accesses, as long as the host acts between calls: a failed call puts
\* back exactly what it found, charges and records outlive it, and the host gets
\* back what it snapshotted (RollbackableMap::rollback, WorldDiff::rollback,
\* external_rollback).
THEOREM Refines ==
  ASSUME ~HostAnywhere, NoneIsNoRecord
  PROVE  Spec => ImplementsAbstractWorld
<1>1. Init => Abstract!Init
  BY InitRefines
<1>2. TypeOK /\ TypeOK' /\ SnapshotsNest /\ [Next]_vars
        => [Abstract!Next]_(Abstract!avars)
  BY NextRefines
<1> QED
  BY <1>1, <1>2, TypeInvariant, Nesting, PTL DEF Spec, ImplementsAbstractWorld, Abstract!Spec
=============================================================================
