-------------------------- MODULE SmfDpdTableProofs --------------------------
(***************************************************************************)
(* Proofs about SmfDpdTable for every set of flows and of packet ids,      *)
(* every limit and every age.                                              *)
(***************************************************************************)
EXTENDS SmfDpdTable, FiniteSetTheorems, SequenceTheorems, TLAPS

-----------------------------------------------------------------------------
\* Sequences and sets

\* What the methods make of a list.
LEMMA ListElements ==
    ASSUME NEW S, NEW s \in Seq(S)
    PROVE  /\ Len(s) \in Nat
           /\ \A n \in 1 .. Len(s) : s[n] \in S
           /\ s = << >> <=> Len(s) = 0
OBVIOUS

LEMMA AppendElements ==
    ASSUME NEW S, NEW s \in Seq(S), NEW e \in S
    PROVE  /\ Append(s, e) \in Seq(S)
           /\ Len(Append(s, e)) = Len(s) + 1
           /\ \A n \in 1 .. Len(s) + 1 :
                Append(s, e)[n] = IF n = Len(s) + 1 THEN e ELSE s[n]
OBVIOUS

LEMMA TailElements ==
    ASSUME NEW S, NEW s \in Seq(S), s # << >>
    PROVE  /\ Tail(s) \in Seq(S)
           /\ Len(Tail(s)) = Len(s) - 1
           /\ \A n \in 1 .. Len(s) - 1 : Tail(s)[n] = s[n + 1]
OBVIOUS

LEMMA DropElements ==
    ASSUME NEW S, NEW s \in Seq(S), NEW g \in 0 .. Len(s)
    PROVE  /\ SubSeq(s, g + 1, Len(s)) \in Seq(S)
           /\ Len(SubSeq(s, g + 1, Len(s))) = Len(s) - g
           /\ \A n \in 1 .. Len(s) - g : SubSeq(s, g + 1, Len(s))[n] = s[g + n]
<1> DEFINE len == Len(s)
<1>1. len \in Nat /\ \A n \in 1 .. len : s[n] \in S
  OBVIOUS
<1>2. g \in 0 .. len
  OBVIOUS
<1> HIDE DEF len
<1>3. g + 1 \in Int /\ len \in Int /\ \A n \in g + 1 .. len : s[n] \in S
  BY <1>1, <1>2
<1>4. /\ SubSeq(s, g + 1, len) \in Seq(S)
      /\ Len(SubSeq(s, g + 1, len)) = IF g + 1 <= len THEN len - (g + 1) + 1 ELSE 0
      /\ \A n \in 1 .. len - (g + 1) + 1 : SubSeq(s, g + 1, len)[n] = s[g + 1 + n - 1]
  BY <1>3, SubSeqProperties
<1>5. /\ SubSeq(s, g + 1, len) \in Seq(S)
      /\ Len(SubSeq(s, g + 1, len)) = len - g
      /\ \A n \in 1 .. len - g : SubSeq(s, g + 1, len)[n] = s[g + n]
  BY <1>1, <1>2, <1>4
<1> QED
  BY <1>5 DEF len

\* A set of positions that holds all positions before each of its own is the
\* first so many.
LEMMA InitialSegment ==
    ASSUME NEW len \in Nat, NEW P, P \subseteq 1 .. len,
           \A n \in P : 1 .. n \subseteq P
    PROVE  Cardinality(P) \in 0 .. len /\ P = 1 .. Cardinality(P)
<1> DEFINE g == Cardinality(P)
<1>1. IsFiniteSet(1 .. len) /\ Cardinality(1 .. len) = len
  BY FS_Interval
<1>2. IsFiniteSet(P) /\ g <= len /\ g \in Nat
  BY <1>1, FS_Subset, FS_CardinalityType
<1>3. IsFiniteSet(1 .. g) /\ Cardinality(1 .. g) = g
  BY <1>2, FS_Interval
<1> HIDE DEF g
<1>4. ASSUME NEW n \in P PROVE n \in 1 .. g
  <2>1. n \in Nat /\ n >= 1 /\ 1 .. n \in SUBSET P
    BY <1>4
  <2>2. Cardinality(1 .. n) = n
    BY <2>1, FS_Interval
  <2>3. n <= g
    BY <1>2, <2>1, <2>2, FS_Subset DEF g
  <2> QED
    BY <1>2, <2>1, <2>3
<1>5. P = 1 .. g
  BY <1>3, <1>4, FS_Subset DEF g
<1> QED
  BY <1>2, <1>5 DEF g

-----------------------------------------------------------------------------
\* One flow's table

\* No id is listed twice, and the list is in order of arrival.
Once(t) == \A m, n \in 1 .. Len(t.list) : t.list[m].id = t.list[n].id => m = n

Ordered(t) == \A m, n \in 1 .. Len(t.list) : m <= n => t.list[n].age <= t.list[m].age

\* A list that lost its head keeps one id in the tree; it is at the limit, so
\* that nothing is appended to it any more.
Lost(t) ==
    /\ Headless(t)
    /\ \E i \in PktId : t.tree = {i}
    /\ pkt_count_max > 0 /\ t.count = pkt_count_max

\* The table as the lookups and the eviction need it.
Tracks(t) ==
    /\ t.list # << >> /\ t.tail
    /\ t.tree = Ids(t)
    /\ Len(t.list) <= t.count
    /\ pkt_count_max > 0 => t.count <= pkt_count_max

TableOK(t) ==
    /\ t \in TableType
    /\ Once(t) /\ Ordered(t)
    /\ Lost(t) \/ Tracks(t)

\* The ids of a list without repetition are as many as its entries.
LEMMA IdsCounted ==
    ASSUME NEW t \in TableType, Once(t)
    PROVE  Cardinality(Ids(t)) = Len(t.list)
<1> DEFINE len == Len(t.list)
           f == [n \in 1 .. len |-> t.list[n].id]
<1>1. len \in Nat
  BY DEF TableType
<1>2. f \in Bijection(1 .. len, Ids(t))
  BY DEF Bijection, Injection, Surjection, IsInjective, Once, Ids
<1> QED
  BY <1>1, <1>2, FS_CountingElements DEF ExistsBijection

\* The parts of a table and of an entry.
LEMMA TableParts ==
    ASSUME NEW t \in TableType
    PROVE  /\ t.list \in Seq(Entry) /\ t.tail \in BOOLEAN
           /\ t.tree \subseteq PktId /\ t.count \in Nat
BY DEF TableType

LEMMA EntryParts ==
    ASSUME NEW e \in Entry
    PROVE  e.id \in PktId /\ e.age \in Int /\ e.age >= 0
BY AgeAssumption DEF Entry

\* A new id behind the others.
LEMMA AppendOK ==
    ASSUME NEW t \in TableType, Once(t), Ordered(t), t.list = << >> => ~t.tail,
           t.tree = Ids(t), Len(t.list) <= t.count,
           NEW i \in PktId, i \notin t.tree, ~AtLimit(t)
    PROVE  /\ TableOK(AppendEntry(t, i))
           /\ AppendEntry(t, i).tree = t.tree \cup {i}
<1> DEFINE y == AppendEntry(t, i)
           len == Len(t.list)
           e == [id |-> i, age |-> 0]
<1>0. /\ t.list \in Seq(Entry) /\ t.tail \in BOOLEAN /\ t.tree \subseteq PktId /\ t.count \in Nat
      /\ e \in Entry /\ len \in Nat
  <2>1. e \in Entry
    BY AgeAssumption DEF Entry
  <2> QED
    BY <2>1, TableParts, ListElements
<1>1. /\ y.list = Append(t.list, e) /\ y.tail = TRUE
      /\ y.tree = t.tree \cup {i} /\ y.count = t.count + 1
  <2>1. ~(t.tail /\ t.list = << >>)
    BY <1>0
  <2> QED
    BY <2>1 DEF AppendEntry, TableType
<1>2. /\ y.list \in Seq(Entry) /\ Len(y.list) = len + 1
      /\ \A n \in 1 .. len + 1 : y.list[n] = IF n = len + 1 THEN e ELSE t.list[n]
  BY <1>0, <1>1, AppendElements
<1>3. \A n \in 1 .. len + 1 : n = len + 1 \/ n \in 1 .. len
  BY <1>0
<1>4. y.tail = TRUE /\ y.tree = t.tree \cup {i} /\ y.count = t.count + 1 /\ y \in TableType
  <2>1. ~(t.tail /\ t.list = << >>) /\ Append(t.list, e) \in Seq(Entry)
    BY <1>0, <1>1, <1>2
  <2>2. t.tree \cup {i} \in SUBSET PktId /\ t.count + 1 \in Nat
    BY <1>0
  <2>3. y \in TableType
    BY <2>1, <2>2 DEF AppendEntry, TableType
  <2> QED
    BY <1>1, <2>3
<1>5. \A n \in 1 .. len : t.list[n].id # i /\ t.list[n].age >= 0 /\ t.list[n].age \in Int
  BY <1>0, EntryParts, ListElements DEF Ids
<1> HIDE DEF y
<1>6. Once(y)
  <2> SUFFICES ASSUME NEW m \in 1 .. len + 1, NEW n \in 1 .. len + 1,
                      y.list[m].id = y.list[n].id
               PROVE  m = n
    BY <1>2 DEF Once
  <2>1. e.id = i
    OBVIOUS
  <2> HIDE DEF e
  <2>2. \A k \in 1 .. len + 1 : IF k = len + 1 THEN y.list[k].id = i
                                ELSE k \in 1 .. len /\ y.list[k].id = t.list[k].id
    BY <1>2, <1>3, <2>1
  <2>3. CASE m = len + 1
    BY <1>5, <2>2, <2>3
  <2>4. CASE n = len + 1
    BY <1>5, <2>2, <2>4
  <2>5. CASE m # len + 1 /\ n # len + 1
    BY <2>2, <2>5 DEF Once
  <2> QED
    BY <2>3, <2>4, <2>5
<1>7. Ordered(y)
  <2> SUFFICES ASSUME NEW m \in 1 .. len + 1, NEW n \in 1 .. len + 1, m <= n
               PROVE  y.list[n].age <= y.list[m].age
    BY <1>2 DEF Ordered
  <2>1. CASE n = len + 1
    BY <1>0, <1>2, <1>3, <1>5, <2>1
  <2>2. CASE n # len + 1
    <3>1. m \in 1 .. len /\ n \in 1 .. len /\ m # len + 1
      BY <1>0, <2>2
    <3>2. y.list[m] = t.list[m] /\ y.list[n] = t.list[n]
      BY <1>2, <2>2, <3>1
    <3> QED
      BY <3>1, <3>2 DEF Ordered
  <2> QED
    BY <2>1, <2>2
<1>8. Ids(y) = y.tree
  <2>1. \A n \in 1 .. len : n \in 1 .. len + 1 /\ n # len + 1
    BY <1>0
  <2>2. len + 1 \in 1 .. len + 1
    BY <1>0
  <2> QED
    BY <1>2, <1>3, <1>4, <2>1, <2>2 DEF Ids
<1>9. y.list # << >> /\ Len(y.list) <= y.count /\ (pkt_count_max > 0 => y.count <= pkt_count_max)
  BY <1>0, <1>2, <1>4, CountAssumption DEF AtLimit
<1> QED
  BY <1>4, <1>6, <1>7, <1>8, <1>9 DEF TableOK, Tracks, y

\* The oldest leaves; the tail stays set, even if the list is empty then.
LEMMA RemoveHeadOK ==
    ASSUME NEW t, TableOK(t), Tracks(t)
    PROVE  LET x == RemoveHead(t) IN
           /\ x \in TableType /\ Once(x) /\ Ordered(x) /\ x.tail
           /\ x.tree = Ids(x) /\ x.tree = t.tree \ {t.list[1].id}
           /\ x.count = t.count - 1 /\ Len(x.list) <= x.count
<1> DEFINE x == RemoveHead(t)
           len == Len(t.list)
<1>0. /\ t.list \in Seq(Entry) /\ t.tail /\ t.tree \subseteq PktId /\ t.count \in Nat
      /\ len \in Nat /\ len > 0 /\ t.tree = Ids(t) /\ len <= t.count
      /\ t \in TableType
  <2>1. t \in TableType
    BY DEF TableOK
  <2> QED
    BY <2>1 DEF Tracks, TableType
<1>1. /\ x.list = Tail(t.list) /\ x.tail = t.tail
      /\ x.tree = t.tree \ {t.list[1].id} /\ x.count = t.count - 1
  BY <1>0 DEF RemoveHead, TableType
<1>2. /\ x.list \in Seq(Entry) /\ Len(x.list) = len - 1
      /\ \A n \in 1 .. len - 1 : x.list[n] = t.list[n + 1]
  BY <1>0, <1>1, TailElements
<1>3. /\ x.tail = t.tail /\ x.tree = t.tree \ {t.list[1].id} /\ x.count = t.count - 1
      /\ x \in TableType
  <2>1. t.count - 1 \in Nat /\ Tail(t.list) \in Seq(Entry)
    BY <1>0, <1>1, <1>2
  <2> QED
    BY <1>0, <1>1, <2>1 DEF RemoveHead, TableType
<1> HIDE DEF x
<1>4. \A n \in 1 .. len - 1 : n + 1 \in 1 .. len /\ n + 1 # 1
  BY <1>0
<1>5. \A n \in 1 .. len : n # 1 => n - 1 \in 1 .. len - 1 /\ (n - 1) + 1 = n
  BY <1>0
<1>6. Once(x)
  <2> SUFFICES ASSUME NEW m \in 1 .. len - 1, NEW n \in 1 .. len - 1, x.list[m].id = x.list[n].id
               PROVE  m = n
    BY <1>2 DEF Once
  <2>1. m + 1 = n + 1
    BY <1>2, <1>4 DEF TableOK, Once
  <2> QED
    BY <1>0, <2>1
<1>7. Ordered(x)
  <2> SUFFICES ASSUME NEW m \in 1 .. len - 1, NEW n \in 1 .. len - 1, m <= n
               PROVE  x.list[n].age <= x.list[m].age
    BY <1>2 DEF Ordered
  <2>1. m + 1 <= n + 1
    BY <1>0
  <2> QED
    BY <1>2, <1>4, <2>1 DEF TableOK, Ordered
<1>8. Ids(x) = x.tree
  <2>1. 1 \in 1 .. len
    BY <1>0
  <2>2. \A n \in 1 .. len : n # 1 => t.list[n].id # t.list[1].id
    BY <2>1 DEF TableOK, Once
  <2>3. \A n \in 1 .. len - 1 : x.list[n].id \in t.tree \ {t.list[1].id}
    BY <1>0, <1>2, <1>4, <2>2 DEF Ids
  <2>4. \A n \in 1 .. len : t.list[n].id # t.list[1].id =>
           \E k \in 1 .. len - 1 : t.list[n].id = x.list[k].id
    BY <1>2, <1>5
  <2>5. t.tree = {t.list[n].id : n \in 1 .. len} /\ Ids(x) = {x.list[n].id : n \in 1 .. len - 1}
    BY <1>0, <1>2 DEF Ids
  <2>6. ASSUME NEW i \in t.tree \ {t.list[1].id} PROVE i \in Ids(x)
    BY <2>4, <2>5, <2>6
  <2>7. ASSUME NEW i \in Ids(x) PROVE i \in t.tree \ {t.list[1].id}
    BY <2>3, <2>5, <2>7
  <2>8. Ids(x) = t.tree \ {t.list[1].id}
    BY <2>6, <2>7
  <2> QED
    BY <1>3, <2>8
<1> QED
  BY <1>0, <1>2, <1>3, <1>6, <1>7, <1>8 DEF x

\* Prune takes the entries in front that are stale, which are all that are.
LEMMA StaleEntries ==
    ASSUME NEW t \in TableType, Ordered(t)
    PROVE  /\ Cardinality(Stale(t)) \in 0 .. Len(t.list)
           /\ Stale(t) = 1 .. Cardinality(Stale(t))
           /\ \A n \in 1 .. Len(t.list) : n \in Stale(t) <=> t.list[n].age > AgeMax
<1> DEFINE len == Len(t.list)
<1>1. len \in Nat /\ \A n \in 1 .. len : t.list[n].age \in Int
  BY TableParts, ListElements, EntryParts
<1>2. Stale(t) \subseteq 1 .. len
  BY DEF Stale
<1>3. ASSUME NEW n \in Stale(t) PROVE 1 .. n \subseteq Stale(t)
  <2>1. n \in 1 .. len /\ \A k \in 1 .. n : t.list[k].age > AgeMax
    BY <1>3 DEF Stale
  <2> SUFFICES ASSUME NEW m \in 1 .. n PROVE m \in 1 .. len /\ \A k \in 1 .. m : t.list[k].age > AgeMax
    BY DEF Stale
  <2> QED
    BY <1>1, <2>1
<1>4. ASSUME NEW n \in 1 .. len, t.list[n].age > AgeMax PROVE n \in Stale(t)
  <2>1. ASSUME NEW k \in 1 .. n PROVE t.list[k].age > AgeMax
    <3>1. k \in 1 .. len /\ k <= n
      BY <1>1, <2>1
    <3>2. t.list[n].age <= t.list[k].age
      BY <3>1 DEF Ordered
    <3> QED
      BY <1>1, <1>4, <3>1, <3>2, AgeAssumption
  <2> QED
    BY <2>1 DEF Stale
<1>5. ASSUME NEW n \in Stale(t) PROVE t.list[n].age > AgeMax
  <2>1. n \in 1 .. n
    BY <1>1, <1>2
  <2> QED
    BY <2>1 DEF Stale
<1> HIDE DEF len
<1>6. Cardinality(Stale(t)) \in 0 .. len /\ Stale(t) = 1 .. Cardinality(Stale(t))
  BY <1>1, <1>2, <1>3, InitialSegment
<1> QED
  BY <1>4, <1>5, <1>6 DEF len

\* What Prune leaves of a table: the fresh entries, in the list and the tree.
LEMMA PruneOK ==
    ASSUME NEW t, TableOK(t)
    PROVE  LET x == PruneTable(t) IN
           /\ x \in TableType
           /\ Once(x) /\ Ordered(x)
           /\ x.list = << >> \/ Tracks(x)
           /\ \A n \in 1 .. Len(x.list) : x.list[n].age <= AgeMax
           /\ x.tree \subseteq t.tree
           /\ ~Headless(t) => x.tree = FreshIds(t) /\ x.tree = Ids(x)
<1> DEFINE x == PruneTable(t)
           len == Len(t.list)
           g == Cardinality(Stale(t))
           kept == SubSeq(t.list, g + 1, len)
           gone == {t.list[n].id : n \in Stale(t)}
<1>0. /\ t \in TableType /\ t.list \in Seq(Entry) /\ t.tree \subseteq PktId
      /\ len \in Nat /\ t.count \in Nat
      /\ \A n \in 1 .. len : t.list[n].age \in Int
  BY TableParts, ListElements, EntryParts DEF TableOK
<1>1. /\ g \in 0 .. len /\ Stale(t) = 1 .. g
      /\ \A n \in 1 .. len : n \in Stale(t) <=> t.list[n].age > AgeMax
  BY <1>0, StaleEntries DEF TableOK
<1>2. /\ kept \in Seq(Entry) /\ Len(kept) = len - g
      /\ \A n \in 1 .. len - g : kept[n] = t.list[g + n]
  BY <1>0, <1>1, DropElements
<1>3. /\ x.list = kept /\ x.tail = (kept # << >>)
      /\ x.tree = t.tree \ gone /\ x.count = t.count
  BY <1>0 DEF PruneTable, TableType
<1>4. x \in TableType
  <2>1. t.tree \ gone \in SUBSET PktId /\ (kept # << >>) \in BOOLEAN
    BY <1>0
  <2>2. kept \in Seq(Entry)
    BY <1>2
  <2> QED
    BY <1>0, <2>1, <2>2 DEF PruneTable, TableType
<1>5. kept = << >> <=> len - g = 0
  BY <1>2, ListElements
<1> HIDE DEF x, len, g, kept, gone
<1>6. /\ Len(x.list) = len - g /\ \A n \in 1 .. len - g : x.list[n] = t.list[g + n]
      /\ \A n \in 1 .. len - g : g + n \in 1 .. len /\ g + n \notin 1 .. g
      /\ \A n \in 1 .. len : n \notin 1 .. g => n - g \in 1 .. len - g /\ g + (n - g) = n
  BY <1>0, <1>1, <1>2, <1>3
<1>7. Once(x)
  <2> SUFFICES ASSUME NEW m \in 1 .. len - g, NEW n \in 1 .. len - g, x.list[m].id = x.list[n].id
               PROVE  m = n
    BY <1>6 DEF Once
  <2>1. g + m = g + n
    BY <1>6 DEF TableOK, Once, len
  <2> QED
    BY <1>0, <1>1, <2>1
<1>8. Ordered(x)
  <2> SUFFICES ASSUME NEW m \in 1 .. len - g, NEW n \in 1 .. len - g, m <= n
               PROVE  x.list[n].age <= x.list[m].age
    BY <1>6 DEF Ordered
  <2>1. g + m <= g + n
    BY <1>0, <1>1
  <2> QED
    BY <1>6, <2>1 DEF TableOK, Ordered, len
<1>9. \A n \in 1 .. len - g : x.list[n].age <= AgeMax
  <2> SUFFICES ASSUME NEW n \in 1 .. len - g PROVE x.list[n].age <= AgeMax
    OBVIOUS
  <2> DEFINE k == g + n
  <2>1. k \in 1 .. len /\ k \notin 1 .. g /\ x.list[n] = t.list[k]
    BY <1>6
  <2> HIDE DEF k
  <2> QED
    BY <1>0, <1>1, <2>1, AgeAssumption
<1>10. x.tree \subseteq t.tree
  BY <1>3
<1>11. ASSUME ~Headless(t) PROVE x.tree = FreshIds(t) /\ x.tree = Ids(x)
  <2>1. t.tree = {t.list[n].id : n \in 1 .. len}
    BY <1>11 DEF TableOK, Lost, Tracks, Ids, len
  <2>2. gone = {t.list[n].id : n \in 1 .. g}
    BY <1>1 DEF gone
  <2>3. ASSUME NEW i \in x.tree PROVE \E n \in 1 .. len - g : i = x.list[n].id
    <3>1. PICK n \in 1 .. len : i = t.list[n].id /\ n \notin 1 .. g
      BY <1>3, <2>1, <2>2, <2>3
    <3> QED
      BY <1>6, <3>1
  <2>4. ASSUME NEW n \in 1 .. len - g PROVE x.list[n].id \in x.tree
    <3>1. x.list[n].id = t.list[g + n].id /\ g + n \in 1 .. len /\ g + n \notin 1 .. g
      BY <1>6
    <3>2. \A k \in 1 .. g : k \in 1 .. len
      BY <1>0, <1>1
    <3>3. \A k \in 1 .. g : t.list[k].id # t.list[g + n].id
      BY <3>1, <3>2 DEF TableOK, Once, len
    <3> QED
      BY <1>3, <2>1, <2>2, <3>1, <3>3
  <2>5. x.tree = Ids(x)
    <3>1. Ids(x) = {x.list[n].id : n \in 1 .. len - g}
      BY <1>6 DEF Ids
    <3>2. x.tree \subseteq Ids(x)
      BY <2>3, <3>1
    <3>3. Ids(x) \subseteq x.tree
      BY <2>4, <3>1
    <3> QED
      BY <3>2, <3>3
  <2>6. \A n \in 1 .. len : t.list[n].age <= AgeMax <=> n \notin 1 .. g
    BY <1>0, <1>1, AgeAssumption
  <2>7. FreshIds(t) = {t.list[n].id : n \in {k \in 1 .. len : k \notin 1 .. g}}
    BY <2>6 DEF FreshIds, len
  <2>8. ASSUME NEW i \in FreshIds(t) PROVE i \in Ids(x)
    <3>1. PICK n \in 1 .. len : i = t.list[n].id /\ n \notin 1 .. g
      BY <2>7, <2>8
    <3> QED
      BY <1>6, <3>1 DEF Ids
  <2>9. ASSUME NEW n \in 1 .. len - g PROVE x.list[n].id \in FreshIds(t)
    BY <1>6, <2>7
  <2> QED
    BY <1>6, <2>5, <2>8, <2>9 DEF Ids
<1>12. CASE Headless(t)
  <2>1. len = 0 /\ g = 0
    BY <1>0, <1>1, <1>12 DEF Headless, len
  <2> QED
    BY <1>3, <1>4, <1>5, <1>6, <1>7, <1>8, <1>9, <1>10, <1>12, <2>1 DEF x
<1>13. CASE ~Headless(t)
  <2>1. len <= t.count /\ (pkt_count_max > 0 => t.count <= pkt_count_max)
    BY <1>13 DEF TableOK, Lost, Tracks, len
  <2>2. x.list = << >> \/ Tracks(x)
    <3>1. CASE x.list # << >>
      <4>1. x.tail = TRUE
        BY <1>3, <3>1
      <4>2. Len(x.list) <= x.count /\ (pkt_count_max > 0 => x.count <= pkt_count_max)
        BY <1>0, <1>1, <1>3, <1>6, <2>1
      <4> QED
        BY <1>11, <1>13, <3>1, <4>1, <4>2 DEF Tracks
    <3> QED
      BY <3>1
  <2> QED
    BY <1>3, <1>4, <1>6, <1>7, <1>8, <1>9, <1>10, <1>11, <1>13, <2>2 DEF x
<1> QED
  BY <1>12, <1>13

\* Time moves on for a table whose entries are all fresh.
LEMMA OlderOK ==
    ASSUME NEW t \in TableType, Once(t), Ordered(t), Tracks(t),
           \A n \in 1 .. Len(t.list) : t.list[n].age <= AgeMax
    PROVE  TableOK(Older(t)) /\ Older(t).tree = t.tree
<1> DEFINE x == Older(t)
           len == Len(t.list)
<1>0. t.list \in Seq(Entry) /\ len \in Nat /\ DOMAIN t.list = 1 .. len /\ t.list # << >>
  BY TableParts, ListElements DEF Tracks
<1>1. \A n \in 1 .. len : t.list[n] \in Entry /\ t.list[n].age \in 0 .. AgeMax
  <2>1. \A n \in 1 .. len : t.list[n] \in Entry
    BY <1>0, ListElements
  <2> QED
    BY <2>1, AgeAssumption DEF Entry
<1> DEFINE older == [n \in 1 .. len |-> [t.list[n] EXCEPT !.age = @ + 1]]
<1>2. \A n \in 1 .. len : /\ older[n] \in Entry /\ older[n].id = t.list[n].id
                          /\ older[n].age = t.list[n].age + 1
  BY <1>1, AgeAssumption DEF Entry
<1>3. older \in Seq(Entry) /\ Len(older) = len
  <2>1. older \in [1 .. len -> Entry]
    BY <1>2
  <2> HIDE DEF older, len
  <2> QED
    BY <1>0, <2>1
<1>4. /\ x.list = older /\ x.tail = t.tail /\ x.tree = t.tree /\ x.count = t.count
      /\ x \in TableType
  <2>1. [n \in DOMAIN t.list |-> [t.list[n] EXCEPT !.age = @ + 1]] = older
    BY <1>0
  <2>2. x = [t EXCEPT !.list = [n \in DOMAIN t.list |-> [t.list[n] EXCEPT !.age = @ + 1]]]
    BY DEF Older
  <2> HIDE DEF x, older
  <2> QED
    BY <1>3, <2>1, <2>2 DEF TableType
<1> HIDE DEF x, older
<1>5. Once(x) /\ Ordered(x) /\ Ids(x) = Ids(t)
  <2>1. /\ Len(x.list) = len
        /\ \A n \in 1 .. len : x.list[n].id = t.list[n].id /\ x.list[n].age = t.list[n].age + 1
        /\ \A n \in 1 .. len : t.list[n].age \in Int
    BY <1>1, <1>2, <1>3, <1>4, AgeAssumption
  <2>2. Once(x)
    BY <2>1 DEF Once
  <2>3. Ordered(x)
    <3> SUFFICES ASSUME NEW m \in 1 .. len, NEW n \in 1 .. len, m <= n
                 PROVE  x.list[n].age <= x.list[m].age
      BY <2>1 DEF Ordered
    <3>1. t.list[n].age <= t.list[m].age
      BY DEF Ordered
    <3> QED
      BY <2>1, <3>1
  <2>4. Ids(x) = Ids(t)
    BY <2>1 DEF Ids
  <2> QED
    BY <2>2, <2>3, <2>4
<1>6. x.list # << >>
  BY <1>0, <1>3, <1>4, ListElements
<1> QED
  BY <1>3, <1>4, <1>5, <1>6 DEF TableOK, Tracks, x

-----------------------------------------------------------------------------
\* All flows

TablesOK == TypeOK /\ \A f \in Flows : TableOK(flow_list[f])

LEMMA AnswerType ==
    ASSUME NEW f \in Flow, NEW i \in PktId, NEW b \in BOOLEAN
    PROVE  /\ Answer(f, i, b) \subseteq [flow : Flow, id : PktId, isDuplicate : BOOLEAN]
           /\ Cardinality(Answer(f, i, b)) <= 1
<1> DEFINE a == [flow |-> f, id |-> i, isDuplicate |-> b]
<1>1. a \in [flow : Flow, id : PktId, isDuplicate : BOOLEAN]
  OBVIOUS
<1> HIDE DEF a
<1>2. Cardinality({a}) = 1
  BY FS_Singleton
<1> QED
  BY <1>1, <1>2 DEF Answer, a

LEMMA InitTables == Init => TablesOK
<1> SUFFICES ASSUME Init PROVE TablesOK
  OBVIOUS
<1>1. Flows = {} /\ Cardinality({}) = 0
  BY FS_EmptySet DEF Init, Flows
<1> QED
  <2>1. answer = {} /\ entry_pools = {} /\ crashed = FALSE
    BY DEF Init
  <2>2. flow_list \in [Flow -> TableType \cup {NoFlow}]
    BY DEF Init
  <2>3. Cardinality(answer) <= 1
    BY <1>1, <2>1
  <2>4. TypeOK
    BY <2>1, <2>2, <2>3 DEF TypeOK
  <2> QED
    BY <1>1, <2>4 DEF TablesOK

\* The table of a flow that was not seen is as good as any.
LEMMA FlowTableOK ==
    ASSUME TablesOK, NEW f \in Flow
    PROVE  /\ FlowTable(f) \in TableType
           /\ f \notin Flows => FlowTable(f) = NewTable
           /\ f \in Flows => FlowTable(f) = flow_list[f] /\ TableOK(FlowTable(f))
<1>1. NewTable \in TableType
  BY DEF NewTable, TableType
<1> QED
  BY <1>1 DEF FlowTable, TablesOK, TypeOK, Flows, TableOK

\* One flow's table changes.
LEMMA OneFlow ==
    ASSUME TablesOK, NEW f \in Flow, NEW t, TableOK(t),
           flow_list' = [flow_list EXCEPT ![f] = t]
    PROVE  /\ flow_list' \in [Flow -> TableType \cup {NoFlow}]
           /\ Flows' = Flows \cup {f}
           /\ \A g \in Flows' : flow_list'[g] = IF g = f THEN t ELSE flow_list[g]
           /\ \A g \in Flows' : TableOK(flow_list'[g])
BY NoFlowAssumption DEF TablesOK, TypeOK, Flows, TableOK

LEMMA AcceptOK ==
    ASSUME TablesOK, NEW f \in Flow, NEW i \in PktId, Accept(f, i)
    PROVE  /\ TableOK(AppendEntry(FlowTable(f), i))
           /\ AppendEntry(FlowTable(f), i).tree = FlowTable(f).tree \cup {i}
<1> DEFINE t == FlowTable(f)
<1>1. t \in TableType /\ i \notin t.tree /\ ~AtLimit(t)
  BY FlowTableOK DEF Accept
<1>2. CASE f \in Flows
  <2>1. TableOK(t)
    BY <1>2, FlowTableOK
  <2> HIDE DEF t
  <2>2. Tracks(t)
    BY <1>1, <2>1, CountAssumption DEF TableOK, Lost, AtLimit
  <2> QED
    BY <1>1, <2>1, <2>2, AppendOK DEF TableOK, Tracks, t
<1>3. CASE f \notin Flows
  <2>1. t = NewTable
    BY <1>3, FlowTableOK
  <2> HIDE DEF t
  <2>2. /\ t.list = << >> /\ ~t.tail /\ t.tree = {} /\ t.count = 0
    BY <2>1 DEF NewTable
  <2>3. Len(t.list) = 0 /\ Once(t) /\ Ordered(t) /\ t.tree = Ids(t)
    BY <2>2 DEF Once, Ordered, Ids
  <2> QED
    BY <1>1, <2>2, <2>3, AppendOK DEF t
<1> QED
  BY <1>2, <1>3

\* At the limit the oldest makes room; if it was the only one, the list is lost.
LEMMA ReplaceOK ==
    ASSUME TablesOK, NEW f \in Flow, NEW i \in PktId, Replace(f, i),
           FlowTable(f).list # << >>
    PROVE  /\ TableOK(AppendEntry(RemoveHead(FlowTable(f)), i))
           /\ AppendEntry(RemoveHead(FlowTable(f)), i).tree \subseteq FlowTable(f).tree \cup {i}
           /\ i \in AppendEntry(RemoveHead(FlowTable(f)), i).tree
           /\ FlowTable(f).list[1].id \in PktId
<1> DEFINE t == FlowTable(f)
           x == RemoveHead(t)
           y == AppendEntry(x, i)
<1>1. t \in TableType /\ i \notin t.tree /\ AtLimit(t) /\ t.list # << >>
  BY FlowTableOK DEF Replace
<1>2. TableOK(t) /\ Tracks(t)
  <2>1. f \in Flows
    BY <1>1, FlowTableOK DEF NewTable
  <2> QED
    BY <1>1, <2>1, FlowTableOK DEF TableOK, Lost, Headless
<1>3. t.list[1].id \in PktId
  <2>1. 1 \in 1 .. Len(t.list) /\ t.list \in Seq(Entry)
    BY <1>1, TableParts, ListElements
  <2> QED
    BY <2>1, ListElements, EntryParts
<1> HIDE DEF t
<1>4. /\ x \in TableType /\ Once(x) /\ Ordered(x) /\ x.tail
      /\ x.tree = Ids(x) /\ x.tree = t.tree \ {t.list[1].id}
      /\ x.count = t.count - 1 /\ Len(x.list) <= x.count
  BY <1>2, RemoveHeadOK
<1>5. /\ pkt_count_max > 0 /\ t.count = pkt_count_max
      /\ x.count = pkt_count_max - 1 /\ pkt_count_max \in Nat
  BY <1>1, <1>2, <1>4, CountAssumption, TableParts DEF AtLimit, Tracks
<1>6. ~AtLimit(x) /\ i \notin x.tree
  BY <1>1, <1>4, <1>5 DEF AtLimit
<1> HIDE DEF x
<1>7. CASE x.list # << >>
  <2>1. TableOK(y) /\ y.tree = x.tree \cup {i}
    BY <1>4, <1>6, <1>7, AppendOK
  <2> QED
    BY <1>3, <1>4, <2>1 DEF t, x
<1>8. CASE x.list = << >>
  <2>1. y.list = << >> /\ y.tail = TRUE /\ y.tree = x.tree \cup {i} /\ y.count = x.count + 1
    BY <1>4, <1>8 DEF AppendEntry, TableType
  <2>2. x.tree = {}
    BY <1>4, <1>8 DEF Ids
  <2>3. y \in TableType
    <3>1. x.tree \cup {i} \in SUBSET PktId /\ x.count + 1 \in Nat
      BY <1>4, TableParts
    <3> QED
      BY <1>4, <1>8, <3>1 DEF AppendEntry, TableType
  <2> HIDE DEF y
  <2>4. Lost(y)
    BY <1>5, <2>1, <2>2 DEF Lost, Headless
  <2>5. Once(y) /\ Ordered(y)
    BY <2>1 DEF Once, Ordered
  <2> QED
    BY <1>3, <2>1, <2>2, <2>3, <2>4, <2>5 DEF TableOK, t, x, y
<1> QED
  BY <1>7, <1>8

\* The table Prune leaves for a flow, if any.
LEMMA PrunedOK ==
    ASSUME TablesOK, NEW f \in Flows, PruneTable(flow_list[f]).list # << >>
    PROVE  /\ TableOK(Older(PruneTable(flow_list[f])))
           /\ Older(PruneTable(flow_list[f])).tree \subseteq flow_list[f].tree
           /\ ~Headless(flow_list[f]) =>
                 Older(PruneTable(flow_list[f])).tree = FreshIds(flow_list[f])
<1> DEFINE t == flow_list[f]
           x == PruneTable(t)
<1>1. TableOK(t)
  BY DEF TablesOK
<1> HIDE DEF t
<1>2. /\ x \in TableType
      /\ Once(x) /\ Ordered(x)
      /\ x.list = << >> \/ Tracks(x)
      /\ \A n \in 1 .. Len(x.list) : x.list[n].age <= AgeMax
      /\ x.tree \subseteq t.tree
      /\ ~Headless(t) => x.tree = FreshIds(t) /\ x.tree = Ids(x)
  BY <1>1, PruneOK
<1>3. Tracks(x)
  BY <1>2 DEF t
<1> HIDE DEF x
<1>4. TableOK(Older(x)) /\ Older(x).tree = x.tree
  BY <1>2, <1>3, OlderOK
<1> QED
  BY <1>2, <1>4 DEF t, x

LEMMA NextTables == TablesOK /\ [Next]_vars => TablesOK'
<1> SUFFICES ASSUME TablesOK, [Next]_vars PROVE TablesOK'
  OBVIOUS
<1>0. TypeOK
  BY DEF TablesOK
<1>1. ASSUME answer' = {} PROVE /\ answer' \subseteq [flow : Flow, id : PktId, isDuplicate : BOOLEAN]
                                /\ Cardinality(answer') <= 1
  <2>1. Cardinality({}) = 0
    BY FS_EmptySet
  <2> QED
    BY <1>1, <2>1
<1>2. ASSUME UNCHANGED flow_list, entry_pools' = entry_pools, crashed' \in BOOLEAN,
             answer' \subseteq [flow : Flow, id : PktId, isDuplicate : BOOLEAN],
             Cardinality(answer') <= 1
      PROVE  TablesOK'
  <2>1. TypeOK'
    BY <1>0, <1>2 DEF TypeOK
  <2>2. Flows' = Flows
    BY <1>2 DEF Flows
  <2> QED
    BY <1>2, <2>1, <2>2 DEF TablesOK
<1>3. CASE Crash
  BY <1>1, <1>2, <1>3 DEF Crash
<1>4. ASSUME NEW f \in Flow, NEW i \in PktId, Duplicate(f, i) PROVE TablesOK'
  BY <1>0, <1>2, <1>4, AnswerType DEF Duplicate, TypeOK
<1>5. ASSUME NEW f \in Flow, NEW t, TableOK(t), flow_list' = [flow_list EXCEPT ![f] = t],
             entry_pools' \subseteq {Length[i] : i \in PktId}, crashed' = crashed,
             NEW i \in PktId, answer' = Answer(f, i, FALSE)
      PROVE  TablesOK'
  <2>1. /\ flow_list' \in [Flow -> TableType \cup {NoFlow}]
        /\ \A g \in Flows' : TableOK(flow_list'[g])
    BY <1>5, OneFlow
  <2>2. TypeOK'
    BY <1>0, <1>5, <2>1, AnswerType DEF TypeOK
  <2> QED
    BY <2>1, <2>2 DEF TablesOK
<1>6. ASSUME NEW f \in Flow, NEW i \in PktId, Accept(f, i) PROVE TablesOK'
  BY <1>0, <1>5, <1>6, AcceptOK DEF Accept, TypeOK
<1>7. ASSUME NEW f \in Flow, NEW i \in PktId, Replace(f, i) PROVE TablesOK'
  <2>1. CASE FlowTable(f).list = << >>
    BY <1>3, <1>7, <2>1 DEF Replace
  <2>2. CASE FlowTable(f).list # << >>
    <3> DEFINE old == FlowTable(f).list[1].id
    <3>1. TableOK(AppendEntry(RemoveHead(FlowTable(f)), i)) /\ old \in PktId
      BY <1>7, <2>2, ReplaceOK
    <3>2. /\ flow_list' = [flow_list EXCEPT ![f] = AppendEntry(RemoveHead(FlowTable(f)), i)]
          /\ entry_pools' = entry_pools \cup ({Length[old]} \ {Length[i]})
          /\ answer' = Answer(f, i, FALSE)
          /\ crashed' = crashed
      BY <1>7, <2>2 DEF Replace
    <3>3. entry_pools' \subseteq {Length[k] : k \in PktId}
      BY <1>0, <3>1, <3>2 DEF TypeOK
    <3> QED
      BY <1>5, <3>1, <3>2, <3>3
  <2> QED
    BY <2>1, <2>2
<1>8. CASE Prune
  <2>1. CASE PruneNeeds \subseteq entry_pools
    <3>1. /\ flow_list' =
                [f \in Flow |->
                    IF f \notin Flows \/ PruneTable(flow_list[f]).list = << >> THEN NoFlow
                    ELSE Older(PruneTable(flow_list[f]))]
          /\ answer' = {} /\ UNCHANGED << entry_pools, crashed >>
      BY <1>8, <2>1 DEF Prune
    <3>2. ASSUME NEW f \in Flow
          PROVE  flow_list'[f] = NoFlow \/ TableOK(flow_list'[f])
      <4>1. CASE f \notin Flows \/ PruneTable(flow_list[f]).list = << >>
        BY <3>1, <4>1
      <4>2. CASE f \in Flows /\ PruneTable(flow_list[f]).list # << >>
        BY <3>1, <4>2, PrunedOK
      <4> QED
        BY <4>1, <4>2
    <3>3. flow_list' \in [Flow -> TableType \cup {NoFlow}]
      <4>1. \A f \in Flow : flow_list'[f] \in TableType \cup {NoFlow}
        BY <3>2 DEF TableOK
      <4>2. flow_list' = [f \in Flow |-> flow_list'[f]]
        BY <3>1
      <4> QED
        BY <4>1, <4>2
    <3>4. TypeOK'
      BY <1>0, <1>1, <3>1, <3>3 DEF TypeOK
    <3> QED
      BY <3>2, <3>4 DEF TablesOK, Flows
  <2>2. CASE ~(PruneNeeds \subseteq entry_pools)
    BY <1>3, <1>8, <2>2 DEF Prune
  <2> QED
    BY <2>1, <2>2
<1>9. CASE Destroy
  <2>1. CASE DestroyNeeds \subseteq entry_pools
    <3>1. /\ flow_list' = [f \in Flow |-> NoFlow]
          /\ entry_pools' = {} /\ answer' = {} /\ crashed' = crashed
      BY <1>9, <2>1 DEF Destroy
    <3>2. TypeOK'
      BY <1>0, <1>1, <3>1 DEF TypeOK
    <3>3. Flows' = {}
      BY <3>1 DEF Flows
    <3> QED
      BY <3>2, <3>3 DEF TablesOK
  <2>2. CASE ~(DestroyNeeds \subseteq entry_pools)
    BY <1>3, <1>9, <2>2 DEF Destroy
  <2> QED
    BY <2>1, <2>2
<1>10. CASE UNCHANGED vars
  BY <1>0, <1>2, <1>10 DEF vars, TypeOK
<1> QED
  BY <1>4, <1>6, <1>7, <1>8, <1>9, <1>10 DEF Next

LEMMA SpecTables == Spec => []TablesOK
BY InitTables, NextTables, PTL DEF Spec

\* Lookup tree, list and count agree for every limit and every mixture of
\* checks and prunings, but for the one table that lost its list's head.
THEOREM TablesAgree == Spec => []TreeTracksList
<1>1. TablesOK => TreeTracksList
  <2> SUFFICES ASSUME TablesOK, NEW f \in Flows
               PROVE  LET t == flow_list[f]
                      IN \/ Headless(t) /\ Cardinality(t.tree) = 1 /\ t.count = pkt_count_max
                         \/ /\ t.tree = Ids(t) /\ Cardinality(t.tree) = Len(t.list) /\ t.list # << >>
                            /\ Len(t.list) <= t.count
                            /\ (pkt_count_max > 0 => t.count <= pkt_count_max)
    BY DEF TreeTracksList, TablesOK
  <2> DEFINE t == flow_list[f]
  <2>1. TableOK(t)
    BY DEF TablesOK
  <2> HIDE DEF t
  <2>2. CASE Lost(t)
    BY <2>2, FS_Singleton DEF Lost, t
  <2>3. CASE Tracks(t)
    BY <2>1, <2>3, IdsCounted DEF TableOK, Tracks, t
  <2> QED
    BY <2>1, <2>2, <2>3 DEF TableOK
<1> QED
  BY <1>1, SpecTables, PTL

\* Prune forgets exactly the stale ids of a flow whose list has its head.
THEOREM PruneForgetsStale == Spec => PruneIsExact
<1>1. TablesOK /\ [Next]_vars =>
        [Prune /\ ~crashed' => \A f \in Flows : ~Headless(flow_list[f]) =>
            FreshIds(flow_list[f]) = IF f \in Flows' THEN flow_list'[f].tree ELSE {}]_vars
  <2> SUFFICES ASSUME TablesOK, Prune, ~crashed', NEW f \in Flows, ~Headless(flow_list[f])
               PROVE  FreshIds(flow_list[f]) = IF f \in Flows' THEN flow_list'[f].tree ELSE {}
    OBVIOUS
  <2> DEFINE t == flow_list[f]
  <2>1. /\ flow_list' =
              [g \in Flow |->
                  IF g \notin Flows \/ PruneTable(flow_list[g]).list = << >> THEN NoFlow
                  ELSE Older(PruneTable(flow_list[g]))]
        /\ f \in Flow
    BY DEF Prune, Crash, Flows
  <2>2. CASE PruneTable(t).list = << >>
    <3>1. f \notin Flows'
      BY <2>1, <2>2 DEF Flows
    <3>2. PruneTable(t).tree = FreshIds(t) /\ PruneTable(t).tree = Ids(PruneTable(t))
      BY PruneOK DEF TablesOK
    <3>3. Ids(PruneTable(t)) = {}
      BY <2>2 DEF Ids
    <3> QED
      BY <3>1, <3>2, <3>3
  <2>3. CASE PruneTable(t).list # << >>
    <3>1. flow_list'[f] = Older(PruneTable(t))
      BY <2>1, <2>3
    <3>2. TableOK(Older(PruneTable(t))) /\ Older(PruneTable(t)).tree = FreshIds(t)
      BY <2>3, PrunedOK
    <3>3. f \in Flows'
      BY <2>1, <3>1, <3>2, NoFlowAssumption DEF Flows, TableOK
    <3> QED
      BY <3>1, <3>2, <3>3
  <2> QED
    BY <2>2, <2>3
<1> QED
  BY <1>1, SpecTables, PTL DEF Spec, PruneIsExact

-----------------------------------------------------------------------------
\* The table implements the filter

Known == UNION {{<< f, i >> : i \in flow_list[f].tree} : f \in Flows}

LEMMA KnownPackets ==
    ASSUME TablesOK, NEW f \in Flow, NEW i
    PROVE  << f, i >> \in Known <=> i \in FlowTable(f).tree
BY DEF Known, FlowTable, Flows, NewTable

\* A check of packet i that ends with a table in which i is known and nothing
\* else is new.
LEMMA Learns ==
    ASSUME TablesOK, NEW f \in Flow, NEW i, i \notin FlowTable(f).tree,
           NEW t, TableOK(t), i \in t.tree, t.tree \subseteq FlowTable(f).tree \cup {i},
           flow_list' = [flow_list EXCEPT ![f] = t],
           answer' = Answer(f, i, FALSE)
    PROVE  Filter!Check(f, i)
<1>1. << f, i >> \notin Known
  BY KnownPackets
<1>2. /\ Flows' = Flows \cup {f}
      /\ \A g \in Flows' : flow_list'[g] = IF g = f THEN t ELSE flow_list[g]
  BY OneFlow
<1>3. << f, i >> \in Known'
  BY <1>2 DEF Known
<1>4. Known' \subseteq Known \cup {<< f, i >>}
  <2> SUFFICES ASSUME NEW g \in Flows', NEW k \in flow_list'[g].tree
               PROVE  << g, k >> \in Known \cup {<< f, i >>}
    BY DEF Known
  <2>1. CASE g = f
    BY <1>2, <2>1, KnownPackets
  <2>2. CASE g # f
    BY <1>2, <2>2 DEF Known
  <2> QED
    BY <2>1, <2>2
<1> QED
  BY <1>1, <1>3, <1>4 DEF Filter!Check, Filter!Answer, Answer, Known

\* SmfDpdTable implements DuplicateFilter: whatever it forgets and however it
\* loses a list, it never calls a packet it has not seen a duplicate, and it
\* knows a packet from the moment it has checked it.
THEOREM TableImplementsFilter == Spec => ImplementsFilter
<1>1. Init => Filter!Init
  BY DEF Init, Filter!Init, Flows
<1>2. TablesOK /\ [Next]_vars => [Filter!Next]_Filter!vars
  <2> SUFFICES ASSUME TablesOK, [Next]_vars PROVE [Filter!Next]_Filter!vars
    OBVIOUS
  <2>1. ASSUME answer' = {}, Known' \subseteq Known PROVE Filter!Next
    BY <2>1 DEF Filter!Next, Filter!Forget, Known
  <2>2. ASSUME Crash PROVE Filter!Next
    BY <2>1, <2>2 DEF Crash, Known, Flows
  <2>3. ASSUME NEW f \in Flow, NEW i \in PktId, Duplicate(f, i) PROVE Filter!Next
    <3>1. << f, i >> \in Known
      BY <2>3, KnownPackets DEF Duplicate
    <3>2. Filter!Check(f, i)
      BY <2>3, <3>1 DEF Duplicate, Filter!Check, Filter!Answer, Answer, Known, Flows
    <3> QED
      BY <3>2 DEF Filter!Next
  <2>4. ASSUME NEW f \in Flow, NEW i \in PktId, Accept(f, i) PROVE Filter!Next
    <3> DEFINE t == AppendEntry(FlowTable(f), i)
    <3>0. TableOK(t) /\ t.tree = FlowTable(f).tree \cup {i}
      BY <2>4, AcceptOK
    <3>1. Filter!Check(f, i)
      BY <2>4, <3>0, Learns DEF Accept
    <3> QED
      BY <3>1 DEF Filter!Next
  <2>5. ASSUME NEW f \in Flow, NEW i \in PktId, Replace(f, i) PROVE Filter!Next
    <3>1. CASE FlowTable(f).list = << >>
      BY <2>2, <2>5, <3>1 DEF Replace
    <3>2. CASE FlowTable(f).list # << >>
      <4>1. Filter!Check(f, i)
        <5> DEFINE t == AppendEntry(RemoveHead(FlowTable(f)), i)
        <5>1. TableOK(t) /\ i \in t.tree /\ t.tree \subseteq FlowTable(f).tree \cup {i}
          BY <2>5, <3>2, ReplaceOK
        <5> QED
          BY <2>5, <3>2, <5>1, Learns DEF Replace
      <4> QED
        BY <4>1 DEF Filter!Next
    <3> QED
      BY <3>1, <3>2
  <2>6. CASE Prune
    <3>1. CASE PruneNeeds \subseteq entry_pools
      <4>1. /\ flow_list' =
                  [f \in Flow |->
                      IF f \notin Flows \/ PruneTable(flow_list[f]).list = << >> THEN NoFlow
                      ELSE Older(PruneTable(flow_list[f]))]
            /\ answer' = {}
        BY <2>6, <3>1 DEF Prune
      <4>2. ASSUME NEW f \in Flows', NEW i \in flow_list'[f].tree PROVE << f, i >> \in Known
        <5>1. /\ f \in Flows /\ PruneTable(flow_list[f]).list # << >>
              /\ flow_list'[f] = Older(PruneTable(flow_list[f]))
          BY <4>1 DEF Flows
        <5>2. i \in flow_list[f].tree
          BY <5>1, PrunedOK
        <5> QED
          BY <5>1, <5>2 DEF Known
      <4>3. Known' \subseteq Known
        BY <4>2 DEF Known
      <4> QED
        BY <2>1, <4>1, <4>3
    <3>2. CASE ~(PruneNeeds \subseteq entry_pools)
      BY <2>2, <2>6, <3>2 DEF Prune
    <3> QED
      BY <3>1, <3>2
  <2>7. CASE Destroy
    <3>1. CASE DestroyNeeds \subseteq entry_pools
      <4>1. Flows' = {} /\ answer' = {}
        BY <2>7, <3>1 DEF Destroy, Flows
      <4> QED
        BY <2>1, <4>1 DEF Known
    <3>2. CASE ~(DestroyNeeds \subseteq entry_pools)
      BY <2>2, <2>7, <3>2 DEF Destroy
    <3> QED
      BY <3>1, <3>2
  <2>8. CASE UNCHANGED vars
    BY <2>8 DEF vars, Filter!vars, Flows
  <2> QED
    BY <2>3, <2>4, <2>5, <2>6, <2>7, <2>8 DEF Next
<1> QED
  BY <1>1, <1>2, SpecTables, PTL DEF Spec, ImplementsFilter, Filter!Spec
==============================================================================
