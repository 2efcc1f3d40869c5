------------------------ MODULE SmfResequenceProofs -------------------------
(***************************************************************************)
(* Proofs about SmfResequence, for every set of packets and modes, every   *)
(* number of sequence numbers, age and time in the air.                    *)
(*                                                                         *)
(* Counted says that the numbers a flow was given lately are the last ones *)
(* before the one it gives next, without a gap: as many of them as there   *)
(* are packets, so fewer than there are numbers.  The lemmas about flows   *)
(* say that drawing a number and pruning keep that, and that a flow is     *)
(* forgotten only after all its numbers (PruneFlowsOK).  Those about       *)
(* identities say which packets can be taken for one another at all.  IInv *)
(* ties the tables to the records of numbers and to the stash.             *)
(***************************************************************************)
EXTENDS SmfResequence, TLAPS, SequenceTheorems, FiniteSetTheorems

-----------------------------------------------------------------------------
\* The numbers of a flow

Inc(n) == (n + 1) % SeqMod

\* How many numbers ago a flow that gives next now gave value: 1 .. SeqMod.
Back(next, value) ==
    IF value < next THEN next - value ELSE next - value + SeqMod

\* The records are of the numbers given last, without a gap, the younger the
\* later, and none is of the next one.
Counted(records, next) ==
    \A d \in records :
        /\ d.value # next
        /\ \A j \in 1 .. Back(next, d.value) :
            \E e \in records : Back(next, e.value) = j /\ e.age <= d.age

Key == {<< a >> : a \in Address} \cup Address \X Address
Age == 0 .. AgeMax + 1
DrawType == [version : Version, key : Key, value : Number, age : Age]

LEMMA IncNumber ==
    ASSUME NEW n \in Number
    PROVE  Inc(n) = (IF n + 1 = SeqMod THEN 0 ELSE n + 1) /\ Inc(n) \in Number
<1>1. SeqMod \in Nat /\ SeqMod > 1 /\ n \in 0 .. SeqMod - 1
  BY SeqModAssumption DEF Number
<1>2. CASE n + 1 = SeqMod
  <2>1. SeqMod % SeqMod = 0
    BY <1>1, SMTT(20)
  <2> QED
    BY <1>1, <1>2, <2>1 DEF Inc, Number
<1>3. CASE n + 1 # SeqMod
  <2>1. (n + 1) % SeqMod = n + 1
    BY <1>1, <1>3, SMTT(20)
  <2> QED
    BY <1>1, <1>3, <2>1 DEF Inc, Number
<1> QED
  BY <1>2, <1>3

LEMMA BackRange ==
    ASSUME NEW next \in Number, NEW value \in Number
    PROVE  /\ Back(next, value) \in 1 .. SeqMod
           /\ Back(next, value) = SeqMod <=> value = next
           /\ value # next => Back(Inc(next), value) = Back(next, value) + 1
           /\ Back(Inc(next), next) = 1
<1>1. SeqMod \in Nat /\ SeqMod > 1 /\ next \in 0 .. SeqMod - 1 /\ value \in 0 .. SeqMod - 1
  BY SeqModAssumption DEF Number
<1>2. Inc(next) = IF next + 1 = SeqMod THEN 0 ELSE next + 1
  BY IncNumber
<1> QED
  BY <1>1, <1>2 DEF Back

\* A flow's records reach no further back than there are of them.
LEMMA BackIsBounded ==
    ASSUME NEW records, IsFiniteSet(records), NEW next \in Number,
           records \subseteq DrawType, Counted(records, next), NEW d \in records
    PROVE  Back(next, d.value) <= Cardinality(records)
<1> DEFINE b == Back(next, d.value)
           f == [e \in records |-> Back(next, e.value)]
           image == {f[e] : e \in records}
<1>1. b \in 1 .. SeqMod /\ b \in Nat
  BY BackRange, SeqModAssumption DEF DrawType
<1>2. IsFiniteSet(image) /\ Cardinality(image) <= Cardinality(records)
  <2>1. f \in Surjection(records, image)
    BY DEF Surjection
  <2> QED
    BY <2>1, FS_Surjection
<1>3. 1 .. b \subseteq image
  <2>1. ASSUME NEW j \in 1 .. b PROVE j \in image
    <3>1. PICK e \in records : Back(next, e.value) = j
      BY DEF Counted
    <3> QED
      BY <3>1
  <2> QED
    BY <2>1
<1>4. Cardinality(1 .. b) = b /\ IsFiniteSet(1 .. b)
  BY <1>1, FS_Interval
<1>5. Cardinality(1 .. b) <= Cardinality(image)
  BY <1>2, <1>3, FS_Subset
<1>6. Cardinality(records) \in Nat /\ Cardinality(image) \in Nat
  BY <1>2, FS_CardinalityType
<1> QED
  BY <1>1, <1>2, <1>4, <1>5, <1>6

LEMMA CountedDraw ==
    ASSUME NEW records, IsFiniteSet(records), NEW next \in Number,
           records \subseteq DrawType, Counted(records, next),
           Cardinality(records) + 1 < SeqMod,
           NEW new \in DrawType, new.value = next, new.age = 0
    PROVE  Counted(records \cup {new}, Inc(next))
<1>1. SeqMod \in Nat /\ SeqMod > 1 /\ Cardinality(records) \in Nat /\ Inc(next) \in Number
  BY SeqModAssumption, FS_CardinalityType, IncNumber
<1>2. \A e \in records : /\ Back(Inc(next), e.value) = Back(next, e.value) + 1
                         /\ Back(next, e.value) \in 1 .. SeqMod
                         /\ e.age \in Nat
  BY BackRange, AgeAssumption DEF Counted, DrawType, Age
<1>3. Back(Inc(next), new.value) = 1 /\ new.value \in Number
  BY BackRange
<1>4. ASSUME NEW d \in records
      PROVE  /\ d.value # Inc(next)
             /\ \A j \in 1 .. Back(Inc(next), d.value) :
                  \E e \in records \cup {new} : Back(Inc(next), e.value) = j /\ e.age <= d.age
  <2>1. Back(next, d.value) <= Cardinality(records)
    BY BackIsBounded
  <2>2. Back(Inc(next), d.value) < SeqMod
    BY <1>1, <1>2, <2>1
  <2>3. d.value # Inc(next)
    BY <1>1, <2>2, BackRange DEF DrawType
  <2>4. ASSUME NEW j \in 1 .. Back(Inc(next), d.value)
        PROVE  \E e \in records \cup {new} : Back(Inc(next), e.value) = j /\ e.age <= d.age
    <3>1. CASE j = 1
      BY <1>2, <1>3, <3>1
    <3>2. CASE j # 1
      <4>1. j - 1 \in 1 .. Back(next, d.value)
        BY <1>2, <3>2
      <4>2. PICK e \in records : Back(next, e.value) = j - 1 /\ e.age <= d.age
        BY <4>1 DEF Counted
      <4> QED
        BY <1>2, <4>2
    <3> QED
      BY <3>1, <3>2
  <2> QED
    BY <2>3, <2>4
<1>5. /\ new.value # Inc(next)
      /\ \A j \in 1 .. Back(Inc(next), new.value) :
           \E e \in records \cup {new} : Back(Inc(next), e.value) = j /\ e.age <= new.age
  <2>1. new.value # Inc(next)
    BY <1>1, <1>3, BackRange
  <2> QED
    BY <1>3, <2>1
<1> QED
  BY <1>4, <1>5 DEF Counted

\* What a prune leaves of a table, one interval older.
LEMMA PruneElements ==
    ASSUME NEW t
    PROVE  /\ \A e \in Prune(t) : \E d \in t : d.age <= AgeMax /\ e = [d EXCEPT !.age = @ + 1]
           /\ \A d \in t : d.age <= AgeMax => [d EXCEPT !.age = @ + 1] \in Prune(t)
  BY DEF Prune

LEMMA CountedPrune ==
    ASSUME NEW records, records \subseteq DrawType, NEW next, Counted(records, next)
    PROVE  Counted(Prune(records), next)
<1>1. AgeMax \in Nat
  BY AgeAssumption
<1>2. SUFFICES ASSUME NEW e \in Prune(records)
               PROVE  /\ e.value # next
                      /\ \A j \in 1 .. Back(next, e.value) :
                            \E f \in Prune(records) : Back(next, f.value) = j /\ f.age <= e.age
  BY DEF Counted
<1>3. PICK d \in records : d.age <= AgeMax /\ e = [d EXCEPT !.age = @ + 1]
  BY PruneElements
<1>4. e.value = d.value /\ e.age = d.age + 1
  BY <1>3 DEF DrawType
<1>5. e.value # next
  BY <1>4 DEF Counted
<1>6. ASSUME NEW j \in 1 .. Back(next, e.value)
      PROVE  \E f \in Prune(records) : Back(next, f.value) = j /\ f.age <= e.age
  <2>1. PICK c \in records : Back(next, c.value) = j /\ c.age <= d.age
    BY <1>4 DEF Counted
  <2>2. c.age \in Int /\ d.age \in Int
    BY DEF DrawType, Age
  <2> DEFINE f == [c EXCEPT !.age = @ + 1]
  <2>3. f.value = c.value /\ f.age = c.age + 1
    BY DEF DrawType
  <2>4. f \in Prune(records)
    BY <1>1, <1>3, <2>1, <2>2, PruneElements
  <2> HIDE DEF f
  <2> QED
    BY <1>4, <2>1, <2>2, <2>3, <2>4
<1> QED
  BY <1>5, <1>6

-----------------------------------------------------------------------------
\* The flows of one manager

Flow == [key : Key, next : Number, age : Age]

\* No flow is listed twice, and the list is in order of use.
Once(list) == \A i, j \in 1 .. Len(list) : list[i].key = list[j].key => i = j
Ordered(list) == \A i, j \in 1 .. Len(list) : i <= j => list[j].age <= list[i].age
ListOK(list) == list \in Seq(Flow) /\ Once(list) /\ Ordered(list)

Of(records, key) == {d \in records : d.key = key}

\* Every record is of a flow that is listed, and those of a flow are not
\* younger than it and of the numbers it gave last.
FlowCounts(f, records) ==
    /\ \A d \in Of(records, f.key) : f.age <= d.age
    /\ Counted(Of(records, f.key), f.next)

ListCounts(list, records) ==
    /\ \A i \in 1 .. Len(list) : FlowCounts(list[i], records)
    /\ \A d \in records : \E i \in 1 .. Len(list) : list[i].key = d.key

LEMMA SeqElements ==
    ASSUME NEW S, NEW s \in Seq(S)
    PROVE  Len(s) \in Nat /\ DOMAIN s = 1 .. Len(s) /\ \A i \in 1 .. Len(s) : s[i] \in S
OBVIOUS

\* t is s without the element at a place.
IsCut(t, s, place) ==
    /\ Len(t) = Len(s) - 1
    /\ \A k \in 1 .. Len(s) - 1 : t[k] = s[IF k < place THEN k ELSE k + 1]

Cut(s, place) == SubSeq(s, 1, place - 1) \o SubSeq(s, place + 1, Len(s))

LEMMA CutElements ==
    ASSUME NEW S, NEW s \in Seq(S), NEW place \in 1 .. Len(s)
    PROVE  Cut(s, place) \in Seq(S) /\ IsCut(Cut(s, place), s, place)
<1> DEFINE n == Len(s)
           t == Cut(s, place)
           u == SubSeq(s, 1, place - 1)
           v == SubSeq(s, place + 1, n)
<1>1. n \in Nat /\ \A i \in 1 .. n : s[i] \in S
  BY SeqElements
<1>2. u \in Seq(S) /\ Len(u) = place - 1 /\ \A i \in 1 .. place - 1 : u[i] = s[i]
  <2>1. \A i \in 1 .. place - 1 : s[i] \in S
    BY <1>1
  <2>2. /\ u \in Seq(S)
        /\ Len(u) = IF 1 <= place - 1 THEN place - 1 - 1 + 1 ELSE 0
        /\ \A i \in 1 .. place - 1 - 1 + 1 : u[i] = s[1 + i - 1]
    BY <1>1, <2>1, SubSeqProperties
  <2> HIDE DEF u
  <2> QED
    BY <1>1, <2>2
<1>3. v \in Seq(S) /\ Len(v) = n - place /\ \A i \in 1 .. n - place : v[i] = s[place + i]
  <2>1. \A i \in place + 1 .. n : s[i] \in S
    BY <1>1
  <2>2. /\ v \in Seq(S)
        /\ Len(v) = IF place + 1 <= n THEN n - (place + 1) + 1 ELSE 0
        /\ \A i \in 1 .. n - (place + 1) + 1 : v[i] = s[place + 1 + i - 1]
    BY <1>1, <2>1, SubSeqProperties
  <2> HIDE DEF v
  <2> QED
    BY <1>1, <2>2
<1> HIDE DEF n, t, u, v
<1>4. n \in Nat /\ place \in 1 .. n /\ place - 1 \in Nat
  BY <1>1 DEF n
<1>5. /\ t \in Seq(S) /\ Len(t) = Len(u) + Len(v)
      /\ \A i \in 1 .. Len(u) + Len(v) : t[i] = IF i <= Len(u) THEN u[i] ELSE v[i - Len(u)]
  <2>1. t = u \o v
    BY DEF t, u, v, n, Cut
  <2>2. /\ u \o v \in Seq(S) /\ Len(u \o v) = Len(u) + Len(v)
        /\ \A i \in 1 .. Len(u) + Len(v) : (u \o v)[i] = IF i <= Len(u) THEN u[i] ELSE v[i - Len(u)]
    BY <1>2, <1>3, ConcatProperties
  <2> QED
    BY <2>1, <2>2
<1>6. Len(t) = n - 1
  <2>1. Len(u) = place - 1 /\ Len(v) = n - place /\ Len(t) = Len(u) + Len(v)
    BY <1>2, <1>3, <1>5
  <2> QED
    BY <1>4, <2>1
<1>7. ASSUME NEW k \in 1 .. n - 1
      PROVE  t[k] = s[IF k < place THEN k ELSE k + 1]
  <2>1. k \in 1 .. Len(u) + Len(v) /\ Len(u) = place - 1
    BY <1>2, <1>3, <1>4
  <2>2. t[k] = IF k <= place - 1 THEN u[k] ELSE v[k - (place - 1)]
    BY <1>5, <2>1
  <2>3. CASE k < place
    <3>1. k <= place - 1 /\ k \in 1 .. place - 1
      BY <1>4, <2>3
    <3> QED
      BY <1>2, <2>2, <2>3, <3>1
  <2>4. CASE ~(k < place)
    <3>1. /\ ~(k <= place - 1) /\ k - (place - 1) \in 1 .. n - place
          /\ place + (k - (place - 1)) = k + 1
      BY <1>4, <2>4
    <3>2. v[k - (place - 1)] = s[place + (k - (place - 1))]
      BY <1>3, <3>1
    <3> QED
      BY <2>2, <2>4, <3>1, <3>2
  <2> QED
    BY <2>3, <2>4
<1> QED
  BY <1>5, <1>6, <1>7 DEF IsCut, n, t

\* The flows that are not the one of a key, in the order they had.
LEMMA OthersElements ==
    ASSUME NEW list, ListOK(list), NEW key
    PROVE  LET rest == Others(list, key) IN
           /\ ListOK(rest)
           /\ \A k \in 1 .. Len(rest) :
                 rest[k].key # key /\ \E i \in 1 .. Len(list) : rest[k] = list[i]
           /\ \A i \in 1 .. Len(list) :
                 list[i].key # key => \E k \in 1 .. Len(rest) : rest[k] = list[i]
<1> DEFINE rest == Others(list, key)
           n == Len(list)
<1>1. /\ list \in Seq(Flow) /\ n \in Nat /\ DOMAIN list = 1 .. n
      /\ \A i \in 1 .. n : list[i] \in Flow /\ list[i].age \in Int
  <2>1. \A f \in Flow : f.age \in Int
    BY AgeAssumption DEF Flow, Age
  <2> QED
    BY <2>1, SeqElements DEF ListOK
<1>2. CASE Places(list, key) = {}
  <2>1. rest = list /\ \A i \in 1 .. n : list[i].key # key
    BY <1>1, <1>2 DEF Others, Places
  <2> QED
    BY <2>1
<1>3. CASE Places(list, key) # {}
  <2> DEFINE place == CHOOSE i \in Places(list, key) : TRUE
  <2>1. place \in 1 .. n /\ list[place].key = key
    BY <1>1, <1>3 DEF Places
  <2>2. rest = Cut(list, place)
    BY <1>3 DEF Others, Cut
  <2> HIDE DEF place, rest
  <2>3. rest \in Seq(Flow) /\ IsCut(rest, list, place)
    BY <1>1, <2>1, <2>2, CutElements
  <2> DEFINE m(k) == IF k < place THEN k ELSE k + 1
  <2>4. /\ Len(rest) = n - 1
        /\ \A k \in 1 .. n - 1 : rest[k] = list[m(k)] /\ m(k) \in 1 .. n /\ m(k) # place
        /\ \A k, l \in 1 .. n - 1 : (m(k) = m(l) => k = l) /\ (k <= l => m(k) <= m(l))
    BY <1>1, <2>1, <2>3 DEF IsCut
  <2>5. \A i \in 1 .. n : i # place => \E k \in 1 .. n - 1 : m(k) = i
    <3>1. ASSUME NEW i \in 1 .. n, i # place PROVE \E k \in 1 .. n - 1 : m(k) = i
      <4>1. CASE i < place
        BY <1>1, <2>1, <4>1
      <4>2. CASE ~(i < place)
        <5>1. i - 1 \in 1 .. n - 1 /\ m(i - 1) = i
          BY <1>1, <2>1, <3>1, <4>2
        <5> QED
          BY <5>1
      <4> QED
        BY <4>1, <4>2
    <3> QED
      BY <3>1
  <2> HIDE DEF m
  <2>6. Once(rest) /\ Ordered(rest)
    <3>1. ASSUME NEW k \in 1 .. n - 1, NEW l \in 1 .. n - 1, rest[k].key = rest[l].key
          PROVE  k = l
      <4>1. /\ m(k) \in 1 .. Len(list) /\ m(l) \in 1 .. Len(list)
            /\ list[m(k)].key = list[m(l)].key
        BY <2>4, <3>1
      <4>2. m(k) = m(l)
        BY <4>1 DEF ListOK, Once
      <4> QED
        BY <2>4, <4>2
    <3>2. \A k, l \in 1 .. n - 1 : k <= l => rest[l].age <= rest[k].age
      BY <2>4 DEF ListOK, Ordered
    <3> QED
      BY <2>4, <3>1, <3>2 DEF Once, Ordered
  <2>7. \A k \in 1 .. Len(rest) :
          rest[k].key # key /\ \E i \in 1 .. n : rest[k] = list[i]
    <3>1. \A i \in 1 .. n : list[i].key = list[place].key => i = place
      BY <2>1 DEF ListOK, Once
    <3> QED
      BY <2>1, <2>4, <3>1
  <2>8. \A i \in 1 .. n : list[i].key # key => \E k \in 1 .. Len(rest) : rest[k] = list[i]
    BY <2>1, <2>4, <2>5
  <2>9. ListOK(rest)
    BY <2>3, <2>6 DEF ListOK
  <2> QED
    BY <2>7, <2>8, <2>9 DEF rest
<1> QED
  BY <1>2, <1>3

\* Giving a flow new numbers, of which m is the last.
LEMMA IncrementOK ==
    ASSUME NEW list, ListOK(list), NEW records, ListCounts(list, records),
           NEW key \in Key, NEW m \in Number, NEW news,
           \A d \in news : d.key = key /\ d.age = 0,
           \A d \in records : d.age \in Nat,
           Counted(Of(records, key) \cup news, Inc(m))
    PROVE  LET new == IncrementSequence(list, key, m) IN
           ListOK(new) /\ ListCounts(new, records \cup news)
<1> DEFINE rest == Others(list, key)
           new == IncrementSequence(list, key, m)
           n == Len(rest)
           f == [key |-> key, next |-> Inc(m), age |-> 0]
           all == records \cup news
<1>1. /\ ListOK(rest)
      /\ \A k \in 1 .. n : rest[k].key # key /\ \E i \in 1 .. Len(list) : rest[k] = list[i]
      /\ \A i \in 1 .. Len(list) : list[i].key # key => \E k \in 1 .. n : rest[k] = list[i]
  BY OthersElements
<1>2. f \in Flow /\ f.key = key /\ f.next = Inc(m) /\ f.age = 0
  BY IncNumber, AgeAssumption DEF Flow, Age
<1>3. new = Append(rest, f)
  BY DEF IncrementSequence, Inc
<1> HIDE DEF rest, new, f, n
<1>4. n \in Nat /\ \A k \in 1 .. n : rest[k] \in Flow /\ rest[k].age \in Nat
  <2>1. \A g \in Flow : g.age \in Nat
    BY AgeAssumption DEF Flow, Age
  <2> QED
    BY <1>1, <2>1, SeqElements DEF ListOK, n
<1>5. /\ new \in Seq(Flow) /\ Len(new) = n + 1
      /\ \A k \in 1 .. n : new[k] = rest[k]
      /\ new[n + 1] = f
  BY <1>1, <1>2, <1>3, AppendProperties DEF ListOK, n
<1>6. \A k \in 1 .. n + 1 : k = n + 1 \/ k \in 1 .. n
  BY <1>4
<1>7. Once(new)
  <2>1. \A k, l \in 1 .. n : new[k].key = new[l].key => k = l
    BY <1>1, <1>5 DEF ListOK, Once, n
  <2>2. \A k \in 1 .. n : new[k].key # new[n + 1].key
    BY <1>1, <1>2, <1>5
  <2> QED
    BY <1>5, <1>6, <2>1, <2>2 DEF Once
<1>8. Ordered(new)
  <2>1. \A k, l \in 1 .. n : k <= l => new[l].age <= new[k].age
    BY <1>1, <1>5 DEF ListOK, Ordered, n
  <2>2. \A k \in 1 .. n + 1 : new[n + 1].age <= new[k].age
    BY <1>2, <1>4, <1>5, <1>6
  <2>3. \A k \in 1 .. n : ~(n + 1 <= k)
    BY <1>4
  <2> QED
    BY <1>5, <1>6, <2>1, <2>2, <2>3 DEF Ordered
<1>9. \A d \in all : \E k \in 1 .. Len(new) : new[k].key = d.key
  <2>1. ASSUME NEW d \in all PROVE \E k \in 1 .. n + 1 : new[k].key = d.key
    <3>1. CASE d.key = key
      BY <1>2, <1>4, <1>5, <3>1
    <3>2. CASE d.key # key
      <4>1. PICK i \in 1 .. Len(list) : list[i].key = d.key
        BY <2>1, <3>2 DEF ListCounts
      <4>2. PICK k \in 1 .. n : rest[k] = list[i]
        BY <1>1, <3>2, <4>1
      <4> QED
        BY <1>4, <1>5, <4>1, <4>2
    <3> QED
      BY <3>1, <3>2
  <2> QED
    BY <1>5, <2>1
<1>10. \A k \in 1 .. Len(new) : FlowCounts(new[k], all)
  <2>1. ASSUME NEW k \in 1 .. n PROVE FlowCounts(new[k], all)
    <3>1. PICK i \in 1 .. Len(list) : rest[k] = list[i]
      BY <1>1
    <3>2. new[k] = list[i] /\ list[i].key # key
      BY <1>1, <1>5, <3>1
    <3>3. Of(all, list[i].key) = Of(records, list[i].key)
      BY <3>2 DEF Of
    <3>4. FlowCounts(list[i], records)
      BY DEF ListCounts
    <3> QED
      BY <3>2, <3>3, <3>4 DEF FlowCounts
  <2>2. FlowCounts(f, all)
    <3>1. Of(all, key) = Of(records, key) \cup news
      BY DEF Of
    <3>2. \A d \in Of(all, key) : 0 <= d.age
      BY DEF Of
    <3> QED
      BY <1>2, <3>1, <3>2 DEF FlowCounts
  <2> QED
    BY <1>5, <1>6, <2>1, <2>2
<1> QED
  BY <1>5, <1>7, <1>8, <1>9, <1>10 DEF ListOK, ListCounts, new

-----------------------------------------------------------------------------
\* Pruning

\* A set of positions that holds all positions before each of its own is the
\* first so many.
LEMMA FirstPositions ==
    ASSUME NEW len \in Nat, NEW P, P \subseteq 1 .. len, \A n \in P : 1 .. n \subseteq P
    PROVE  Cardinality(P) \in 0 .. len /\ P = 1 .. Cardinality(P)
<1> DEFINE g == Cardinality(P)
<1>1. /\ IsFiniteSet(P) /\ g \in Nat /\ g <= len
      /\ \A n \in Nat : IsFiniteSet(1 .. n) /\ Cardinality(1 .. n) = n
  <2>1. \A n \in Nat : IsFiniteSet(1 .. n) /\ Cardinality(1 .. n) = n
    BY FS_Interval
  <2>2. P \in SUBSET (1 .. len) /\ IsFiniteSet(1 .. len) /\ Cardinality(1 .. len) = len
    BY <2>1
  <2>3. IsFiniteSet(P) /\ Cardinality(P) <= Cardinality(1 .. len)
    BY <2>2, FS_Subset
  <2>4. g \in Nat
    BY <2>3, FS_CardinalityType
  <2> QED
    BY <2>1, <2>2, <2>3, <2>4
<1> HIDE DEF g
<1>2. ASSUME NEW n \in P PROVE n \in 1 .. g
  <2>1. n \in Nat /\ n >= 1 /\ 1 .. n \in SUBSET P
    OBVIOUS
  <2>2. Cardinality(1 .. n) <= Cardinality(P)
    BY <1>1, <2>1, FS_Subset
  <2> QED
    BY <1>1, <2>1, <2>2 DEF g
<1>3. P \in SUBSET (1 .. g) /\ Cardinality(P) = Cardinality(1 .. g)
  BY <1>1, <1>2 DEF g
<1>4. P = 1 .. g
  BY <1>1, <1>3, FS_Subset
<1> QED
  BY <1>1, <1>4 DEF g

\* Pruning a table prunes the records of each flow.
LEMMA PruneOf ==
    ASSUME NEW records, records \subseteq DrawType, NEW key
    PROVE  Of(Prune(records), key) = Prune(Of(records, key))
<1>1. \A d \in records : [d EXCEPT !.age = @ + 1].key = d.key
  BY DEF DrawType
<1>2. ASSUME NEW e \in Of(Prune(records), key) PROVE e \in Prune(Of(records, key))
  BY <1>1, <1>2 DEF Of, Prune
<1>3. ASSUME NEW e \in Prune(Of(records, key)) PROVE e \in Of(Prune(records), key)
  BY <1>1, <1>3 DEF Of, Prune
<1> QED
  BY <1>2, <1>3

\* t is s without its first elements, each one interval older.
IsAged(t, s, gone) ==
    /\ Len(t) = Len(s) - gone
    /\ \A k \in 1 .. Len(s) - gone : t[k] = [s[gone + k] EXCEPT !.age = @ + 1]

\* Pruning a manager's flows and the records together.
LEMMA PruneFlowsOK ==
    ASSUME NEW list, ListOK(list), NEW records, records \subseteq DrawType,
           ListCounts(list, records)
    PROVE  LET new == PruneFlows(list) IN
           ListOK(new) /\ ListCounts(new, Prune(records))
<1> DEFINE n == Len(list)
           stale == {k \in DOMAIN list : \A i \in 1 .. k : list[i].age > AgeMax}
           gone == Cardinality(stale)
           kept == SubSeq(list, gone + 1, n)
           new == PruneFlows(list)
<1>1. /\ list \in Seq(Flow) /\ n \in Nat /\ DOMAIN list = 1 .. n
      /\ \A i \in 1 .. n : list[i] \in Flow /\ list[i].age \in 0 .. AgeMax + 1
      /\ AgeMax \in Nat
  <2>1. \A f \in Flow : f.age \in 0 .. AgeMax + 1
    BY DEF Flow, Age
  <2> QED
    BY <2>1, SeqElements, AgeAssumption DEF ListOK
<1>2. gone \in 0 .. n /\ stale = 1 .. gone
  BY <1>1, FirstPositions
<1> HIDE DEF n, gone
<1>3. \A i \in 1 .. gone : list[i].age > AgeMax
  <2>1. ASSUME NEW i \in 1 .. gone PROVE list[i].age > AgeMax
    <3>1. i \in 1 .. i
      BY <1>2
    <3>2. i \in stale
      BY <1>2
    <3> QED
      BY <3>1, <3>2
  <2> QED
    BY <2>1
<1>4. \A i \in gone + 1 .. n : list[i].age <= AgeMax
  <2>1. CASE gone = n
    BY <1>1, <2>1
  <2>2. CASE gone # n
    <3> HIDE DEF stale
    <3>1. gone + 1 \in 1 .. n /\ gone + 1 \notin stale
      BY <1>1, <1>2, <2>2
    <3>2. PICK i \in 1 .. gone + 1 : ~(list[i].age > AgeMax)
      BY <1>1, <3>1 DEF stale
    <3>3. i = gone + 1
      BY <1>2, <1>3, <3>2
    <3>4. ASSUME NEW j \in gone + 1 .. n PROVE list[j].age <= AgeMax
      <4>1. j \in 1 .. n /\ gone + 1 <= j
        BY <1>1, <1>2
      <4>2. list[j].age <= list[gone + 1].age
        BY <3>1, <4>1 DEF ListOK, Ordered, n
      <4> QED
        BY <1>1, <3>1, <3>2, <3>3, <4>1, <4>2
    <3> QED
      BY <3>4
  <2> QED
    BY <2>1, <2>2
<1>5. /\ kept \in Seq(Flow) /\ Len(kept) = n - gone
      /\ \A k \in 1 .. n - gone : kept[k] = list[gone + k]
  <2> HIDE DEF stale
  <2>1. \A i \in gone + 1 .. n : list[i] \in Flow
    BY <1>1, <1>2
  <2>2. /\ kept \in Seq(Flow)
        /\ Len(kept) = IF gone + 1 <= n THEN n - (gone + 1) + 1 ELSE 0
        /\ \A k \in 1 .. n - (gone + 1) + 1 : kept[k] = list[gone + 1 + k - 1]
    BY <1>1, <1>2, <2>1, SubSeqProperties
  <2> HIDE DEF kept
  <2>3. gone \in Int /\ n \in Int /\ gone <= n
    BY <1>1, <1>2
  <2>4. ASSUME NEW k \in 1 .. n - gone PROVE kept[k] = list[gone + k]
    <3>1. k \in 1 .. n - (gone + 1) + 1 /\ gone + 1 + k - 1 = gone + k
      BY <2>3
    <3> QED
      BY <2>2, <3>1
  <2>5. Len(kept) = n - gone
    BY <2>2, <2>3
  <2> QED
    BY <2>2, <2>4, <2>5
<1>6. new = [k \in DOMAIN kept |-> [kept[k] EXCEPT !.age = @ + 1]]
  BY DEF PruneFlows, gone, n
<1> HIDE DEF n, stale, gone, kept, new
<1>7. ASSUME NEW k \in 1 .. n - gone
      PROVE  /\ gone + k \in 1 .. n /\ list[gone + k] \in Flow
             /\ [list[gone + k] EXCEPT !.age = @ + 1] \in Flow
             /\ [list[gone + k] EXCEPT !.age = @ + 1].key = list[gone + k].key
             /\ [list[gone + k] EXCEPT !.age = @ + 1].next = list[gone + k].next
             /\ [list[gone + k] EXCEPT !.age = @ + 1].age = list[gone + k].age + 1
  <2>1. gone + k \in gone + 1 .. n /\ gone + k \in 1 .. n
    BY <1>1, <1>2
  <2>2. list[gone + k] \in Flow /\ list[gone + k].age \in 0 .. AgeMax
    BY <1>1, <1>4, <2>1
  <2>3. list[gone + k].age + 1 \in Age
    BY <1>1, <2>2 DEF Age
  <2> QED
    BY <2>1, <2>2, <2>3 DEF Flow
<1>8. /\ new \in Seq(Flow)
      /\ IsAged(new, list, gone)
  <2>1. DOMAIN kept = 1 .. n - gone /\ n - gone \in Nat
    BY <1>1, <1>2, <1>5, SeqElements
  <2>2. new = [k \in 1 .. n - gone |-> [list[gone + k] EXCEPT !.age = @ + 1]]
    BY <1>5, <1>6, <2>1
  <2>3. \A k \in 1 .. n - gone : [list[gone + k] EXCEPT !.age = @ + 1] \in Flow
    BY <1>7
  <2>4. /\ new \in [1 .. n - gone -> Flow]
        /\ \A k \in 1 .. n - gone : new[k] = [list[gone + k] EXCEPT !.age = @ + 1]
    BY <2>2, <2>3
  <2>5. new \in Seq(Flow) /\ Len(new) = n - gone
    BY <2>1, <2>4
  <2> QED
    BY <2>4, <2>5 DEF IsAged, n
<1>9. /\ Len(new) = n - gone
      /\ \A k \in 1 .. n - gone : /\ new[k].key = list[gone + k].key
                                  /\ new[k].next = list[gone + k].next
                                  /\ new[k].age = list[gone + k].age + 1
  BY <1>7, <1>8 DEF IsAged, n
<1>10. ListOK(new)
  <2>1. Once(new)
    <3>1. ASSUME NEW k \in 1 .. n - gone, NEW l \in 1 .. n - gone, new[k].key = new[l].key
          PROVE  k = l
      <4>1. /\ gone + k \in 1 .. n /\ gone + l \in 1 .. n
            /\ list[gone + k].key = list[gone + l].key
        BY <1>7, <1>9, <3>1
      <4>2. gone + k = gone + l
        BY <4>1 DEF ListOK, Once, n
      <4> QED
        BY <1>1, <1>2, <4>2
    <3> QED
      BY <1>9, <3>1 DEF Once
  <2>2. Ordered(new)
    <3>1. ASSUME NEW k \in 1 .. n - gone, NEW l \in 1 .. n - gone, k <= l
          PROVE  new[l].age <= new[k].age
      <4>1. gone + k <= gone + l
        BY <1>1, <1>2, <3>1
      <4>2. list[gone + l].age <= list[gone + k].age
        <5>1. gone + k \in 1 .. n /\ gone + l \in 1 .. n
          BY <1>7
        <5> QED
          BY <4>1, <5>1 DEF ListOK, Ordered, n
      <4>3. list[gone + l].age \in Int /\ list[gone + k].age \in Int
        <5>1. gone + k \in 1 .. n /\ gone + l \in 1 .. n
          BY <1>7
        <5>2. \A i \in 1 .. n : list[i].age \in Int
          BY <1>1
        <5> QED
          BY <5>1, <5>2
      <4> QED
        BY <1>9, <4>2, <4>3
    <3> QED
      BY <1>9, <3>1 DEF Ordered
  <2> QED
    BY <1>8, <2>1, <2>2 DEF ListOK
<1>11. ASSUME NEW e \in Prune(records)
       PROVE  \E k \in 1 .. Len(new) : new[k].key = e.key
  <2>1. PICK d \in records : d.age <= AgeMax /\ e = [d EXCEPT !.age = @ + 1]
    BY PruneElements
  <2>2. e.key = d.key /\ d.age \in Int
    BY <2>1 DEF DrawType, Age
  <2>3. PICK i \in 1 .. n : list[i].key = d.key
    BY DEF ListCounts, n
  <2>4. list[i].age <= d.age
    BY <2>3 DEF ListCounts, FlowCounts, Of, n
  <2>5. i \notin 1 .. gone
    BY <1>1, <1>3, <2>1, <2>2, <2>3, <2>4
  <2>6. i - gone \in 1 .. n - gone /\ gone + (i - gone) = i
    BY <1>1, <1>2, <2>3, <2>5
  <2>7. new[i - gone].key = list[i].key
    BY <1>9, <2>6
  <2> QED
    BY <1>9, <2>2, <2>3, <2>6, <2>7
<1>12. ASSUME NEW k \in 1 .. Len(new)
       PROVE  FlowCounts(new[k], Prune(records))
  <2> DEFINE f == list[gone + k]
             old == Of(records, f.key)
  <2>1. /\ gone + k \in 1 .. n /\ f.age \in Int
        /\ new[k].key = f.key /\ new[k].next = f.next /\ new[k].age = f.age + 1
    <3>1. k \in 1 .. n - gone
      BY <1>9
    <3>2. gone + k \in 1 .. n
      BY <1>7, <3>1
    <3>3. f.age \in 0 .. AgeMax + 1
      BY <1>1, <3>2
    <3> QED
      BY <1>1, <1>9, <3>1, <3>2, <3>3
  <2>2. (\A d \in old : f.age <= d.age) /\ Counted(old, f.next)
    BY <2>1 DEF ListCounts, FlowCounts, n
  <2>3. old \subseteq DrawType
    BY DEF Of
  <2> HIDE DEF f, old
  <2>4. Of(Prune(records), new[k].key) = Prune(old)
    BY <2>1, PruneOf DEF old
  <2>5. Counted(Prune(old), f.next)
    BY <2>2, <2>3, CountedPrune
  <2>6. ASSUME NEW e \in Prune(old) PROVE new[k].age <= e.age
    <3>1. PICK d \in old : e = [d EXCEPT !.age = @ + 1]
      BY PruneElements
    <3>2. e.age = d.age + 1 /\ d.age \in Int
      BY <2>3, <3>1 DEF DrawType, Age
    <3>3. f.age <= d.age
      BY <2>2
    <3> QED
      BY <2>1, <3>2, <3>3
  <2> QED
    BY <2>1, <2>4, <2>5, <2>6 DEF FlowCounts
<1> QED
  BY <1>10, <1>11, <1>12 DEF ListCounts, new

-----------------------------------------------------------------------------
\* Identities

\* What a packet that is given the number n, or an assist value, becomes.
NumberedAs(p, n) == InsertOptionDPD(p, << "seq", n >>)
AssistedAs(p) == InsertOptionDPD(p, << "hav", 0 >>)

Same(h, k) == h.flow = k.flow /\ h.id = k.id

\* h is not what the node can give a packet of the LAN.
NoNumberOf(h, p) == Numbered(p) => \A n \in Number : ~Same(h, PacketID(NumberedAs(p, n)))
NoHashOf(h, p) == Assisted(p) => ~Same(h, HashID(p)) /\ ~Same(h, HashID(AssistedAs(p)))
Foreign(h) == \A p \in LanPackets : NoNumberOf(h, p) /\ NoHashOf(h, p)

LEMMA InsertFields ==
    ASSUME NEW p \in Packet, NEW mark, NEW q, q = InsertOptionDPD(p, mark)
    PROVE  /\ q.version = p.version /\ q.src = p.src /\ q.dst = p.dst
           /\ q.own = p.own /\ q.mark = mark /\ q.body = p.body
BY DEF InsertOptionDPD, Packet

LEMMA LanFields ==
    ASSUME NEW p \in LanPackets
    PROVE  /\ p \in Packet /\ p.version \in {4, 6} /\ p.src \in Address /\ p.dst \in Address
           /\ p.own # None => p.own = << p.own[1], p.own[2] >> /\ p.own[1] \in {"frag", "sec"}
           /\ p.mark # None => p.mark = << p.mark[1], p.mark[2] >> /\ p.mark[1] \in {"seq", "hav"}
BY PacketsAssumption DEF Packet, Version, None

\* The identity of a packet that was given a number.
LEMMA NumberIdentity ==
    ASSUME NEW p \in LanPackets, Numbered(p), NEW n \in Number, mode \in {"idpd", "hybrid", "hash"}
    PROVE  LET h == PacketID(NumberedAs(p, n)) IN
           /\ h.flow = << p.version, p.src, p.dst >>
           /\ \/ mode = "idpd" /\ h.id = << "seq", n >>
              \/ /\ mode = "hybrid" /\ p.version = 4
                 /\ h.id = << << "seq", n >>, Hash(NumberedAs(p, n)) >>
           /\ ~Assisted(p)
<1> DEFINE q == NumberedAs(p, n)
<1>1. /\ p.version \in {4, 6}
      /\ q.version = p.version /\ q.src = p.src /\ q.dst = p.dst
      /\ q.own = p.own /\ q.mark = << "seq", n >>
  BY LanFields, InsertFields DEF NumberedAs
<1> HIDE DEF q
<1>2. p.own = None /\ (p.version = 6 => mode = "idpd") /\ mode \in {"idpd", "hybrid"}
  <2>1. CASE p.version = 4
    BY <2>1 DEF Numbered, Plain
  <2>2. CASE p.version = 6
    <3>1. mode = "idpd" /\ GetPktID(p).id = None
      BY <2>2 DEF Numbered
    <3>2. p.own = None
      BY <2>2, <3>1, LanFields DEF GetPktID, Plain, Sealed, Identity
    <3> QED
      BY <2>2, <3>1, <3>2
  <2> QED
    BY <1>1, <2>1, <2>2
<1>3. GetPktID(q) = [flow |-> << p.version, p.src, p.dst >>, id |-> << "seq", n >>]
  BY <1>1, <1>2 DEF GetPktID, Plain, Sealed, Identity, FlowOf
<1>4. ~HasHAV(q) /\ q.mark # None
  BY <1>1 DEF HasHAV, None
<1>5. CASE mode = "idpd"
  <2>1. PacketID(q) = GetPktID(q)
    BY <1>4, <1>5 DEF PacketID
  <2> QED
    BY <1>3, <1>5, <2>1 DEF q, Assisted
<1>6. CASE mode = "hybrid"
  <2>1. p.version = 4
    BY <1>1, <1>2, <1>6
  <2>2. PacketID(q) = WithHash(q)
    BY <1>1, <1>4, <1>6, <2>1 DEF PacketID
  <2>3. WithHash(q) = [flow |-> << p.version, p.src, p.dst >>, id |-> << << "seq", n >>, Hash(q) >>]
    BY <1>3 DEF WithHash
  <2> QED
    BY <1>6, <2>1, <2>2, <2>3 DEF q, Assisted
<1> QED
  BY <1>2, <1>5, <1>6

\* The identities of a packet that may be given an assist value.
LEMMA HashIdentity ==
    ASSUME NEW p \in LanPackets, Assisted(p), mode \in {"idpd", "hybrid", "hash"}
    PROVE  /\ p.version = 6 /\ mode \in {"hybrid", "hash"}
           /\ HashID(p) = [flow |-> << p.src >>, id |-> << "hash", p.dst, p.own, p.mark, p.body >>]
           /\ HashID(AssistedAs(p)) =
                [flow |-> << p.src >>, id |-> << "hash", p.dst, p.own, << "hav", 0 >>, p.body >>]
<1>1. p.version = 6 /\ mode \in {"hybrid", "hash"}
  BY DEF Assisted
<1> DEFINE q == AssistedAs(p)
<1>2. /\ q.version = p.version /\ q.src = p.src /\ q.dst = p.dst
      /\ q.own = p.own /\ q.mark = << "hav", 0 >> /\ q.body = p.body
  BY LanFields, InsertFields DEF AssistedAs
<1> HIDE DEF q
<1>3. /\ HashID(p) = [flow |-> << p.src >>, id |-> << "hash", p.dst, p.own, p.mark, p.body >>]
      /\ HashID(q) = [flow |-> << p.src >>, id |-> << "hash", p.dst, p.own, << "hav", 0 >>, p.body >>]
  BY <1>1, <1>2 DEF HashID, Identity, Hash
<1> QED
  BY <1>1, <1>3 DEF q

\* What a packet nobody resequenced here may be known by.
LEMMA OtherIdentity ==
    ASSUME NEW r, mode \in {"idpd", "hybrid", "hash"}
    PROVE  LET h == PacketID(r) IN
           \/ h.flow = << r.src >> /\ h = HashID(r) /\ mode # "idpd" /\ r.version # 4
           \/ h.flow = << r.version, r.src, r.dst >>
           \/ h.flow = << "sec", r.version, r.src, r.dst >>
<1>1. \/ GetPktID(r).flow = << r.version, r.src, r.dst >>
      \/ GetPktID(r).flow = << "sec", r.version, r.src, r.dst >>
  BY DEF GetPktID, Identity, FlowOf, Plain, Sealed
<1>2. WithHash(r).flow = GetPktID(r).flow
  BY DEF WithHash, GetPktID, Identity, Plain, Sealed
<1>3. \/ HashID(r).flow = << r.src >> /\ r.version # 4
      \/ HashID(r).flow = << r.version, r.src, r.dst >>
  BY DEF HashID, Identity, FlowOf
<1>4. \/ PacketID(r) = GetPktID(r)
      \/ PacketID(r) = WithHash(r)
      \/ PacketID(r) = HashID(r) /\ mode # "idpd"
  BY DEF PacketID
<1> QED
  BY <1>1, <1>2, <1>3, <1>4

\* A flow of another source is none of the LAN's.
LEMMA ForeignSource ==
    ASSUME NEW r \in ManetPackets, mode \in {"idpd", "hybrid", "hash"}
    PROVE  Foreign(PacketID(r))
<1> DEFINE h == PacketID(r)
<1>1. ASSUME NEW p \in LanPackets PROVE NoNumberOf(h, p) /\ NoHashOf(h, p)
  <2>1. p.src # r.src
    BY SourceAssumption
  <2>2. h.flow # << p.version, p.src, p.dst >> /\ h.flow # << p.src >>
    <3>1. \/ h.flow = << r.src >>
          \/ h.flow = << r.version, r.src, r.dst >>
          \/ h.flow = << "sec", r.version, r.src, r.dst >>
      BY OtherIdentity
    <3> HIDE DEF h
    <3> QED
      BY <2>1, <3>1
  <2> HIDE DEF h
  <2>3. NoNumberOf(h, p)
    BY <2>2, NumberIdentity DEF NoNumberOf, Same
  <2>4. NoHashOf(h, p)
    BY <2>2, HashIdentity DEF NoHashOf, Same
  <2> QED
    BY <2>3, <2>4
<1> QED
  BY <1>1 DEF Foreign

\* Nor is the identity of a packet that carries an assist value, which is taken
\* for a number of its flow.
LEMMA ForeignHAV ==
    ASSUME NEW r, r.version = 6, HasHAV(r), mode \in {"idpd", "hybrid", "hash"}
    PROVE  Foreign(PacketID(r))
<1> DEFINE h == PacketID(r)
<1>1. h = [flow |-> << 6, r.src, r.dst >>, id |-> r.mark]
  <2>1. GetPktID(r) = [flow |-> << 6, r.src, r.dst >>, id |-> r.mark]
    BY DEF GetPktID, Identity, FlowOf, HasHAV, Plain, Sealed
  <2>2. PacketID(r) = GetPktID(r)
    BY DEF PacketID, HasHAV
  <2> QED
    BY <2>1, <2>2
<1> HIDE DEF h
<1>2. ASSUME NEW p \in LanPackets PROVE NoNumberOf(h, p) /\ NoHashOf(h, p)
  <2>1. \A n \in Number : r.mark # << "seq", n >>
    BY DEF HasHAV
  <2>2. NoNumberOf(h, p)
    <3>1. SUFFICES ASSUME Numbered(p), NEW n \in Number PROVE ~Same(h, PacketID(NumberedAs(p, n)))
      BY DEF NoNumberOf
    <3>2. PacketID(NumberedAs(p, n)).flow = << p.version, p.src, p.dst >>
      BY <3>1, NumberIdentity
    <3>3. \/ mode = "idpd" /\ PacketID(NumberedAs(p, n)).id = << "seq", n >>
          \/ p.version = 4
      BY <3>1, NumberIdentity
    <3> QED
      BY <1>1, <2>1, <3>2, <3>3 DEF Same
  <2>3. NoHashOf(h, p)
    BY <1>1, HashIdentity DEF NoHashOf, Same
  <2> QED
    BY <2>2, <2>3
<1> QED
  BY <1>2 DEF Foreign, h

\* Nor is that of a packet of the LAN which is left as it is.
LEMMA ForeignAsIs ==
    ASSUME NEW r \in LanPackets, ~Numbered(r), ~Assisted(r), mode \in {"idpd", "hybrid", "hash"}
    PROVE  Foreign(PacketID(r))
<1> DEFINE h == PacketID(r)
           g == GetPktID(r)
<1>1. r.version \in {4, 6} /\ (r.own # None => r.own[1] \in {"frag", "sec"})
  BY LanFields
<1>2. \/ g.flow = << "sec", r.version, r.src, r.dst >>
      \/ g.flow = << r.version, r.src, r.dst >> /\ r.own # None /\ g.id = r.own
      \/ /\ g.flow = << r.version, r.src, r.dst >> /\ g.id = r.mark
         /\ (Plain(r) \/ (r.version = 6 /\ r.mark # None))
  BY DEF GetPktID, Identity, FlowOf, Plain, Sealed
<1> HIDE DEF h, g
<1>3. ASSUME NEW p \in LanPackets PROVE NoNumberOf(h, p)
  <2> SUFFICES ASSUME Numbered(p), NEW n \in Number, Same(h, PacketID(NumberedAs(p, n)))
               PROVE  FALSE
    BY DEF NoNumberOf
  <2>1. CASE mode = "idpd"
    <3>1. h = g
      BY <2>1 DEF PacketID, WithHash, h, g
    <3>2. g.flow = << p.version, p.src, p.dst >> /\ g.id = << "seq", n >>
      BY <2>1, <3>1, NumberIdentity DEF Same
    <3>3. r.version = p.version /\ r.src = p.src /\ r.dst = p.dst /\ g.id = r.mark
      BY <1>1, <1>2, <3>2
    <3>4. r.version = 6 /\ r.mark # None
      BY <1>1, <1>2, <2>1, <3>2 DEF Numbered, Plain, g
    <3>5. p.own = None /\ p.mark = None
      BY <3>3, <3>4, LanFields DEF Numbered, GetPktID, Identity, Plain, Sealed
    <3>6. r.mark[1] # "seq"
      BY <3>3, <3>4, <3>5, HostAssumption
    <3> QED
      BY <3>2, <3>3, <3>6
  <2>2. CASE mode = "hybrid"
    <3>1. /\ p.version = 4 /\ h.flow = << p.version, p.src, p.dst >>
          /\ h.id = << << "seq", n >>, Hash(NumberedAs(p, n)) >>
      BY <2>2, NumberIdentity DEF Same
    <3>2. r.version = 4 => h.flow = g.flow /\ h.id = << g.id, Hash(r) >>
      BY <2>2 DEF PacketID, WithHash, GetPktID, Identity, Plain, Sealed, h, g
    <3>3. r.version = 4 => ~Plain(r)
      BY <2>2 DEF Numbered
    <3>4. r.version = 4
      <4>1. \/ h.flow = << r.src >>
            \/ h.flow = << r.version, r.src, r.dst >>
            \/ h.flow = << "sec", r.version, r.src, r.dst >>
        BY OtherIdentity DEF h
      <4> QED
        BY <3>1, <4>1
    <3> QED
      BY <1>1, <1>2, <3>1, <3>2, <3>3, <3>4
  <2>3. CASE mode = "hash"
    BY <2>3, NumberIdentity
  <2> QED
    BY <2>1, <2>2, <2>3
<1>4. ASSUME NEW p \in LanPackets PROVE NoHashOf(h, p)
  <2> SUFFICES ASSUME Assisted(p), Same(h, HashID(p)) \/ Same(h, HashID(AssistedAs(p)))
               PROVE  FALSE
    BY DEF NoHashOf
  <2>1. h.flow = << p.src >> /\ mode \in {"hybrid", "hash"}
    BY HashIdentity DEF Same
  <2>2. h = HashID(r) /\ r.version = 6
    BY <1>1, <2>1, OtherIdentity DEF h
  <2>3. CASE mode = "hybrid"
    <3>1. r.mark = None /\ ~Plain(r)
      BY <2>2, <2>3 DEF Assisted
    <3>2. h = WithHash(r)
      BY <2>2, <2>3, <3>1 DEF PacketID, HasHAV, h
    <3>3. h.flow = g.flow
      BY <3>2 DEF WithHash, GetPktID, Identity, g
    <3> QED
      BY <1>2, <2>1, <3>3
  <2>4. CASE mode = "hash"
    <3>1. r.mark = None /\ Sealed(r)
      BY <2>2, <2>4 DEF Assisted
    <3>2. h.id = << "hash", r.dst, r.own, r.mark, r.body >>
      BY <2>2 DEF HashID, Identity, Hash
    <3>3. h.id # << "hash", p.dst, p.own, << "hav", 0 >>, p.body >>
      BY <3>1, <3>2 DEF None
    <3>4. p.own = r.own /\ p.mark = None
      BY <3>1, <3>2, <3>3, HashIdentity DEF Same
    <3> QED
      BY <2>4, <3>1, <3>4 DEF Assisted, Sealed
  <2> QED
    BY <2>1, <2>3, <2>4
<1> QED
  BY <1>3, <1>4 DEF Foreign, h

\* Two numbered packets that cannot be told apart had one flow and one number.
LEMMA SameNumber ==
    ASSUME NEW p \in LanPackets, Numbered(p), NEW n \in Number,
           NEW r \in LanPackets, Numbered(r), NEW k \in Number,
           Same(PacketID(NumberedAs(p, n)), PacketID(NumberedAs(r, k))),
           mode \in {"idpd", "hybrid", "hash"}
    PROVE  p.version = r.version /\ KeyOf(p) = KeyOf(r) /\ n = k
<1> DEFINE h == PacketID(NumberedAs(p, n))
           g == PacketID(NumberedAs(r, k))
<1>1. h.flow = << p.version, p.src, p.dst >> /\ g.flow = << r.version, r.src, r.dst >>
  BY NumberIdentity
<1>2. \/ h.id = << "seq", n >> /\ g.id = << "seq", k >>
      \/ /\ h.id = << << "seq", n >>, Hash(NumberedAs(p, n)) >>
         /\ g.id = << << "seq", k >>, Hash(NumberedAs(r, k)) >>
  BY NumberIdentity
<1>3. h.flow = g.flow /\ h.id = g.id
  BY DEF Same
<1> HIDE DEF h, g
<1> QED
  BY <1>1, <1>2, <1>3 DEF KeyOf

\* What is numbered is not taken for what is hashed, nor the other way round.
LEMMA NumberIsNoHash ==
    ASSUME NEW p \in LanPackets, Numbered(p), NEW n \in Number,
           NEW r \in LanPackets, mode \in {"idpd", "hybrid", "hash"}
    PROVE  NoHashOf(PacketID(NumberedAs(p, n)), r)
<1> SUFFICES ASSUME Assisted(r) PROVE NoHashOf(PacketID(NumberedAs(p, n)), r)
  BY DEF NoHashOf
<1>1. HashID(r).flow = << r.src >> /\ HashID(AssistedAs(r)).flow = << r.src >>
  BY HashIdentity
<1>2. PacketID(NumberedAs(p, n)).flow = << p.version, p.src, p.dst >>
  BY NumberIdentity
<1> QED
  BY <1>1, <1>2 DEF NoHashOf, Same

LEMMA HashIsNoNumber ==
    ASSUME NEW r \in LanPackets, Assisted(r), NEW h \in {HashID(r), HashID(AssistedAs(r))},
           NEW p \in LanPackets, mode \in {"idpd", "hybrid", "hash"}
    PROVE  NoNumberOf(h, p)
<1> SUFFICES ASSUME Numbered(p), NEW n \in Number PROVE ~Same(h, PacketID(NumberedAs(p, n)))
  BY DEF NoNumberOf
<1>1. h.flow = << r.src >>
  BY HashIdentity
<1>2. PacketID(NumberedAs(p, n)).flow = << p.version, p.src, p.dst >>
  BY NumberIdentity
<1> QED
  BY <1>1, <1>2 DEF Same

-----------------------------------------------------------------------------
\* The inductive invariant

\* The flows and records of each manager.
DrawsOf(v) == {d \in drawn : d.version = v}

Numbering ==
    /\ seq_mgr = [v \in Version |-> seq_mgr[v]]
    /\ drawn \subseteq DrawType /\ IsFiniteSet(drawn)
    /\ \A v \in Version : ListOK(seq_mgr[v]) /\ ListCounts(seq_mgr[v], DrawsOf(v))

\* What is pushed or heard is marked in the tables of both interfaces.
Entry(h, age) == [flow |-> h.flow, id |-> h.id, age |-> age]
IsTable(t) == \A e \in t : e = Entry(e, e.age) /\ e.age \in Age

Tables ==
    /\ dpd = [i \in Iface |-> dpd["manet"]]
    /\ IsTable(dpd["manet"]) /\ IsTable(hash_stash)

\* A packet in the air is known, and was marked no earlier than it was sent;
\* save one that carries an assist value.
AirKnown ==
    \A a \in air :
        /\ a = [pkt |-> a.pkt, age |-> a.age] /\ a.age \in 0 .. AirTime
        /\ \/ a.pkt.version = 6 /\ HasHAV(a.pkt)
           \/ \E e \in dpd["manet"] : Same(e, PacketID(a.pkt)) /\ e.age <= a.age

\* Every number by which a packet of the LAN is known was drawn for its flow,
\* and the record of that is no older.
NumbersRecorded ==
    \A p \in LanPackets : Numbered(p) =>
        \A n \in Number : \A e \in dpd["manet"] :
            Same(e, PacketID(NumberedAs(p, n))) =>
                \E d \in drawn : /\ d.version = p.version /\ d.key = KeyOf(p)
                                 /\ d.value = n /\ d.age <= e.age

\* The stash and the tables know the same hashes of packets of the LAN, and
\* will forget them together.
StashMatches ==
    \A p \in LanPackets : Assisted(p) =>
        \A h \in {HashID(p), HashID(AssistedAs(p))}, age \in Age :
            Entry(h, age) \in hash_stash <=> Entry(h, age) \in dpd["manet"]

IInv ==
    /\ mode \in {"idpd", "hybrid", "hash"} /\ mode \in Modes
    /\ Numbering
    /\ Tables
    /\ AirKnown
    /\ NumbersRecorded
    /\ StashMatches

-----------------------------------------------------------------------------
\* Tables

LEMMA RememberElements ==
    ASSUME NEW t, IsTable(t), NEW h
    PROVE  LET s == Remember(t, h) IN
           /\ \A e : e \in s <=> e \in t \/ (~Holds(t, h) /\ e = Entry(h, 0))
           /\ \E e \in s : Same(e, h)
           /\ IsTable(s)
<1>1. CASE Holds(t, h)
  BY <1>1 DEF Remember, Holds, Same
<1>2. CASE ~Holds(t, h)
  <2>1. Remember(t, h) = t \cup {Entry(h, 0)}
    BY <1>2 DEF Remember, Entry
  <2>2. Entry(h, 0).flow = h.flow /\ Entry(h, 0).id = h.id /\ Entry(h, 0).age = 0
    BY DEF Entry
  <2>3. Entry(Entry(h, 0), 0) = Entry(h, 0) /\ 0 \in Age
    BY AgeAssumption DEF Entry, Age
  <2> HIDE DEF Entry
  <2>4. IsTable(t \cup {Entry(h, 0)})
    BY <2>2, <2>3 DEF IsTable
  <2> QED
    BY <1>2, <2>1, <2>2, <2>4 DEF Same
<1> QED
  BY <1>1, <1>2

\* A table holds an identity at one age or another.
LEMMA HoldsEntry ==
    ASSUME NEW t, IsTable(t), NEW h
    PROVE  Holds(t, h) <=> \E age \in Age : Entry(h, age) \in t
<1>1. ASSUME Holds(t, h) PROVE \E age \in Age : Entry(h, age) \in t
  <2>1. PICK e \in t : e.flow = h.flow /\ e.id = h.id
    BY <1>1 DEF Holds
  <2>2. e = Entry(h, e.age) /\ e.age \in Age
    BY <2>1 DEF IsTable, Entry
  <2> QED
    BY <2>2
<1>2. ASSUME NEW age \in Age, Entry(h, age) \in t PROVE Holds(t, h)
  BY <1>2 DEF Holds, Entry
<1> QED
  BY <1>1, <1>2

LEMMA PruneEntry ==
    ASSUME NEW t, IsTable(t)
    PROVE  /\ IsTable(Prune(t))
           /\ \A h : \A age \in Age :
                Entry(h, age) \in Prune(t) <=> age - 1 \in Age /\ Entry(h, age - 1) \in t
<1>1. AgeMax \in Nat
  BY AgeAssumption
<1>2. \A e \in t : [e EXCEPT !.age = @ + 1] = Entry(e, e.age + 1)
  BY DEF IsTable, Entry
<1>3. IsTable(Prune(t))
  <2>1. ASSUME NEW f \in Prune(t) PROVE f = Entry(f, f.age) /\ f.age \in Age
    <3>1. PICK e \in t : e.age <= AgeMax /\ f = Entry(e, e.age + 1)
      BY <1>2, PruneElements
    <3>2. e.age + 1 \in Age
      BY <1>1, <3>1 DEF IsTable, Age
    <3> QED
      BY <3>1, <3>2 DEF Entry
  <2> QED
    BY <2>1 DEF IsTable
<1>4. ASSUME NEW h, NEW age \in Age, Entry(h, age) \in Prune(t)
      PROVE  age - 1 \in Age /\ Entry(h, age - 1) \in t
  <2>1. PICK e \in t : e.age <= AgeMax /\ Entry(h, age) = Entry(e, e.age + 1)
    BY <1>2, <1>4, PruneElements
  <2>2. h.flow = e.flow /\ h.id = e.id /\ age = e.age + 1 /\ e.age \in Age /\ e = Entry(e, e.age)
    BY <2>1 DEF Entry, IsTable
  <2>3. age - 1 = e.age
    BY <2>2 DEF Age
  <2>4. Entry(h, e.age) = Entry(e, e.age)
    BY <2>2 DEF Entry
  <2> QED
    BY <2>2, <2>3, <2>4
<1>5. ASSUME NEW h, NEW age \in Age, age - 1 \in Age, Entry(h, age - 1) \in t
      PROVE  Entry(h, age) \in Prune(t)
  <2> DEFINE e == Entry(h, age - 1)
  <2>1. e \in t /\ e.age <= AgeMax /\ e.age + 1 = age
    BY <1>1, <1>5 DEF Entry, Age
  <2>2. Entry(e, e.age + 1) = Entry(h, age)
    BY <2>1 DEF Entry
  <2> HIDE DEF e
  <2>3. [e EXCEPT !.age = @ + 1] = Entry(e, e.age + 1)
    BY <1>2, <2>1
  <2>4. [e EXCEPT !.age = @ + 1] \in Prune(t)
    BY <2>1, PruneElements
  <2> QED
    BY <2>2, <2>3, <2>4
<1> QED
  BY <1>3, <1>4, <1>5

-----------------------------------------------------------------------------
\* What one step does to the parts of the invariant

\* mode is set once and for all, and so is what identifies a packet.
LEMMA IdentitiesFixed ==
    ASSUME mode' = mode
    PROVE  \A p : /\ PacketID(p)' = PacketID(p)
                  /\ Numbered(p)' <=> Numbered(p)
                  /\ Assisted(p)' <=> Assisted(p)
BY DEF PacketID, Numbered, Assisted

\* h is marked in both tables.
Marked(h) == dpd' = [i \in Iface |-> Remember(dpd[i], h)]

LEMMA MarkedOK ==
    ASSUME Tables, NEW h, Marked(h)
    PROVE  /\ dpd'["manet"] = Remember(dpd["manet"], h)
           /\ dpd' = [i \in Iface |-> dpd'["manet"]]
           /\ IsTable(dpd'["manet"])
           /\ dpd["manet"] \subseteq dpd'["manet"]
           /\ \E e \in dpd'["manet"] : Same(e, h)
<1>1. dpd["lan"] = dpd["manet"] /\ dpd["manet"] = dpd["manet"]
  BY DEF Tables, Iface
<1>2. dpd' = [i \in Iface |-> Remember(dpd["manet"], h)]
  BY <1>1 DEF Marked, Iface
<1>3. dpd'["manet"] = Remember(dpd["manet"], h)
  BY <1>2 DEF Iface
<1>4. IsTable(dpd["manet"])
  BY DEF Tables
<1> QED
  BY <1>2, <1>3, <1>4, RememberElements

\* Marking h keeps the numbers recorded if it is no number of the LAN's, or
\* that number was drawn just now.
LEMMA NumbersMarked ==
    ASSUME IInv, mode' = mode, NEW h, Marked(h), drawn \subseteq drawn',
           \A p \in LanPackets : Numbered(p) =>
             \A n \in Number : Same(h, PacketID(NumberedAs(p, n))) =>
               \E d \in drawn' : /\ d.version = p.version /\ d.key = KeyOf(p)
                                 /\ d.value = n /\ d.age <= 0
    PROVE  NumbersRecorded'
<1>1. ASSUME NEW p \in LanPackets, Numbered(p), NEW n \in Number, NEW e \in dpd'["manet"],
             Same(e, PacketID(NumberedAs(p, n)))
      PROVE  \E d \in drawn' : /\ d.version = p.version /\ d.key = KeyOf(p)
                               /\ d.value = n /\ d.age <= e.age
  <2>1. e \in dpd["manet"] \/ e = Entry(h, 0)
    BY MarkedOK, RememberElements DEF IInv, Tables
  <2>2. CASE e \in dpd["manet"]
    BY <1>1, <2>2 DEF IInv, NumbersRecorded
  <2>3. CASE e = Entry(h, 0)
    <3>1. e.age = 0 /\ Same(h, PacketID(NumberedAs(p, n)))
      BY <1>1, <2>3 DEF Entry, Same
    <3> QED
      BY <1>1, <3>1
  <2> QED
    BY <2>1, <2>2, <2>3
<1>2. \A q : (Numbered(q)' <=> Numbered(q)) /\ PacketID(q)' = PacketID(q)
  BY IdentitiesFixed
<1> QED
  BY <1>1, <1>2 DEF NumbersRecorded

\* Marking h keeps stash and tables alike if it is no hash of the LAN's.
LEMMA StashMarked ==
    ASSUME IInv, mode' = mode, NEW h, Marked(h), hash_stash' = hash_stash,
           \A p \in LanPackets : NoHashOf(h, p)
    PROVE  StashMatches'
<1>1. ASSUME NEW p \in LanPackets, Assisted(p), NEW k \in {HashID(p), HashID(AssistedAs(p))},
             NEW age \in Age
      PROVE  Entry(k, age) \in hash_stash' <=> Entry(k, age) \in dpd'["manet"]
  <2>1. ~Same(h, k)
    BY <1>1 DEF NoHashOf
  <2>2. Entry(k, age) # Entry(h, 0)
    BY <2>1 DEF Entry, Same
  <2>3. Entry(k, age) \in dpd'["manet"] <=> Entry(k, age) \in dpd["manet"]
    BY <2>2, MarkedOK, RememberElements DEF IInv, Tables
  <2>4. Entry(k, age) \in hash_stash <=> Entry(k, age) \in dpd["manet"]
    BY <1>1 DEF IInv, StashMatches
  <2> QED
    BY <2>3, <2>4
<1>2. \A q : Assisted(q)' <=> Assisted(q)
  BY IdentitiesFixed
<1> QED
  BY <1>1, <1>2 DEF StashMatches

\* So does stashing h where the tables are left alone, and stashing a hash of
\* the LAN's where they are marked with it.
LEMMA StashRemembered ==
    ASSUME IInv, mode' = mode, NEW h, hash_stash' = Remember(hash_stash, h),
           \/ dpd' = dpd /\ \A p \in LanPackets : NoHashOf(h, p)
           \/ /\ Marked(h)
              /\ \E p \in LanPackets : Assisted(p) /\ h \in {HashID(p), HashID(AssistedAs(p))}
    PROVE  StashMatches' /\ IsTable(hash_stash')
<1>1. /\ IsTable(hash_stash')
      /\ \A e : e \in hash_stash' <=> e \in hash_stash \/ (~Holds(hash_stash, h) /\ e = Entry(h, 0))
  BY RememberElements DEF IInv, Tables
<1>2. ASSUME NEW p \in LanPackets, Assisted(p), NEW k \in {HashID(p), HashID(AssistedAs(p))},
             NEW age \in Age
      PROVE  Entry(k, age) \in hash_stash' <=> Entry(k, age) \in dpd'["manet"]
  <2>1. Entry(k, age) \in hash_stash <=> Entry(k, age) \in dpd["manet"]
    BY <1>2 DEF IInv, StashMatches
  <2>2. CASE dpd' = dpd /\ \A r \in LanPackets : NoHashOf(h, r)
    <3>1. ~Same(h, k)
      BY <1>2, <2>2 DEF NoHashOf
    <3>2. Entry(k, age) # Entry(h, 0)
      BY <3>1 DEF Entry, Same
    <3> QED
      BY <1>1, <2>1, <2>2, <3>2
  <2>3. CASE /\ Marked(h)
             /\ \E r \in LanPackets : Assisted(r) /\ h \in {HashID(r), HashID(AssistedAs(r))}
    <3>1. \A a \in Age : Entry(h, a) \in hash_stash <=> Entry(h, a) \in dpd["manet"]
      BY <2>3 DEF IInv, StashMatches
    <3>2. Holds(hash_stash, h) <=> Holds(dpd["manet"], h)
      BY <3>1, HoldsEntry DEF IInv, Tables
    <3>3. \A e : e \in dpd'["manet"] <=> e \in dpd["manet"] \/ (~Holds(dpd["manet"], h) /\ e = Entry(h, 0))
      BY <2>3, MarkedOK, RememberElements DEF IInv, Tables
    <3> QED
      BY <1>1, <2>1, <3>2, <3>3
  <2> QED
    BY <2>2, <2>3
<1>3. \A q : Assisted(q)' <=> Assisted(q)
  BY IdentitiesFixed
<1> QED
  BY <1>1, <1>2, <1>3 DEF StashMatches

\* What is sent is known once it is marked, and what was known stays so.
LEMMA AirMarked ==
    ASSUME IInv, mode' = mode, NEW h, Marked(h), NEW q,
           air' = air \/ (~Holds(dpd["manet"], h) /\ air' = air \cup {[pkt |-> q, age |-> 0]}),
           (q.version = 6 /\ HasHAV(q)) \/ Same(h, PacketID(q)) \/ air' = air
    PROVE  AirKnown'
<1> DEFINE KnownIn(a, t) ==
             /\ a = [pkt |-> a.pkt, age |-> a.age] /\ a.age \in 0 .. AirTime
             /\ \/ a.pkt.version = 6 /\ HasHAV(a.pkt)
                \/ \E e \in t : Same(e, PacketID(a.pkt)) /\ e.age <= a.age
<1>1. /\ dpd["manet"] \subseteq dpd'["manet"]
      /\ \A e : e \in dpd'["manet"] <=> e \in dpd["manet"] \/ (~Holds(dpd["manet"], h) /\ e = Entry(h, 0))
  BY MarkedOK, RememberElements DEF IInv, Tables
<1>2. ASSUME NEW a \in air' PROVE KnownIn(a, dpd'["manet"])
  <2>1. CASE a \in air
    <3>1. KnownIn(a, dpd["manet"])
      BY <2>1 DEF IInv, AirKnown
    <3> QED
      BY <1>1, <3>1
  <2>2. CASE a \notin air
    <3>1. ~Holds(dpd["manet"], h) /\ a = [pkt |-> q, age |-> 0]
      BY <1>2, <2>2
    <3>2. a.pkt = q /\ a.age = 0 /\ 0 \in 0 .. AirTime
      BY <3>1, AirTimeAssumption, AgeAssumption
    <3>3. Entry(h, 0) \in dpd'["manet"] /\ Entry(h, 0).age = 0
      BY <1>1, <3>1 DEF Entry
    <3>4. (q.version = 6 /\ HasHAV(q)) \/ Same(Entry(h, 0), PacketID(q))
      BY <1>2, <2>2 DEF Same, Entry
    <3> QED
      BY <3>1, <3>2, <3>3, <3>4
  <2> QED
    BY <2>1, <2>2
<1>3. \A p : PacketID(p)' = PacketID(p)
  BY IdentitiesFixed
<1> QED
  BY <1>2, <1>3 DEF AirKnown

-----------------------------------------------------------------------------
\* Drawing numbers

\* A flow may be given a number that follows all it was given lately.
LEMMA NextIsCounted ==
    ASSUME Numbering, NEW v \in Version, NEW key, NEW n \in NextNumbers(seq_mgr[v], key)
    PROVE  /\ n \in Number
           /\ Lately(v, key) = Of(DrawsOf(v), key)
           /\ IsFiniteSet(Lately(v, key)) /\ Lately(v, key) \subseteq DrawType
           /\ Counted(Lately(v, key), n)
<1> DEFINE list == seq_mgr[v]
           records == DrawsOf(v)
<1>1. Lately(v, key) = Of(records, key)
  BY DEF Lately, Of, DrawsOf
<1>2. IsFiniteSet(Lately(v, key)) /\ Lately(v, key) \subseteq DrawType
  <2>1. Lately(v, key) \subseteq drawn
    BY DEF Lately
  <2> QED
    BY <2>1, FS_Subset DEF Numbering
<1>3. list \in Seq(Flow) /\ ListCounts(list, records)
  BY DEF Numbering, ListOK
<1> HIDE DEF list, records
<1>4. DOMAIN list = 1 .. Len(list) /\ \A i \in 1 .. Len(list) : list[i] \in Flow
  BY <1>3, SeqElements
<1>5. n \in NextNumbers(list, key)
  BY DEF list
<1>6. CASE Places(list, key) = {}
  <2>1. Of(records, key) = {}
    BY <1>3, <1>4, <1>6 DEF Places, ListCounts, Of
  <2>2. n \in Number
    BY <1>5, <1>6 DEF NextNumbers
  <2> QED
    BY <1>1, <1>2, <2>1, <2>2 DEF Counted, records
<1>7. CASE Places(list, key) # {}
  <2>1. PICK i \in 1 .. Len(list) : list[i].key = key /\ n = list[i].next
    BY <1>4, <1>5, <1>7 DEF NextNumbers, Places
  <2>2. n \in Number
    BY <1>4, <2>1 DEF Flow
  <2>3. Counted(Of(records, key), n)
    BY <1>3, <2>1 DEF ListCounts, FlowCounts
  <2> QED
    BY <1>1, <1>2, <2>2, <2>3 DEF records
<1> QED
  BY <1>6, <1>7

LEMMA NumbersGiven ==
    ASSUME Numbering, NEW v \in Version, NEW key \in Key, NEW m \in Number, NEW news,
           IsFiniteSet(news), news \subseteq DrawType,
           \A d \in news : d.version = v /\ d.key = key /\ d.age = 0,
           Counted(Lately(v, key) \cup news, Inc(m)),
           seq_mgr' = [seq_mgr EXCEPT ![v] = IncrementSequence(@, key, m)],
           drawn' = drawn \cup news
    PROVE  Numbering'
<1>1. /\ v \in DOMAIN seq_mgr /\ DOMAIN seq_mgr = Version
      /\ ListOK(seq_mgr[v]) /\ ListCounts(seq_mgr[v], DrawsOf(v))
  BY DEF Numbering
<1>2. drawn' \subseteq DrawType /\ IsFiniteSet(drawn')
  BY FS_Union DEF Numbering
<1>3. /\ seq_mgr' = [w \in Version |-> seq_mgr'[w]]
      /\ seq_mgr'[v] = IncrementSequence(seq_mgr[v], key, m)
      /\ \A w \in Version \ {v} : seq_mgr'[w] = seq_mgr[w]
  BY <1>1
<1>4. DrawsOf(v)' = DrawsOf(v) \cup news
  BY DEF DrawsOf
<1>5. ListOK(seq_mgr'[v]) /\ ListCounts(seq_mgr'[v], DrawsOf(v)')
  <2>1. Lately(v, key) = Of(DrawsOf(v), key)
    BY DEF Lately, Of, DrawsOf
  <2>2. \A d \in DrawsOf(v) : d.age \in Nat
    BY AgeAssumption DEF DrawsOf, Numbering, DrawType, Age
  <2>3. Counted(Of(DrawsOf(v), key) \cup news, Inc(m))
    BY <2>1
  <2>4. LET new == IncrementSequence(seq_mgr[v], key, m) IN
        ListOK(new) /\ ListCounts(new, DrawsOf(v) \cup news)
    BY <1>1, <2>2, <2>3, IncrementOK
  <2> QED
    BY <1>3, <1>4, <2>4
<1>6. ASSUME NEW w \in Version \ {v}
      PROVE  ListOK(seq_mgr'[w]) /\ ListCounts(seq_mgr'[w], DrawsOf(w)')
  <2>1. DrawsOf(w)' = DrawsOf(w)
    BY DEF DrawsOf
  <2> QED
    BY <1>3, <2>1 DEF Numbering
<1> QED
  BY <1>2, <1>3, <1>5, <1>6 DEF Numbering

LEMMA DrawOK ==
    ASSUME Numbering, NEW v \in Version, NEW key \in Key, NEW n, Draw(v, key, n)
    PROVE  /\ Numbering' /\ drawn \subseteq drawn'
           /\ [version |-> v, key |-> key, value |-> n, age |-> 0] \in drawn'
<1> DEFINE d == [version |-> v, key |-> key, value |-> n, age |-> 0]
           late == Lately(v, key)
<1>1. n \in NextNumbers(seq_mgr[v], key) /\ Cardinality(late) + 1 < SeqMod
  BY DEF Draw, RateAllows
<1>2. n \in Number /\ IsFiniteSet(late) /\ late \subseteq DrawType /\ Counted(late, n)
  BY <1>1, NextIsCounted
<1>3. d \in DrawType /\ d.value = n /\ d.age = 0 /\ d.version = v /\ d.key = key
  BY <1>2, AgeAssumption DEF DrawType, Age
<1>4. /\ seq_mgr' = [seq_mgr EXCEPT ![v] = IncrementSequence(@, key, n)]
      /\ drawn' = drawn \cup {d}
  BY DEF Draw
<1> HIDE DEF d, late
<1>5. Counted(late \cup {d}, Inc(n))
  BY <1>1, <1>2, <1>3, CountedDraw
<1>6. IsFiniteSet({d}) /\ {d} \subseteq DrawType
  BY <1>3, FS_Singleton
<1>7. Numbering'
  BY <1>2, <1>3, <1>4, <1>5, <1>6, NumbersGiven DEF late
<1> QED
  BY <1>4, <1>7 DEF d

\* The number 0 is drawn and left out.
LEMMA SkipOK ==
    ASSUME Numbering, NEW key \in Key, 0 \in NextNumbers(seq_mgr[4], key), RateAllows(4, key, 2),
           seq_mgr' = [seq_mgr EXCEPT ![4] = IncrementSequence(@, key, 1)],
           drawn' = drawn \cup {[version |-> 4, key |-> key, value |-> n, age |-> 0] : n \in {0, 1}}
    PROVE  Numbering'
<1> DEFINE d(n) == [version |-> 4, key |-> key, value |-> n, age |-> 0]
           late == Lately(4, key)
           news == {d(0), d(1)}
<1>1. 4 \in Version
  BY DEF Version
<1>2. /\ 0 \in Number /\ IsFiniteSet(late) /\ late \subseteq DrawType /\ Counted(late, 0)
      /\ Cardinality(late) + 2 < SeqMod /\ Cardinality(late) \in Nat
  BY <1>1, NextIsCounted, FS_CardinalityType DEF RateAllows
<1>3. 1 \in Number /\ Inc(0) = 1
  BY <1>2, SeqModAssumption, IncNumber DEF Number
<1>4. \A n \in {0, 1} : /\ d(n) \in DrawType /\ d(n).value = n /\ d(n).age = 0
                        /\ d(n).version = 4 /\ d(n).key = key
  BY <1>1, <1>2, <1>3, AgeAssumption DEF DrawType, Age
<1>5. drawn' = drawn \cup news
  BY DEF news
<1> HIDE DEF d, late
<1>6. /\ IsFiniteSet(late \cup {d(0)}) /\ late \cup {d(0)} \subseteq DrawType
      /\ Cardinality(late \cup {d(0)}) + 1 < SeqMod
  <2>1. Cardinality(late \cup {d(0)}) <= Cardinality(late) + 1 /\ IsFiniteSet(late \cup {d(0)})
    <3>1. /\ IsFiniteSet(late \cup {d(0)})
          /\ Cardinality(late \cup {d(0)}) = IF d(0) \in late THEN Cardinality(late) ELSE Cardinality(late) + 1
      BY <1>2, FS_AddElement
    <3> QED
      BY <1>2, <3>1
  <2>2. Cardinality(late \cup {d(0)}) \in Nat
    BY <2>1, FS_CardinalityType
  <2> QED
    BY <1>2, <1>4, <2>1, <2>2, SeqModAssumption
<1>7. Counted(late \cup {d(0)}, 1)
  <2>1. Cardinality(late) + 1 < SeqMod
    BY <1>2, SeqModAssumption
  <2> QED
    BY <1>2, <1>3, <1>4, <2>1, CountedDraw
<1>8. Counted((late \cup {d(0)}) \cup {d(1)}, Inc(1))
  BY <1>3, <1>4, <1>6, <1>7, CountedDraw
<1>9. Counted(late \cup news, Inc(1))
  <2>1. late \cup news = (late \cup {d(0)}) \cup {d(1)}
    OBVIOUS
  <2> QED
    BY <1>8, <2>1
<1>10. /\ IsFiniteSet(news) /\ news \subseteq DrawType
       /\ \A e \in news : e.version = 4 /\ e.key = key /\ e.age = 0
  <2>1. IsFiniteSet({d(0)} \cup {d(1)})
    BY FS_Singleton, FS_AddElement
  <2>2. {d(0)} \cup {d(1)} = news
    OBVIOUS
  <2> QED
    BY <1>4, <2>1, <2>2
<1> HIDE DEF news
<1> QED
  BY <1>1, <1>3, <1>5, <1>9, <1>10, NumbersGiven DEF late

-----------------------------------------------------------------------------
\* Every step keeps the invariant

LEMMA InitIInv == Init => IInv
<1> SUFFICES ASSUME Init PROVE IInv
  OBVIOUS
<1>1. mode \in {"idpd", "hybrid", "hash"} /\ mode \in Modes
  BY ModesAssumption DEF Init
<1>2. Numbering
  <2>1. drawn = {} /\ IsFiniteSet(drawn) /\ \A v \in Version : DrawsOf(v) = {}
    BY FS_EmptySet DEF Init, DrawsOf
  <2>2. seq_mgr = [v \in Version |-> seq_mgr[v]] /\ \A v \in Version : seq_mgr[v] = << >>
    BY DEF Init
  <2>3. << >> \in Seq(Flow) /\ Len(<< >>) = 0
    OBVIOUS
  <2>4. ListOK(<< >>) /\ ListCounts(<< >>, {})
    BY <2>3 DEF ListOK, Once, Ordered, ListCounts
  <2> QED
    BY <2>1, <2>2, <2>4 DEF Numbering
<1>3. Tables
  BY DEF Init, Tables, IsTable, Iface
<1>4. AirKnown /\ NumbersRecorded /\ StashMatches
  BY DEF Init, AirKnown, NumbersRecorded, StashMatches, Iface
<1> QED
  BY <1>1, <1>2, <1>3, <1>4 DEF IInv

LEMMA KeyOfIsKey ==
    ASSUME NEW p \in Packet
    PROVE  p.version \in Version /\ KeyOf(p) \in Key /\ LocalKey(p) \in Key
BY DEF Packet, KeyOf, LocalKey, Key

LEMMA PushNumberedOK ==
    ASSUME IInv, NEW p \in LanPackets, PushNumbered(p)
    PROVE  IInv'
<1>1. PICK n \in Number : Draw(p.version, KeyOf(p), n) /\ Push(p, NumberedAs(p, n))
  BY DEF PushNumbered, NumberedAs
<1>2. Numbered(p) /\ mode' = mode /\ hash_stash' = hash_stash /\ mode \in {"idpd", "hybrid", "hash"}
  BY DEF PushNumbered, IInv
<1> DEFINE q == NumberedAs(p, n)
           h == PacketID(q)
<1>3. /\ Marked(h)
      /\ air' = air \/ (~Holds(dpd["manet"], h) /\ air' = air \cup {[pkt |-> q, age |-> 0]})
  <2>1. MarkedAs(p, q) = h
    BY <1>2, NumberIdentity DEF MarkedAs
  <2> QED
    BY <1>1, <2>1 DEF Push, Marked
<1>4. /\ Numbering' /\ drawn \subseteq drawn'
      /\ [version |-> p.version, key |-> KeyOf(p), value |-> n, age |-> 0] \in drawn'
  BY <1>1, LanFields, KeyOfIsKey, DrawOK DEF IInv
<1>5. NumbersRecorded'
  <2>1. ASSUME NEW r \in LanPackets, Numbered(r), NEW k \in Number, Same(h, PacketID(NumberedAs(r, k)))
        PROVE  \E d \in drawn' : /\ d.version = r.version /\ d.key = KeyOf(r)
                                 /\ d.value = k /\ d.age <= 0
    <3>1. p.version = r.version /\ KeyOf(p) = KeyOf(r) /\ n = k
      BY <1>2, <2>1, SameNumber
    <3> QED
      BY <1>4, <3>1
  <2> HIDE DEF h
  <2> QED
    BY <1>2, <1>3, <1>4, <2>1, NumbersMarked
<1>6. StashMatches'
  <2>1. \A r \in LanPackets : NoHashOf(h, r)
    BY <1>2, NumberIsNoHash
  <2> HIDE DEF h
  <2> QED
    BY <1>2, <1>3, <2>1, StashMarked
<1>7. AirKnown'
  BY <1>2, <1>3, AirMarked DEF Same
<1>8. Tables'
  BY <1>2, <1>3, MarkedOK DEF IInv, Tables
<1> QED
  BY <1>2, <1>4, <1>5, <1>6, <1>7, <1>8 DEF IInv

\* What ApplyHAV makes of a packet is known by one of the packet's two hashes.
LEMMA ApplyHAVHash ==
    ASSUME NEW p \in LanPackets, Assisted(p), mode \in {"idpd", "hybrid", "hash"}
    PROVE  LET q == ApplyHAV(p) IN
           /\ HashID(q) \in {HashID(p), HashID(AssistedAs(p))}
           /\ (q.version = 6 /\ HasHAV(q)) \/ HashID(q) = PacketID(q)
           /\ q.version = 6 => ~Holds(hash_stash, HashID(q))
<1> DEFINE a == AssistedAs(p)
           z == [a EXCEPT !.version = 0]
<1>1. p.version = 6 /\ mode \in {"hybrid", "hash"}
  BY HashIdentity
<1>2. a \in [version : Version, src : Address, dst : Address,
            own : {None} \cup ({"frag", "sec"} \X Nat),
            mark : {None} \cup ({"seq", "hav"} \X Nat), body : Body]
  BY LanFields DEF Packet, AssistedAs, InsertOptionDPD, None
<1>3. a.version = 6 /\ a.mark = << "hav", 0 >>
  BY <1>1, LanFields, InsertFields DEF AssistedAs
<1> HIDE DEF a
<1>4. /\ z.version = 0 /\ z.src = a.src /\ z.dst = a.dst
      /\ z.own = a.own /\ z.mark = a.mark /\ z.body = a.body
  BY <1>2
<1> HIDE DEF z
<1>5. HashID(z) = HashID(a)
  BY <1>3, <1>4 DEF HashID, Identity, Hash
<1>6. HasHAV(a) /\ HasHAV(z)
  BY <1>3, <1>4 DEF HasHAV, None
<1>7. PacketID(z) = HashID(z)
  BY <1>1, <1>3, <1>4, <1>6 DEF PacketID, None
<1>8. HasHAV(p) \/ PacketID(p) = HashID(p)
  <2>1. CASE mode = "hybrid"
    <3>1. p.mark # None \/ Plain(p)
      BY <2>1 DEF Assisted
    <3> QED
      BY <1>1, <2>1, <3>1 DEF PacketID
  <2>2. CASE mode = "hash"
    BY <2>2 DEF PacketID
  <2> QED
    BY <1>1, <2>1, <2>2
<1>9. ApplyHAV(p) = IF ~Holds(hash_stash, HashID(p)) THEN p
                    ELSE IF ~Holds(hash_stash, HashID(a)) THEN a ELSE z
  BY DEF ApplyHAV, AssistedAs, a, z
<1> QED
  BY <1>1, <1>3, <1>4, <1>5, <1>6, <1>7, <1>8, <1>9 DEF a

LEMMA PushAssistedOK ==
    ASSUME IInv, NEW p \in LanPackets, PushAssisted(p)
    PROVE  IInv'
<1> DEFINE q == ApplyHAV(p)
           h == HashID(q)
<1>1. /\ Assisted(p) /\ mode' = mode /\ drawn' = drawn /\ seq_mgr' = seq_mgr
      /\ hash_stash' = Remember(hash_stash, h) /\ mode \in {"idpd", "hybrid", "hash"}
  BY DEF PushAssisted, IInv
<1>2. /\ h \in {HashID(p), HashID(AssistedAs(p))}
      /\ (q.version = 6 /\ HasHAV(q)) \/ h = PacketID(q)
  BY <1>1, ApplyHAVHash
<1>3. /\ Marked(h)
      /\ air' = air \/ (~Holds(dpd["manet"], h) /\ air' = air \cup {[pkt |-> q, age |-> 0]})
  <2>1. MarkedAs(p, q) = h
    BY <1>1 DEF MarkedAs
  <2>2. Push(p, q)
    BY DEF PushAssisted
  <2> HIDE DEF q, h
  <2> QED
    BY <2>1, <2>2 DEF Push, Marked
<1> HIDE DEF q, h
<1>4. Numbering'
  BY <1>1 DEF IInv, Numbering, DrawsOf
<1>5. NumbersRecorded'
  <2>1. \A r \in LanPackets : NoNumberOf(h, r)
    BY <1>1, <1>2, HashIsNoNumber
  <2> QED
    BY <1>1, <1>3, <2>1, NumbersMarked DEF NoNumberOf
<1>6. StashMatches' /\ IsTable(hash_stash')
  BY <1>1, <1>2, <1>3, StashRemembered
<1>7. AirKnown'
  BY <1>1, <1>2, <1>3, AirMarked DEF Same
<1>8. Tables'
  BY <1>3, <1>6, MarkedOK DEF IInv, Tables
<1> QED
  BY <1>1, <1>4, <1>5, <1>6, <1>7, <1>8 DEF IInv

\* Marking what is foreign to the LAN.
LEMMA ForeignOK ==
    ASSUME IInv, NEW h, Foreign(h), Marked(h), AirKnown',
           UNCHANGED << mode, seq_mgr, hash_stash, drawn >>
    PROVE  IInv'
<1>1. Numbering'
  BY DEF IInv, Numbering, DrawsOf
<1>2. NumbersRecorded'
  BY NumbersMarked DEF Foreign, NoNumberOf
<1>3. StashMatches'
  BY StashMarked DEF Foreign
<1>4. Tables'
  BY MarkedOK DEF IInv, Tables
<1> QED
  BY <1>1, <1>2, <1>3, <1>4 DEF IInv

LEMMA PushAsIsOK ==
    ASSUME IInv, NEW p \in LanPackets, PushAsIs(p)
    PROVE  IInv'
<1> DEFINE h == PacketID(p)
<1>1. ~Numbered(p) /\ ~Assisted(p) /\ UNCHANGED << mode, seq_mgr, hash_stash, drawn >>
  BY DEF PushAsIs
<1>2. Foreign(h)
  BY <1>1, ForeignAsIs DEF IInv
<1>3. /\ Marked(h)
      /\ air' = air \/ (~Holds(dpd["manet"], h) /\ air' = air \cup {[pkt |-> p, age |-> 0]})
  BY <1>1 DEF PushAsIs, Push, MarkedAs, Marked
<1>4. AirKnown'
  BY <1>1, <1>3, AirMarked DEF Same
<1> HIDE DEF h
<1> QED
  BY <1>1, <1>2, <1>3, <1>4, ForeignOK

LEMMA StutterOK ==
    ASSUME IInv, UNCHANGED vars
    PROVE  IInv'
<1>1. /\ mode' = mode /\ seq_mgr' = seq_mgr /\ hash_stash' = hash_stash
      /\ dpd' = dpd /\ air' = air /\ drawn' = drawn
  BY DEF vars
<1>2. \A p : /\ PacketID(p)' = PacketID(p)
             /\ Numbered(p)' <=> Numbered(p)
             /\ Assisted(p)' <=> Assisted(p)
  BY <1>1, IdentitiesFixed
<1>3. Numbering' /\ Tables'
  BY <1>1 DEF IInv, Numbering, DrawsOf, Tables
<1>4. AirKnown'
  BY <1>1, <1>2 DEF IInv, AirKnown
<1>5. NumbersRecorded'
  BY <1>1, <1>2 DEF IInv, NumbersRecorded
<1>6. StashMatches'
  BY <1>1, <1>2 DEF IInv, StashMatches
<1> QED
  BY <1>1, <1>3, <1>4, <1>5, <1>6 DEF IInv

LEMMA HearManetOK ==
    ASSUME IInv, NEW p \in ManetPackets \cup {a.pkt : a \in air}, HearManet(p)
    PROVE  IInv'
<1> DEFINE h == PacketID(p)
<1>1. /\ Marked(h) /\ UNCHANGED << mode, seq_mgr, hash_stash, air, drawn >>
      /\ mode \in {"idpd", "hybrid", "hash"}
  BY DEF HearManet, Marked, IInv
<1>2. AirKnown'
  BY <1>1, AirMarked
<1>3. CASE Foreign(h)
  <2> HIDE DEF h
  <2> QED
    BY <1>1, <1>2, <1>3, ForeignOK
<1>4. CASE \E e \in dpd["manet"] : Same(e, h)
  <2>1. Holds(dpd["manet"], h)
    BY <1>4 DEF Holds, Same
  <2>2. dpd' = [i \in Iface |-> dpd["manet"]]
    <3>1. \A i \in Iface : dpd[i] = dpd["manet"]
      BY DEF IInv, Tables
    <3> HIDE DEF h
    <3> QED
      BY <1>1, <2>1, <3>1 DEF Marked, Remember
  <2>3. UNCHANGED vars
    BY <1>1, <2>2 DEF vars, IInv, Tables
  <2> QED
    BY <2>3, StutterOK
<1>5. CASE p \in ManetPackets
  BY <1>1, <1>3, <1>5, ForeignSource
<1>6. CASE p \notin ManetPackets
  <2>1. PICK a \in air : p = a.pkt
    BY <1>6
  <2>2. \/ p.version = 6 /\ HasHAV(p)
        \/ \E e \in dpd["manet"] : Same(e, h)
    BY <2>1 DEF IInv, AirKnown
  <2> QED
    BY <1>1, <1>3, <1>4, <2>2, ForeignHAV
<1> QED
  BY <1>5, <1>6

\* Numbering packets of the node's own.
LEMMA OwnNumbersOK ==
    ASSUME IInv, Numbering', drawn \subseteq drawn', UNCHANGED << mode, hash_stash, dpd, air >>
    PROVE  IInv'
<1>1. \A p : /\ PacketID(p)' = PacketID(p)
             /\ Numbered(p)' <=> Numbered(p)
             /\ Assisted(p)' <=> Assisted(p)
  BY IdentitiesFixed
<1>2. Tables'
  BY DEF IInv, Tables
<1>3. AirKnown'
  BY <1>1 DEF IInv, AirKnown
<1>4. NumbersRecorded'
  BY <1>1 DEF IInv, NumbersRecorded
<1>5. StashMatches'
  BY <1>1 DEF IInv, StashMatches
<1> QED
  BY <1>2, <1>3, <1>4, <1>5 DEF IInv

LEMMA SendOwn4OK ==
    ASSUME IInv, NEW p \in OwnPackets, SendOwn4(p)
    PROVE  IInv'
<1>1. p \in Packet /\ 4 \in Version /\ LocalKey(p) \in Key /\ Numbering
  BY PacketsAssumption, KeyOfIsKey DEF Version, IInv
<1>2. CASE \E n \in Number \ {0} : Draw(4, LocalKey(p), n)
  <2>1. Numbering' /\ drawn \subseteq drawn'
    BY <1>1, <1>2, DrawOK
  <2> QED
    BY <2>1, OwnNumbersOK DEF SendOwn4
<1>3. CASE ~\E n \in Number \ {0} : Draw(4, LocalKey(p), n)
  <2> DEFINE news == {[version |-> 4, key |-> LocalKey(p), value |-> n, age |-> 0] : n \in {0, 1}}
  <2>1. /\ 0 \in NextNumbers(seq_mgr[4], LocalKey(p)) /\ RateAllows(4, LocalKey(p), 2)
        /\ seq_mgr' = [seq_mgr EXCEPT ![4] = IncrementSequence(@, LocalKey(p), 1)]
        /\ drawn' = drawn \cup news
    BY <1>3 DEF SendOwn4
  <2>2. Numbering'
    BY <1>1, <2>1, SkipOK
  <2>3. drawn \subseteq drawn'
    BY <2>1
  <2> QED
    BY <2>2, <2>3, OwnNumbersOK DEF SendOwn4
<1> QED
  BY <1>2, <1>3

LEMMA SendOwn6OK ==
    ASSUME IInv, NEW p \in OwnPackets, SendOwn6(p)
    PROVE  IInv'
<1>1. p \in Packet /\ p.version = 6 /\ LocalKey(p) \in Key /\ mode \in {"idpd", "hybrid", "hash"}
  BY PacketsAssumption, KeyOfIsKey DEF SendOwn6, IInv
<1>2. CASE (\E n \in Number : Draw(6, LocalKey(p), n)) /\ UNCHANGED hash_stash
  <2>1. 6 \in Version /\ Numbering
    BY DEF Version, IInv
  <2>2. Numbering' /\ drawn \subseteq drawn'
    BY <1>1, <1>2, <2>1, DrawOK
  <2> QED
    BY <1>2, <2>2, OwnNumbersOK DEF SendOwn6
<1>3. CASE /\ hash_stash' = Remember(hash_stash, HashID(ApplyHAV(p)))
           /\ UNCHANGED << seq_mgr, drawn >>
  <2> DEFINE h == HashID(ApplyHAV(p))
  <2>1. mode' = mode /\ dpd' = dpd /\ air' = air
    BY DEF SendOwn6
  <2>2. h.flow = << p.src >>
    <3> DEFINE q == InsertOptionDPD(p, << "hav", 0 >>)
               z == [q EXCEPT !.version = 0]
    <3>1. q = [p EXCEPT !.mark = << "hav", 0 >>]
      BY DEF InsertOptionDPD
    <3>2. /\ q.version = 6 /\ q.src = p.src /\ z.version = 0 /\ z.src = p.src
      BY <1>1, <3>1 DEF Packet
    <3>3. ApplyHAV(p) \in {p, q, z}
      BY DEF ApplyHAV
    <3>4. \A r : r.version # 4 => HashID(r).flow = << r.src >>
      BY DEF HashID, Identity
    <3> HIDE DEF q, z
    <3> QED
      BY <1>1, <3>2, <3>3, <3>4
  <2>3. \A r \in LanPackets : NoHashOf(h, r)
    <3>1. \A r \in LanPackets : r.src # p.src
      BY SourceAssumption
    <3> HIDE DEF h
    <3> QED
      BY <1>1, <2>2, <3>1, HashIdentity DEF NoHashOf, Same
  <2> HIDE DEF h
  <2>4. StashMatches' /\ IsTable(hash_stash')
    BY <1>3, <2>1, <2>3, StashRemembered DEF h
  <2>5. \A r : PacketID(r)' = PacketID(r) /\ (Numbered(r)' <=> Numbered(r))
    BY <2>1, IdentitiesFixed
  <2>6. Numbering' /\ Tables'
    BY <1>3, <2>1, <2>4 DEF IInv, Numbering, DrawsOf, Tables
  <2>7. AirKnown'
    BY <2>1, <2>5 DEF IInv, AirKnown
  <2>8. NumbersRecorded'
    BY <1>3, <2>1, <2>5 DEF IInv, NumbersRecorded
  <2> QED
    BY <1>1, <2>1, <2>4, <2>6, <2>7, <2>8 DEF IInv
<1> QED
  BY <1>2, <1>3 DEF SendOwn6

LEMMA PruneDraws ==
    ASSUME NEW records, records \subseteq DrawType, IsFiniteSet(records)
    PROVE  /\ Prune(records) \subseteq DrawType /\ IsFiniteSet(Prune(records))
           /\ \A v : {e \in Prune(records) : e.version = v} = Prune({d \in records : d.version = v})
<1> DEFINE kept == {d \in records : d.age <= AgeMax}
           f == [d \in kept |-> [d EXCEPT !.age = @ + 1]]
<1>1. \A d \in kept : /\ [d EXCEPT !.age = @ + 1] \in DrawType
                      /\ [d EXCEPT !.age = @ + 1].version = d.version
  BY AgeAssumption DEF DrawType, Age
<1>2. Prune(records) = {[d EXCEPT !.age = @ + 1] : d \in kept}
  BY DEF Prune
<1>3. IsFiniteSet(kept)
  BY FS_Subset
<1>4. f \in Surjection(kept, Prune(records))
  <2>1. \A d \in kept : f[d] = [d EXCEPT !.age = @ + 1]
    OBVIOUS
  <2>2. f \in [kept -> Prune(records)]
    BY <1>2
  <2>3. \A e \in Prune(records) : \E d \in kept : f[d] = e
    BY <1>2, <2>1
  <2> HIDE DEF f, kept
  <2> QED
    BY <2>2, <2>3 DEF Surjection
<1>5. IsFiniteSet(Prune(records))
  BY <1>3, <1>4, FS_Surjection
<1>6. ASSUME NEW v
      PROVE  {e \in Prune(records) : e.version = v} = Prune({d \in records : d.version = v})
  <2>1. ASSUME NEW e \in Prune(records), e.version = v PROVE e \in Prune({d \in records : d.version = v})
    BY <1>1, <1>2, <2>1 DEF Prune
  <2>2. ASSUME NEW e \in Prune({d \in records : d.version = v})
        PROVE  e \in Prune(records) /\ e.version = v
    <3>1. PICK d \in kept : d.version = v /\ e = [d EXCEPT !.age = @ + 1]
      BY <2>2 DEF Prune
    <3> QED
      BY <1>1, <1>2, <3>1
  <2> QED
    BY <2>1, <2>2
<1> QED
  BY <1>1, <1>2, <1>5, <1>6

LEMMA OnPruneTimeoutOK ==
    ASSUME IInv, OnPruneTimeout
    PROVE  IInv'
<1>1. /\ mode' = mode /\ mode \in {"idpd", "hybrid", "hash"}
      /\ seq_mgr' = [v \in Version |-> PruneFlows(seq_mgr[v])]
      /\ hash_stash' = Prune(hash_stash) /\ dpd' = [i \in Iface |-> Prune(dpd[i])]
      /\ drawn' = Prune(drawn)
      /\ air' = {[a EXCEPT !.age = @ + 1] : a \in {b \in air : b.age < AirTime}}
  BY DEF OnPruneTimeout, IInv
<1>2. /\ AgeMax \in Nat /\ AirTime \in 0 .. AgeMax + 1
      /\ drawn \subseteq DrawType /\ IsFiniteSet(drawn)
      /\ IsTable(dpd["manet"]) /\ IsTable(hash_stash)
  BY AgeAssumption, AirTimeAssumption DEF IInv, Numbering, Tables
<1>3. /\ dpd'["manet"] = Prune(dpd["manet"])
      /\ dpd' = [i \in Iface |-> dpd'["manet"]]
  <2>1. \A i \in Iface : dpd[i] = dpd["manet"]
    BY DEF IInv, Tables
  <2> QED
    BY <1>1, <2>1 DEF Iface
<1>4. \A p : /\ PacketID(p)' = PacketID(p)
             /\ Numbered(p)' <=> Numbered(p)
             /\ Assisted(p)' <=> Assisted(p)
  BY <1>1, IdentitiesFixed
<1>5. Numbering'
  <2>1. /\ drawn' \subseteq DrawType /\ IsFiniteSet(drawn')
        /\ \A v : DrawsOf(v)' = Prune(DrawsOf(v))
    <3>1. /\ Prune(drawn) \subseteq DrawType /\ IsFiniteSet(Prune(drawn))
          /\ \A v : {e \in Prune(drawn) : e.version = v} = Prune({d \in drawn : d.version = v})
      BY <1>2, PruneDraws
    <3>2. \A v : DrawsOf(v)' = {e \in drawn' : e.version = v} /\ DrawsOf(v) = {d \in drawn : d.version = v}
      BY DEF DrawsOf
    <3> QED
      BY <1>1, <3>1, <3>2
  <2>2. ASSUME NEW v \in Version
        PROVE  ListOK(seq_mgr'[v]) /\ ListCounts(seq_mgr'[v], DrawsOf(v)')
    <3>1. ListOK(seq_mgr[v]) /\ ListCounts(seq_mgr[v], DrawsOf(v)) /\ DrawsOf(v) \subseteq DrawType
      BY <1>2 DEF IInv, Numbering, DrawsOf
    <3>2. LET new == PruneFlows(seq_mgr[v]) IN
          ListOK(new) /\ ListCounts(new, Prune(DrawsOf(v)))
      BY <3>1, PruneFlowsOK
    <3> QED
      BY <1>1, <2>1, <3>2
  <2>3. seq_mgr' = [v \in Version |-> seq_mgr'[v]]
    BY <1>1
  <2> QED
    BY <2>1, <2>2, <2>3 DEF Numbering
<1>6. Tables'
  BY <1>1, <1>2, <1>3, PruneEntry DEF Tables
<1>7. AirKnown'
  <2>1. ASSUME NEW b \in air'
        PROVE  /\ b = [pkt |-> b.pkt, age |-> b.age] /\ b.age \in 0 .. AirTime
               /\ \/ b.pkt.version = 6 /\ HasHAV(b.pkt)
                  \/ \E f \in dpd'["manet"] : Same(f, PacketID(b.pkt)) /\ f.age <= b.age
    <3>1. PICK a \in air : a.age < AirTime /\ b = [a EXCEPT !.age = @ + 1]
      BY <1>1
    <3>2. /\ a = [pkt |-> a.pkt, age |-> a.age] /\ a.age \in 0 .. AirTime
          /\ \/ a.pkt.version = 6 /\ HasHAV(a.pkt)
             \/ \E e \in dpd["manet"] : Same(e, PacketID(a.pkt)) /\ e.age <= a.age
      BY DEF IInv, AirKnown
    <3>3. b = [pkt |-> a.pkt, age |-> a.age + 1]
      BY <3>1, <3>2
    <3>4. b.pkt = a.pkt /\ b.age = a.age + 1 /\ b.age \in 0 .. AirTime
      BY <1>2, <3>1, <3>2, <3>3
    <3>5. CASE \E e \in dpd["manet"] : Same(e, PacketID(a.pkt)) /\ e.age <= a.age
      <4>1. PICK e \in dpd["manet"] : Same(e, PacketID(a.pkt)) /\ e.age <= a.age
        BY <3>5
      <4> DEFINE f == Entry(e, e.age + 1)
      <4>2. e = Entry(e, e.age) /\ e.age \in Age
        BY <1>2 DEF IsTable
      <4>3. e.age + 1 \in Age /\ (e.age + 1) - 1 = e.age
        BY <1>2, <3>1, <3>2, <4>1, <4>2 DEF Age
      <4>4. f \in Prune(dpd["manet"])
        BY <1>2, <4>2, <4>3, PruneEntry
      <4>5. Same(f, PacketID(b.pkt)) /\ f.age <= b.age
        BY <3>2, <3>4, <4>1, <4>2 DEF Same, Entry, Age
      <4> HIDE DEF f
      <4> QED
        BY <1>3, <3>3, <3>4, <4>4, <4>5
    <3> QED
      BY <3>2, <3>3, <3>4, <3>5
  <2> QED
    BY <1>4, <2>1 DEF AirKnown
<1>8. NumbersRecorded'
  <2>1. ASSUME NEW p \in LanPackets, Numbered(p), NEW n \in Number, NEW f \in dpd'["manet"],
               Same(f, PacketID(NumberedAs(p, n)))
        PROVE  \E c \in drawn' : /\ c.version = p.version /\ c.key = KeyOf(p)
                                 /\ c.value = n /\ c.age <= f.age
    <3>1. PICK e \in dpd["manet"] : e.age <= AgeMax /\ f = [e EXCEPT !.age = @ + 1]
      BY <1>3, PruneElements
    <3>2. e = Entry(e, e.age) /\ e.age \in Age
      BY <1>2 DEF IsTable
    <3>3. f.age = e.age + 1 /\ Same(e, PacketID(NumberedAs(p, n)))
      BY <2>1, <3>1, <3>2 DEF Entry, Same
    <3>4. PICK d \in drawn : /\ d.version = p.version /\ d.key = KeyOf(p)
                             /\ d.value = n /\ d.age <= e.age
      BY <2>1, <3>3 DEF IInv, NumbersRecorded
    <3> DEFINE c == [d EXCEPT !.age = @ + 1]
    <3>5. d.age <= AgeMax /\ d.age \in Int /\ e.age \in Int
      BY <1>2, <3>1, <3>2, <3>4 DEF DrawType, Age
    <3>6. c \in drawn'
      BY <1>1, <3>5, PruneElements
    <3>7. c.version = d.version /\ c.key = d.key /\ c.value = d.value /\ c.age = d.age + 1
      BY <1>2 DEF DrawType
    <3> HIDE DEF c
    <3> QED
      BY <3>3, <3>4, <3>5, <3>6, <3>7
  <2> QED
    BY <1>4, <2>1 DEF NumbersRecorded
<1>9. StashMatches'
  <2>1. ASSUME NEW p \in LanPackets, Assisted(p), NEW h \in {HashID(p), HashID(AssistedAs(p))},
               NEW age \in Age
        PROVE  Entry(h, age) \in hash_stash' <=> Entry(h, age) \in dpd'["manet"]
    <3>1. \A a \in Age : Entry(h, a) \in hash_stash <=> Entry(h, a) \in dpd["manet"]
      BY <2>1 DEF IInv, StashMatches
    <3>2. Entry(h, age) \in Prune(hash_stash) <=> age - 1 \in Age /\ Entry(h, age - 1) \in hash_stash
      BY <1>2, PruneEntry
    <3>3. Entry(h, age) \in Prune(dpd["manet"]) <=> age - 1 \in Age /\ Entry(h, age - 1) \in dpd["manet"]
      BY <1>2, PruneEntry
    <3> QED
      BY <1>1, <1>3, <3>1, <3>2, <3>3
  <2> QED
    BY <1>4, <2>1 DEF StashMatches
<1> QED
  BY <1>1, <1>5, <1>6, <1>7, <1>8, <1>9 DEF IInv

LEMMA NextIInv == IInv /\ [Next]_vars => IInv'
<1> SUFFICES ASSUME IInv, [Next]_vars PROVE IInv'
  OBVIOUS
<1>1. CASE \E p \in LanPackets : PushNumbered(p) \/ PushAssisted(p) \/ PushAsIs(p)
  BY <1>1, PushNumberedOK, PushAssistedOK, PushAsIsOK
<1>2. CASE \E p \in ManetPackets \cup {a.pkt : a \in air} : HearManet(p)
  BY <1>2, HearManetOK
<1>3. CASE \E p \in OwnPackets : SendOwn4(p) \/ SendOwn6(p)
  BY <1>3, SendOwn4OK, SendOwn6OK
<1>4. CASE OnPruneTimeout
  BY <1>4, OnPruneTimeoutOK
<1>5. CASE UNCHANGED vars
  BY <1>5, StutterOK
<1> QED
  BY <1>1, <1>2, <1>3, <1>4, <1>5 DEF Next

LEMMA SpecIInv == Spec => []IInv
BY InitIInv, NextIInv, PTL DEF Spec

-----------------------------------------------------------------------------
\* What follows

LEMMA IInvType == IInv => TypeOK
<1> SUFFICES ASSUME IInv PROVE TypeOK
  OBVIOUS
<1>1. ASSUME NEW v \in Version, NEW n \in DOMAIN seq_mgr[v]
      PROVE  /\ seq_mgr[v][n].next \in Number /\ seq_mgr[v][n].age \in 0 .. AgeMax + 1
             /\ \A i \in DOMAIN seq_mgr[v] : seq_mgr[v][i].key = seq_mgr[v][n].key => i = n
  <2>1. ListOK(seq_mgr[v])
    BY DEF IInv, Numbering
  <2>2. DOMAIN seq_mgr[v] = 1 .. Len(seq_mgr[v]) /\ seq_mgr[v][n] \in Flow
    BY <2>1, SeqElements DEF ListOK
  <2> QED
    BY <2>1, <2>2 DEF ListOK, Once, Flow, Age
<1>2. dpd["lan"] = dpd["manet"]
  BY DEF IInv, Tables, Iface
<1>3. \A e \in hash_stash \cup dpd["lan"] \cup dpd["manet"] \cup drawn : e.age \in 0 .. AgeMax + 1
  BY <1>2 DEF IInv, Tables, IsTable, Numbering, DrawType, Age
<1>4. \A a \in air : a.age \in 0 .. AirTime
  BY DEF IInv, AirKnown
<1> QED
  BY <1>1, <1>3, <1>4 DEF IInv, TypeOK

\* smfDpd.cpp:819: what the node resequences is never taken for a packet that
\* it sent: a number that a flow is given is none that is remembered, and a
\* hash that the stash does not know is not known to the tables.
THEOREM ResequencedPacketsAreNew == Spec => []ResequencedIsNew
<1>1. IInv => ResequencedIsNew
  <2> SUFFICES ASSUME IInv PROVE ResequencedIsNew
    OBVIOUS
  <2>1. mode \in {"idpd", "hybrid", "hash"} /\ Numbering /\ IsTable(dpd["manet"]) /\ IsTable(hash_stash)
    BY DEF IInv, Tables
  <2>2. ASSUME NEW p \in LanPackets, Numbered(p), NEW n \in NextNumbers(seq_mgr[p.version], KeyOf(p)),
               Holds(dpd["manet"], PacketID(NumberedAs(p, n)))
        PROVE  FALSE
    <3>1. p.version \in Version
      BY LanFields DEF Version
    <3>2. n \in Number /\ Counted(Lately(p.version, KeyOf(p)), n)
      BY <2>1, <2>2, <3>1, NextIsCounted
    <3>3. PICK e \in dpd["manet"] : Same(e, PacketID(NumberedAs(p, n)))
      BY <2>2 DEF Holds, Same
    <3>4. PICK d \in drawn : d.version = p.version /\ d.key = KeyOf(p) /\ d.value = n
      BY <2>2, <3>2, <3>3 DEF IInv, NumbersRecorded
    <3> QED
      BY <3>2, <3>4 DEF Counted, Lately
  <2>3. ASSUME NEW p \in LanPackets, Assisted(p), ApplyHAV(p).version = 6,
               Holds(dpd["manet"], HashID(ApplyHAV(p)))
        PROVE  FALSE
    <3> DEFINE h == HashID(ApplyHAV(p))
    <3>1. h \in {HashID(p), HashID(AssistedAs(p))} /\ ~Holds(hash_stash, h)
      BY <2>1, <2>3, ApplyHAVHash
    <3> HIDE DEF h
    <3>2. \A age \in Age : Entry(h, age) \in hash_stash <=> Entry(h, age) \in dpd["manet"]
      BY <2>3, <3>1 DEF IInv, StashMatches
    <3> QED
      BY <2>1, <2>3, <3>1, <3>2, HoldsEntry DEF h
  <2> QED
    BY <2>2, <2>3, IInvType DEF ResequencedIsNew, NumberedAs
<1> QED
  BY <1>1, SpecIInv, PTL

\* What the node pushed from its LAN, and may hear again from the MANET, is in
\* the table of the LAN's interface, so that it is not sent there again.
THEOREM NothingIsSentBack == Spec => []NothingComesBack
<1>1. IInv => NothingComesBack
  <2> SUFFICES ASSUME IInv, NEW a \in air, ~HasHAV(a.pkt) PROVE Holds(dpd["lan"], PacketID(a.pkt))
    BY DEF NothingComesBack
  <2>1. dpd["lan"] = dpd["manet"]
    BY DEF IInv, Tables, Iface
  <2>2. \E e \in dpd["manet"] : Same(e, PacketID(a.pkt))
    BY DEF IInv, AirKnown
  <2> QED
    BY <2>1, <2>2 DEF Holds, Same
<1> QED
  BY <1>1, SpecIInv, PTL
=============================================================================
