---------------------------- MODULE SmfArqProofs ----------------------------
(***************************************************************************)
(* Proofs about SmfArq for any number of downstream interfaces, any size   *)
(* of the cache, any longest gap and any range of numbers.                 *)
(*                                                                         *)
(* A number is known by its turn, how many were used up before it.  Turns  *)
(* do not wrap, since no lap of numbers is completed.                      *)
(***************************************************************************)
EXTENDS SmfArq, FiniteSetTheorems, SequenceTheorems, TLAPS

-----------------------------------------------------------------------------
\* Numbers

Turn(s) == IF s >= StartSeq THEN s - StartSeq ELSE s - StartSeq + SEQ

\* A set of numbers has a least one: the end of the numbers below all of it.
LEMMA LeastNumber ==
    ASSUME NEW T, T \subseteq Nat, T # {}
    PROVE  \E least \in T : \A t \in T : least <= t
<1>1. PICK n \in T : TRUE
  OBVIOUS
<1> DEFINE below == {u \in 0 .. n : \A t \in T : u <= t}
           g == Cardinality(below)
<1>2. n \in Nat
  BY <1>1
<1>3. IsFiniteSet(0 .. n) /\ below \in SUBSET (0 .. n)
  BY <1>2, FS_Interval
<1>4. IsFiniteSet(below) /\ g \in Nat
  BY <1>3, FS_Subset, FS_CardinalityType
<1>5. 0 \in below
  BY <1>2
<1>6. \A u \in below : u + 1 <= g
  <2>1. ASSUME NEW u \in below PROVE u + 1 <= g
    <3>1. u \in Nat /\ 0 .. u \in SUBSET below
      BY <1>2
    <3>2. Cardinality(0 .. u) = u + 1
      BY <3>1, FS_Interval
    <3> HIDE DEF below
    <3> QED
      BY <1>4, <3>1, <3>2, FS_Subset
  <2> QED
    BY <2>1
<1>7. g - 1 \in below
  <2>1. ASSUME g - 1 \notin below PROVE FALSE
    <3>1. \A u \in below : u \in 0 .. g - 2
      <4>1. ASSUME NEW u \in below PROVE u \in 0 .. g - 2
        <5>1. u \in Nat /\ u + 1 <= g /\ u # g - 1
          BY <1>6, <2>1
        <5> HIDE DEF below, g
        <5> QED
          BY <1>4, <5>1
      <4> QED
        BY <4>1
    <3> HIDE DEF below
    <3>2. g - 2 \in Int /\ g >= 1
      BY <1>4, <1>5, <1>6
    <3>3. IsFiniteSet(0 .. g - 2) /\ Cardinality(0 .. g - 2) = IF 0 > g - 2 THEN 0 ELSE g - 2 - 0 + 1
      BY <3>2, FS_Interval
    <3>4. g <= Cardinality(0 .. g - 2)
      BY <3>1, <3>3, FS_Subset
    <3> HIDE DEF g
    <3> QED
      BY <1>4, <3>2, <3>3, <3>4
  <2> QED
    BY <2>1
<1> HIDE DEF g
<1>8. PICK t \in T : ~(g <= t)
  <2>1. g \notin below
    <3> HIDE DEF below
    <3> QED
      BY <1>4, <1>6
  <2>2. ASSUME \A t \in T : g <= t PROVE g \in below
    BY <1>1, <1>2, <1>4, <2>2
  <2> QED
    BY <2>1, <2>2
<1>9. \A u \in T : g - 1 <= u
  BY <1>7
<1>10. t = g - 1
  BY <1>4, <1>8, <1>9
<1> QED
  BY <1>8, <1>9, <1>10

\* Turns tell numbers apart.
LEMMA TurnsDiffer ==
    /\ \A s \in Number : Turn(s) \in 0 .. SEQ - 1
    /\ \A s, t \in Number : Turn(s) = Turn(t) => s = t
BY SeqAssumption, StartAssumption DEF Turn, Number

\* The turn moves on with the number, until all are used.
LEMMA NextTurn ==
    ASSUME NEW s \in Number, NEW n \in Nat, Turn(s) + n <= SEQ - 1
    PROVE  (s + n) % SEQ \in Number /\ Turn((s + n) % SEQ) = Turn(s) + n
<1>1. Turn(s) \in 0 .. SEQ - 1 /\ SEQ \in Nat /\ SEQ > 0 /\ s \in 0 .. SEQ - 1 /\ StartSeq \in 0 .. SEQ - 1
  BY TurnsDiffer, SeqAssumption, StartAssumption DEF Number
<1>2. n <= SEQ - 1
  BY <1>1
<1>3. (s + n) % SEQ = IF s + n < SEQ THEN s + n ELSE s + n - SEQ
  BY <1>1, <1>2
<1> DEFINE t == (s + n) % SEQ
<1>4. t = IF s + n < SEQ THEN s + n ELSE s + n - SEQ
  BY <1>3
<1> HIDE DEF t
<1>5. t \in 0 .. SEQ - 1 /\ Turn(t) = Turn(s) + n
  BY <1>1, <1>2, <1>4 DEF Turn
<1> QED
  BY <1>5 DEF t, Number

-----------------------------------------------------------------------------
\* The cache

Least(i, seqs) == i \in seqs /\ \A s \in seqs : Turn(i) <= Turn(s)

\* The iterator that starts at the oldest number and wraps finds the next one.
LEMMA NextOldestIsLeast ==
    ASSUME NEW seqs, seqs \subseteq Number, seqs # {}, NEW i \in Number,
           \A s \in seqs : Turn(i) < Turn(s)
    PROVE  Least(NextOldest(seqs, i), seqs)
<1> DEFINE later == {s \in seqs : s > i}
           rest == IF later # {} THEN later ELSE seqs
           next == NextOldest(seqs, i)
<1>1. rest \subseteq Nat /\ rest # {} /\ rest \subseteq seqs
  <2>1. rest # {} /\ rest \subseteq seqs
    OBVIOUS
  <2>2. Number \subseteq Nat
    BY SeqAssumption DEF Number
  <2> QED
    BY <2>1, <2>2
<1>2. next = CHOOSE s \in rest : \A t \in rest : s <= t
  BY DEF NextOldest
<1>3. next \in rest /\ \A t \in rest : next <= t
  <2> HIDE DEF rest, next
  <2> QED
    BY <1>1, <1>2, LeastNumber
<1> HIDE DEF next
<1>4. ASSUME NEW s \in seqs PROVE Turn(next) <= Turn(s)
  <2>1. s \in 0 .. SEQ - 1 /\ i \in 0 .. SEQ - 1 /\ next \in 0 .. SEQ - 1
        /\ StartSeq \in 0 .. SEQ - 1 /\ SEQ \in Nat
    BY <1>1, <1>3, SeqAssumption, StartAssumption DEF Number
  <2>2. Turn(i) < Turn(s) /\ Turn(i) < Turn(next)
    BY <1>1, <1>3
  <2>3. \/ next > i /\ (s > i => next <= s)
        \/ next <= i /\ s <= i /\ next <= s
    BY <1>3, <2>1
  <2> QED
    BY <2>1, <2>2, <2>3 DEF Turn
<1> QED
  BY <1>1, <1>3, <1>4 DEF Least, next

\* A cache in order, after n frames were sent and u numbers used.
InOrder(c, n, u) ==
    /\ DOMAIN c.tree \subseteq Number
    /\ \A s \in DOMAIN c.tree : c.tree[s] \in 1 .. n /\ Turn(s) < u
    /\ \A s, t \in DOMAIN c.tree : Turn(s) < Turn(t) => c.tree[s] < c.tree[t]
    /\ IsFiniteSet(DOMAIN c.tree)
    /\ c.length = Cardinality(DOMAIN c.tree) /\ c.length <= CacheLimit
    /\ IF DOMAIN c.tree = {} THEN c.oldest = None ELSE Least(c.oldest, DOMAIN c.tree)

\* Whatever is removed, the oldest of the rest is found.
LEMMA RemoveKeepsOrder ==
    ASSUME NEW c, NEW n \in Nat, NEW u \in Nat, InOrder(c, n, u), NEW seqs, seqs \subseteq DOMAIN c.tree
    PROVE  LET x == RemovePackets(c, seqs) IN
           /\ InOrder(x, n, u)
           /\ DOMAIN x.tree = DOMAIN c.tree \ seqs
           /\ \A s \in DOMAIN x.tree : x.tree[s] = c.tree[s]
           /\ x.length = c.length - Cardinality(seqs)
<1> DEFINE x == RemovePackets(c, seqs)
           old == DOMAIN c.tree
           left == old \ seqs
<1>1. /\ DOMAIN x.tree = left
      /\ \A s \in left : x.tree[s] = c.tree[s]
      /\ x.length = c.length - Cardinality(seqs)
      /\ x.oldest = IF c.oldest \in seqs THEN NextOldest(left, c.oldest) ELSE c.oldest
  BY DEF RemovePackets, Cache, Without
<1>2. /\ left \subseteq old /\ old \subseteq Number /\ IsFiniteSet(old)
      /\ c.length = Cardinality(old) /\ c.length <= CacheLimit
      /\ IF old = {} THEN c.oldest = None ELSE Least(c.oldest, old)
  BY DEF InOrder
<1> HIDE DEF x
<1>3. IsFiniteSet(left) /\ x.length = Cardinality(left) /\ x.length <= CacheLimit
  <2>1. IsFiniteSet(seqs) /\ Cardinality(seqs) \in Nat /\ Cardinality(old) \in Nat
    BY <1>2, FS_Subset, FS_CardinalityType
  <2>2. old \cap seqs = seqs
    OBVIOUS
  <2>3. IsFiniteSet(left) /\ Cardinality(left) = Cardinality(old) - Cardinality(seqs)
    BY <1>2, <2>2, FS_Difference
  <2> HIDE DEF old, left
  <2> QED
    BY <1>1, <1>2, <2>1, <2>3, LimitAssumption
<1>4. IF left = {} THEN x.oldest = None ELSE Least(x.oldest, left)
  <2>1. CASE left = {}
    <3>1. CASE old = {}
      BY <1>1, <1>2, <2>1, <3>1
    <3>2. CASE old # {}
      <4>1. c.oldest \in seqs
        BY <1>2, <2>1, <3>2 DEF Least
      <4> QED
        BY <1>1, <2>1, <4>1 DEF NextOldest
    <3> QED
      BY <3>1, <3>2
  <2>2. CASE left # {} /\ c.oldest \notin seqs
    BY <1>1, <1>2, <2>2 DEF Least
  <2>3. CASE left # {} /\ c.oldest \in seqs
    <3>1. c.oldest \in Number /\ left \subseteq Number
      BY <1>2, <2>3
    <3>2. \A s \in left : Turn(c.oldest) < Turn(s)
      <4>1. ASSUME NEW s \in left PROVE Turn(c.oldest) < Turn(s)
        <5>1. Turn(c.oldest) <= Turn(s) /\ s # c.oldest /\ s \in Number
          BY <1>2, <2>3 DEF Least
        <5>2. Turn(c.oldest) \in Int /\ Turn(s) \in Int /\ Turn(c.oldest) # Turn(s)
          BY <3>1, <5>1, TurnsDiffer
        <5> QED
          BY <5>1, <5>2
      <4> QED
        BY <4>1
    <3> QED
      BY <1>1, <2>3, <3>1, <3>2, NextOldestIsLeast
  <2> QED
    BY <2>1, <2>2, <2>3
<1>5. /\ \A s \in left : x.tree[s] \in 1 .. n /\ Turn(s) < u
      /\ \A s, t \in left : Turn(s) < Turn(t) => x.tree[s] < x.tree[t]
  BY <1>1 DEF InOrder
<1>6. InOrder(x, n, u)
  BY <1>1, <1>2, <1>3, <1>4, <1>5 DEF InOrder
<1> QED
  BY <1>1, <1>6 DEF x

\* DequeuePacket is the removal of the oldest.
LEMMA DequeueIsRemove ==
    ASSUME NEW c
    PROVE  DequeuePacket(c) = RemovePackets(c, {c.oldest})
<1>1. Cardinality({c.oldest}) = 1
  BY FS_Singleton
<1> QED
  BY <1>1 DEF DequeuePacket, RemovePackets

\* A frame with a number of its own takes its place behind the others.
LEMMA EnqueueKeepsOrder ==
    ASSUME NEW c, NEW n \in Nat, NEW u \in Nat, InOrder(c, n, u), c.length < CacheLimit,
           NEW seq \in Number, Turn(seq) = u
    PROVE  LET x == EnqueuePacket(c, seq, n + 1) IN
           /\ InOrder(x, n + 1, u + 1)
           /\ DOMAIN x.tree = DOMAIN c.tree \cup {seq}
           /\ x.tree[seq] = n + 1
           /\ \A s \in DOMAIN c.tree : x.tree[s] = c.tree[s]
<1> DEFINE x == EnqueuePacket(c, seq, n + 1)
           old == DOMAIN c.tree
<1>1. /\ old \subseteq Number /\ IsFiniteSet(old) /\ c.length = Cardinality(old)
      /\ \A s \in old : c.tree[s] \in 1 .. n /\ Turn(s) < u /\ Turn(s) \in Nat
      /\ \A s, t \in old : Turn(s) < Turn(t) => c.tree[s] < c.tree[t]
      /\ IF old = {} THEN c.oldest = None ELSE Least(c.oldest, old)
  BY TurnsDiffer DEF InOrder
<1>2. seq \notin old
  BY <1>1
<1>3. /\ DOMAIN x.tree = old \cup {seq}
      /\ x.tree[seq] = n + 1
      /\ \A s \in old : x.tree[s] = c.tree[s]
      /\ x.length = c.length + 1
      /\ x.oldest = IF c.oldest = None THEN seq ELSE c.oldest
  BY <1>2 DEF EnqueuePacket, Cache
<1> HIDE DEF x
<1>4. IsFiniteSet(old \cup {seq}) /\ x.length = Cardinality(old \cup {seq}) /\ x.length <= CacheLimit
  <2>1. IsFiniteSet(old \cup {seq}) /\ Cardinality(old \cup {seq}) = Cardinality(old) + 1
    BY <1>1, <1>2, FS_AddElement
  <2>2. Cardinality(old) \in Nat
    BY <1>1, FS_CardinalityType
  <2> HIDE DEF old
  <2> QED
    BY <1>1, <1>3, <2>1, <2>2, LimitAssumption
<1>5. Least(x.oldest, old \cup {seq})
  <2>1. CASE old = {}
    BY <1>1, <1>3, <2>1 DEF Least
  <2>2. CASE old # {}
    <3>1. c.oldest \in Number /\ c.oldest # None
      BY <1>1, <2>2, NoneNotNumber, SeqAssumption DEF Least, Number
    <3> QED
      BY <1>1, <1>3, <2>2, <3>1 DEF Least
  <2> QED
    BY <2>1, <2>2
<1>6. \A s \in old \cup {seq} : x.tree[s] \in 1 .. n + 1 /\ Turn(s) < u + 1
  BY <1>1, <1>3
<1>7. ASSUME NEW s \in old \cup {seq}, NEW t \in old \cup {seq}, Turn(s) < Turn(t)
      PROVE  x.tree[s] < x.tree[t]
  <2>1. CASE t = seq
    <3>1. s \in old
      BY <1>7, <2>1
    <3>2. x.tree[s] = c.tree[s] /\ c.tree[s] \in 1 .. n /\ x.tree[t] = n + 1
      BY <1>1, <1>3, <2>1, <3>1
    <3> QED
      BY <3>2
  <2>2. CASE t \in old
    <3>1. s \in old
      BY <1>1, <1>7, <2>2
    <3> QED
      BY <1>1, <1>3, <1>7, <2>2, <3>1
  <2> QED
    BY <1>7, <2>1, <2>2
<1>8. InOrder(x, n + 1, u + 1)
  <2>1. old \cup {seq} \subseteq Number /\ old \cup {seq} # {}
    BY <1>1
  <2> HIDE DEF old
  <2> QED
    BY <1>3, <1>4, <1>5, <1>6, <1>7, <2>1 DEF InOrder
<1> QED
  BY <1>3, <1>8 DEF x

\* A cache in order stays so while others are sent.
LEMMA OrderLasts ==
    ASSUME NEW c, NEW n \in Nat, NEW u \in Nat, InOrder(c, n, u),
           NEW m \in Nat, NEW v \in Nat, n <= m, u <= v
    PROVE  InOrder(c, m, v)
<1>1. \A s \in DOMAIN c.tree : c.tree[s] \in 1 .. m /\ Turn(s) < v
  <2>1. \A s \in DOMAIN c.tree : c.tree[s] \in 1 .. n /\ Turn(s) < u /\ Turn(s) \in Nat
    BY TurnsDiffer DEF InOrder
  <2> QED
    BY <2>1
<1> QED
  BY <1>1 DEF InOrder

\* CachePacket makes room for the frame, and caches it.
LEMMA CacheKeepsOrder ==
    ASSUME NEW c, NEW n \in Nat, NEW u \in Nat, InOrder(c, n, u),
           NEW seq \in Number, Turn(seq) = u
    PROVE  LET x == CachePacket(c, seq, n + 1) IN
           /\ InOrder(x, n + 1, u + 1)
           /\ DOMAIN x.tree \subseteq DOMAIN c.tree \cup {seq}
           /\ seq \in DOMAIN x.tree /\ x.tree[seq] = n + 1
           /\ \A s \in DOMAIN x.tree \ {seq} : x.tree[s] = c.tree[s]
<1>1. CASE c.length < CacheLimit
  <2> DEFINE x == EnqueuePacket(c, seq, n + 1)
  <2>1. CachePacket(c, seq, n + 1) = x
    BY <1>1 DEF CachePacket
  <2>2. /\ InOrder(x, n + 1, u + 1)
        /\ DOMAIN x.tree = DOMAIN c.tree \cup {seq}
        /\ x.tree[seq] = n + 1
        /\ \A s \in DOMAIN c.tree : x.tree[s] = c.tree[s]
    BY <1>1, EnqueueKeepsOrder
  <2> HIDE DEF x
  <2> QED
    BY <2>1, <2>2
<1>2. CASE ~(c.length < CacheLimit)
  <2> DEFINE d == RemovePackets(c, {c.oldest})
  <2>1. IsFiniteSet(DOMAIN c.tree) /\ c.length = Cardinality(DOMAIN c.tree) /\ c.length <= CacheLimit
    BY DEF InOrder
  <2>2. Cardinality(DOMAIN c.tree) \in Nat
    BY <2>1, FS_CardinalityType
  <2>3. DOMAIN c.tree # {}
    BY <1>2, <2>1, FS_EmptySet, LimitAssumption
  <2>4. {c.oldest} \subseteq DOMAIN c.tree
    BY <2>3 DEF InOrder, Least
  <2>5. /\ InOrder(d, n, u)
        /\ DOMAIN d.tree = DOMAIN c.tree \ {c.oldest}
        /\ \A s \in DOMAIN d.tree : d.tree[s] = c.tree[s]
        /\ d.length = c.length - Cardinality({c.oldest})
    BY <2>4, RemoveKeepsOrder
  <2>6. Cardinality({c.oldest}) = 1
    BY FS_Singleton
  <2>7. CachePacket(c, seq, n + 1) = EnqueuePacket(d, seq, n + 1)
    BY <1>2, DequeueIsRemove DEF CachePacket
  <2> HIDE DEF d
  <2>8. InOrder(d, n, u) /\ d.length < CacheLimit
    BY <2>1, <2>2, <2>5, <2>6, LimitAssumption
  <2> DEFINE x == EnqueuePacket(d, seq, n + 1)
  <2>9. /\ InOrder(x, n + 1, u + 1)
        /\ DOMAIN x.tree = DOMAIN d.tree \cup {seq}
        /\ x.tree[seq] = n + 1
        /\ \A s \in DOMAIN d.tree : x.tree[s] = d.tree[s]
    BY <2>8, EnqueueKeepsOrder
  <2>10. CachePacket(c, seq, n + 1) = x
    BY <2>7
  <2> HIDE DEF x
  <2> QED
    BY <2>5, <2>9, <2>10
<1> QED
  BY <1>1, <1>2

-----------------------------------------------------------------------------
\* The invariant

\* What a NACK asks for are numbers.
LEMMA RangeOfNumbers ==
    ASSUME NEW seq \in Number, NEW count \in Int
    PROVE  NackRange(seq, count) \subseteq Number
BY SeqAssumption DEF NackRange, Number

LEMMA CountIsInteger ==
    ASSUME NEW d, NEW seq \in Number, LastHeard(d, seq) \in Number
    PROVE  /\ NackCount(d, seq) \in Int
           /\ UpdatedHistory(d, seq) \in Number
           /\ Signed(seq - LastHeard(d, seq)) \in Int
<1>1. \A n \in Int : Signed(n) \in Int
  BY SeqAssumption DEF Signed
<1>2. seq - LastHeard(d, seq) \in Int
  BY SeqAssumption DEF Number
<1> QED
  BY <1>1, <1>2, DeltaAssumption DEF NackCount, UpdatedHistory, SeqDelta

\* A frame is resent only out of the cache, which it leaves.
ArqInv ==
    /\ TypeOK
    /\ Turn(ump_sequence) = used
    /\ InOrder(cache, Len(sent), used)
    /\ \A c \in air : c.frame <= Len(sent)
    /\ \A f \in Frame : resent[f] <= 1
    /\ \A f \in Frame : f > Len(sent) => resent[f] = 0
    /\ \A s \in DOMAIN cache.tree : resent[cache.tree[s]] = 0

LEMMA InitArq == Init => ArqInv
<1> SUFFICES ASSUME Init PROVE ArqInv
  OBVIOUS
<1>1. cache.tree = << >> /\ cache.oldest = None /\ cache.length = 0 /\ DOMAIN cache.tree = {}
  BY DEF Init, Cache
<1>2. InOrder(cache, Len(sent), used)
  BY <1>1, FS_EmptySet, LimitAssumption DEF InOrder
<1>3. TypeOK
  BY <1>1, StartAssumption, BoundAssumption, LimitAssumption DEF Init, TypeOK, Number
<1>4. Turn(ump_sequence) = used
  BY StartAssumption DEF Init, Turn
<1> QED
  BY <1>1, <1>2, <1>3, <1>4 DEF ArqInv, Init, Frame

\* The types of what an order of the cache does not say.
OrderType(c) ==
    /\ DOMAIN c.tree \subseteq Number /\ \A s \in DOMAIN c.tree : c.tree[s] \in Frame
    /\ c.oldest \in Number \cup {None} /\ c.length \in 0 .. CacheLimit

LEMMA OrderHasType ==
    ASSUME NEW c, NEW n \in Nat, n <= MaxSent, NEW u, InOrder(c, n, u)
    PROVE  OrderType(c)
<1>1. IsFiniteSet(DOMAIN c.tree) /\ c.length = Cardinality(DOMAIN c.tree) /\ c.length <= CacheLimit
  BY DEF InOrder
<1>2. c.length \in 0 .. CacheLimit
  BY <1>1, FS_CardinalityType, LimitAssumption
<1>3. c.oldest \in Number \cup {None}
  BY DEF InOrder, Least
<1>4. \A s \in DOMAIN c.tree : c.tree[s] \in Frame
  <2>1. 1 .. n \subseteq Frame
    BY BoundAssumption DEF Frame
  <2> QED
    BY <2>1 DEF InOrder
<1> QED
  BY <1>2, <1>3, <1>4 DEF OrderType, InOrder

LEMMA SendFrameInv ==
    ASSUME ArqInv, NEW kind \in Kind, NEW step \in Steps(kind), SendFrame(kind, step)
    PROVE  ArqInv'
<1> DEFINE n == Len(sent)
           f == n + 1
<1>1. /\ sent \in Seq(Number) /\ n \in Nat /\ used \in Nat /\ ump_sequence \in Number
      /\ f \in Frame /\ f <= MaxSent
  BY BoundAssumption DEF ArqInv, TypeOK, SendFrame, Frame
<1>2. /\ sent' \in Seq(Number) /\ Len(sent') = n + 1
      /\ \A k \in 1 .. n : sent'[k] = sent[k]
  BY <1>1 DEF SendFrame
<1>3. step \in {0, 1} /\ (kind = "data" => step = 1)
  BY DEF Steps
<1>4. used' = used + step /\ used' \in 0 .. MaxUsed /\ used' <= SEQ - 1
  BY <1>1, <1>3, BoundAssumption, SeqAssumption DEF SendFrame
<1>5. ump_sequence' \in Number /\ Turn(ump_sequence') = used'
  BY <1>1, <1>3, <1>4, NextTurn DEF SendFrame, ArqInv
<1>6. InOrder(cache, n, used) /\ Turn(ump_sequence) = used /\ resent[f] = 0
  BY <1>1 DEF ArqInv, Frame
<1>7. sent' = Append(sent, ump_sequence)
  BY DEF SendFrame
<1> HIDE DEF n
<1>8. /\ InOrder(cache', n + 1, used')
      /\ \A s \in DOMAIN cache'.tree : resent[cache'.tree[s]] = 0
  <2>1. CASE kind = "data"
    <3> DEFINE x == CachePacket(cache, ump_sequence, n + 1)
    <3>1. cache' = x /\ used' = used + 1
      BY <1>3, <1>4, <2>1 DEF SendFrame, n
    <3>2. /\ n \in Nat /\ used \in Nat /\ ump_sequence \in Number
          /\ InOrder(cache, n, used) /\ Turn(ump_sequence) = used
      BY <1>1, <1>6
    <3>3. /\ InOrder(x, n + 1, used + 1)
          /\ DOMAIN x.tree \subseteq DOMAIN cache.tree \cup {ump_sequence}
          /\ ump_sequence \in DOMAIN x.tree /\ x.tree[ump_sequence] = n + 1
          /\ \A s \in DOMAIN x.tree \ {ump_sequence} : x.tree[s] = cache.tree[s]
      BY <3>2, CacheKeepsOrder
    <3> HIDE DEF x
    <3>4. \A s \in DOMAIN x.tree : resent[x.tree[s]] = 0
      BY <1>6, <3>3 DEF ArqInv
    <3> QED
      BY <3>1, <3>3, <3>4
  <2>2. CASE kind # "data"
    <3>1. cache' = cache
      BY <2>2 DEF SendFrame
    <3>2. n + 1 \in Nat /\ used' \in Nat /\ n <= n + 1 /\ used <= used'
      BY <1>1, <1>3, <1>4
    <3>3. InOrder(cache, n, used)
      BY <1>6
    <3>4. InOrder(cache, n + 1, used')
      BY <1>1, <3>2, <3>3, OrderLasts
    <3> QED
      BY <3>1, <3>4 DEF ArqInv
  <2> QED
    BY <2>1, <2>2
<1>9. OrderType(cache')
  BY <1>1, <1>8, OrderHasType
<1>10. InOrder(cache, Len(sent), used)'
  BY <1>2, <1>8 DEF InOrder, Least
<1>11. air' \subseteq [frame : Frame, kind : Kind, again : BOOLEAN, to : Downstream]
       /\ \A c \in air' : c.frame <= n + 1
  <2> DEFINE Copy == [frame : Frame, kind : Kind, again : BOOLEAN, to : Downstream]
             copy(d) == [frame |-> f, kind |-> kind, again |-> FALSE, to |-> d]
  <2>1. ASSUME NEW c \in air PROVE c \in Copy /\ c.frame <= n + 1
    <3>1. c \in Copy /\ c.frame <= n
      BY DEF ArqInv, TypeOK, n
    <3>2. c.frame \in Int
      BY <3>1 DEF Frame
    <3> QED
      BY <1>1, <3>1, <3>2
  <2>2. ASSUME NEW d \in Downstream PROVE copy(d) \in Copy /\ copy(d).frame <= n + 1
    BY <1>1
  <2>3. air' = air \cup {copy(d) : d \in Downstream}
    BY DEF SendFrame, n
  <2> HIDE DEF copy, Copy
  <2>4. air' \subseteq Copy /\ \A c \in air' : c.frame <= n + 1
    BY <2>1, <2>2, <2>3
  <2> QED
    BY <2>4 DEF Copy
<1>12. UNCHANGED << history, nacks, got, asked, reset, resent >>
  BY DEF SendFrame
<1>13. TypeOK'
  BY <1>1, <1>2, <1>4, <1>5, <1>9, <1>11, <1>12 DEF TypeOK, ArqInv, OrderType
<1>14. \A g \in Frame : resent'[g] <= 1 /\ (g > Len(sent') => resent'[g] = 0)
  BY <1>1, <1>2, <1>12 DEF ArqInv, Frame, n
<1> QED
  BY <1>2, <1>5, <1>8, <1>10, <1>11, <1>12, <1>13, <1>14 DEF ArqInv

LEMMA LoseControlFramesInv ==
    ASSUME ArqInv, NEW n \in Lost, LoseControlFrames(n)
    PROVE  ArqInv'
<1>1. /\ n \in Nat /\ used \in Nat /\ ump_sequence \in Number /\ Turn(ump_sequence) = used
      /\ Len(sent) \in Nat /\ InOrder(cache, Len(sent), used)
  BY BoundAssumption DEF ArqInv, TypeOK
<1>2. used' = used + n /\ used' \in 0 .. MaxUsed /\ used' <= SEQ - 1 /\ used <= used' /\ used' \in Nat
  BY <1>1, BoundAssumption, SeqAssumption DEF LoseControlFrames
<1>3. ump_sequence' \in Number /\ Turn(ump_sequence') = used'
  BY <1>1, <1>2, NextTurn DEF LoseControlFrames
<1>4. InOrder(cache, Len(sent), used')
  BY <1>1, <1>2, OrderLasts
<1>5. UNCHANGED << cache, history, air, nacks, sent, got, asked, reset, resent >>
  BY DEF LoseControlFrames
<1>6. InOrder(cache, Len(sent), used)'
  BY <1>4, <1>5 DEF InOrder, Least
<1>7. TypeOK'
  BY <1>2, <1>3, <1>5 DEF ArqInv, TypeOK
<1> QED
  BY <1>3, <1>5, <1>6, <1>7 DEF ArqInv

LEMMA HandleNackInv ==
    ASSUME ArqInv, NEW m \in nacks, NEW oldest, HandleNack(m, oldest)
    PROVE  ArqInv'
<1> DEFINE n == Len(sent)
           found == DOMAIN cache.tree \cap m.seqs
           again == {cache.tree[s] : s \in found} \cap {f \in Frame : f >= oldest}
           x == RemovePackets(cache, found)
           Copy == [frame : Frame, kind : Kind, again : BOOLEAN, to : Downstream]
<1>1. /\ n \in Nat /\ n <= MaxSent /\ used \in Nat /\ InOrder(cache, n, used)
      /\ \A s \in DOMAIN cache.tree : cache.tree[s] \in 1 .. n /\ resent[cache.tree[s]] = 0
  BY DEF ArqInv, TypeOK, InOrder
<1>2. /\ InOrder(x, n, used)
      /\ DOMAIN x.tree = DOMAIN cache.tree \ found
      /\ \A s \in DOMAIN x.tree : x.tree[s] = cache.tree[s]
  <2>1. found \subseteq DOMAIN cache.tree
    OBVIOUS
  <2> HIDE DEF found, n
  <2> QED
    BY <1>1, <2>1, RemoveKeepsOrder
<1>3. /\ nacks' = nacks \ {m} /\ cache' = x
      /\ resent' = [f \in Frame |-> IF f \in again THEN resent[f] + 1 ELSE resent[f]]
      /\ air' = air \cup [frame : again, kind : {"data"}, again : {TRUE}, to : Downstream]
      /\ UNCHANGED << ump_sequence, history, used, sent, got, asked, reset >>
  BY DEF HandleNack
<1> HIDE DEF x, n
<1>4. OrderType(x)
  BY <1>1, <1>2, OrderHasType
<1>5. again \subseteq Frame /\ \A f \in again : f <= n /\ \E s \in found : f = cache.tree[s]
  BY <1>1
<1>6. \A s, t \in DOMAIN cache.tree : cache.tree[s] = cache.tree[t] => s = t
  <2>1. ASSUME NEW s \in DOMAIN cache.tree, NEW t \in DOMAIN cache.tree, cache.tree[s] = cache.tree[t], s # t
        PROVE  FALSE
    <3>1. s \in Number /\ t \in Number /\ cache.tree[s] \in Nat
      BY <1>1 DEF InOrder
    <3>2. Turn(s) < Turn(t) \/ Turn(t) < Turn(s)
      BY <2>1, <3>1, TurnsDiffer
    <3> QED
      BY <1>1, <2>1, <3>1, <3>2 DEF InOrder
  <2> QED
    BY <2>1
<1> HIDE DEF again
<1>7. \A s \in DOMAIN x.tree : x.tree[s] \notin again /\ resent'[x.tree[s]] = 0
  <2>1. ASSUME NEW s \in DOMAIN x.tree PROVE x.tree[s] \notin again
    BY <1>2, <1>5, <1>6, <2>1
  <2>2. \A s \in DOMAIN x.tree : x.tree[s] \in Frame /\ resent[x.tree[s]] = 0
    BY <1>1, <1>2, <1>4 DEF OrderType
  <2> QED
    BY <1>3, <2>1, <2>2
<1>8. ASSUME NEW f \in Frame
      PROVE  resent'[f] \in Nat /\ resent'[f] <= 1 /\ (f > n => resent'[f] = 0)
  <2>1. resent[f] \in Nat /\ resent[f] <= 1 /\ (f > n => resent[f] = 0)
    BY DEF ArqInv, TypeOK, n
  <2>2. f \in again => resent[f] = 0 /\ f <= n
    BY <1>1, <1>5
  <2>3. f \in Int
    BY DEF Frame
  <2> QED
    BY <1>1, <1>3, <2>1, <2>2, <2>3
<1>9. resent' \in [Frame -> Nat]
  BY <1>3, <1>8
<1>10. air' \subseteq Copy /\ \A c \in air' : c.frame <= n
  <2>1. air \subseteq Copy /\ \A c \in air : c.frame <= n
    BY DEF ArqInv, TypeOK, n
  <2> DEFINE copies == [frame : again, kind : {"data"}, again : {TRUE}, to : Downstream]
  <2>2. \A c \in copies : c \in Copy /\ c.frame <= n
    BY <1>5 DEF Kind
  <2>3. air' = air \cup copies
    BY <1>3
  <2> HIDE DEF copies, Copy
  <2> QED
    BY <2>1, <2>2, <2>3
<1>11. OrderType(cache')
  BY <1>3, <1>4
<1>12. TypeOK'
  BY <1>3, <1>9, <1>10, <1>11 DEF ArqInv, TypeOK, OrderType
<1>13. InOrder(cache, Len(sent), used)'
  BY <1>2, <1>3 DEF InOrder, Least, n
<1>14. \A s \in DOMAIN cache'.tree : resent'[cache'.tree[s]] = 0
  BY <1>3, <1>7
<1>15. UNCHANGED << ump_sequence, used, sent >> /\ n = Len(sent')
  BY <1>3 DEF n
<1> QED
  BY <1>8, <1>10, <1>12, <1>13, <1>14, <1>15 DEF ArqInv

LEMMA ReceiveInv ==
    ASSUME ArqInv, NEW c \in air, NEW nackable \in BOOLEAN, Receive(c, nackable)
    PROVE  ArqInv'
<1> DEFINE d == c.to
           seq == sent[c.frame]
           asks == IF nackable \/ c.kind = "control" THEN NackRange(seq, NackCount(d, seq)) ELSE {}
<1>1. /\ c.frame \in 1 .. Len(sent) /\ c.frame \in Frame /\ d \in Downstream
      /\ sent \in Seq(Number) /\ history \in [Downstream -> Number \cup {None}]
      /\ got \in [Downstream -> SUBSET Frame] /\ asked \in [Downstream -> SUBSET Number]
      /\ reset \in [Downstream -> BOOLEAN] /\ nacks \subseteq [from : Downstream, seqs : SUBSET Number]
  BY DEF ArqInv, TypeOK, Frame
<1>2. seq \in Number /\ LastHeard(d, seq) \in Number
  BY <1>1 DEF LastHeard
<1>3. asks \subseteq Number /\ UpdatedHistory(d, seq) \in Number
  BY <1>2, RangeOfNumbers, CountIsInteger
<1>4. /\ air' = air \ {c}
      /\ history' = [history EXCEPT ![d] = UpdatedHistory(d, seq)]
      /\ nacks' = IF asks = {} THEN nacks ELSE nacks \cup {[from |-> d, seqs |-> asks]}
      /\ got' = [got EXCEPT ![d] = @ \cup {c.frame}]
      /\ asked' = [asked EXCEPT ![d] = @ \cup asks]
      /\ reset' = [reset EXCEPT ![d] = @ \/ Signed(seq - LastHeard(d, seq)) < -4 * REPAIR_DELTA_MAX]
      /\ UNCHANGED << ump_sequence, cache, used, sent, resent >>
  BY DEF Receive, upstream
<1> HIDE DEF d, seq, asks
<1>5. history' \in [Downstream -> Number \cup {None}]
  BY <1>1, <1>3, <1>4
<1>6. nacks' \subseteq [from : Downstream, seqs : SUBSET Number]
  BY <1>1, <1>3, <1>4
<1>7. got' \in [Downstream -> SUBSET Frame] /\ asked' \in [Downstream -> SUBSET Number]
  BY <1>1, <1>3, <1>4
<1>8. reset' \in [Downstream -> BOOLEAN]
  BY <1>1, <1>4
<1>9. TypeOK'
  BY <1>4, <1>5, <1>6, <1>7, <1>8 DEF ArqInv, TypeOK
<1>10. InOrder(cache, Len(sent), used)'
  BY <1>4 DEF ArqInv, InOrder, Least
<1> QED
  BY <1>4, <1>9, <1>10 DEF ArqInv

\* Every step keeps the invariant.
LEMMA NextArq == ArqInv /\ [Next]_vars => ArqInv'
<1> SUFFICES ASSUME ArqInv, [Next]_vars PROVE ArqInv'
  OBVIOUS
<1>1. ASSUME UNCHANGED << upstream, got, asked >>, air' \subseteq air, nacks' \subseteq nacks,
             history' \in [Downstream -> Number \cup {None}], reset' \in [Downstream -> BOOLEAN]
      PROVE  ArqInv'
  <2>1. TypeOK'
    BY <1>1 DEF ArqInv, TypeOK, upstream
  <2>2. InOrder(cache, Len(sent), used)'
    BY <1>1 DEF ArqInv, InOrder, Least, upstream
  <2> QED
    BY <1>1, <2>1, <2>2 DEF ArqInv, upstream
<1>2. ASSUME NEW kind \in Kind, NEW step \in Steps(kind), SendFrame(kind, step) PROVE ArqInv'
  BY <1>2, SendFrameInv
<1>3. ASSUME NEW n \in Lost, LoseControlFrames(n) PROVE ArqInv'
  BY <1>3, LoseControlFramesInv
<1>4. ASSUME NEW n \in nacks, NEW oldest \in 1 .. MaxSent + 1, HandleNack(n, oldest) PROVE ArqInv'
  BY <1>4, HandleNackInv
<1>5. ASSUME NEW c \in air, NEW nackable \in BOOLEAN, Receive(c, nackable) PROVE ArqInv'
  BY <1>5, ReceiveInv
<1>6. ASSUME NEW c \in air, Lose(c) PROVE ArqInv'
  BY <1>1, <1>6 DEF Lose, ArqInv, TypeOK
<1>7. ASSUME NEW n \in nacks, LoseNack(n) PROVE ArqInv'
  BY <1>1, <1>7 DEF LoseNack, ArqInv, TypeOK
<1>8. ASSUME NEW d \in Downstream, PruneUpstreamHistory(d) PROVE ArqInv'
  BY <1>1, <1>8 DEF PruneUpstreamHistory, ArqInv, TypeOK
<1>9. CASE UNCHANGED vars
  BY <1>1, <1>9 DEF vars, upstream, ArqInv, TypeOK
<1> QED
  BY <1>2, <1>3, <1>4, <1>5, <1>6, <1>7, <1>8, <1>9 DEF Next

LEMMA SpecArq == Spec => []ArqInv
BY InitArq, NextArq, PTL DEF Spec

\* The frames of a cache in order were cached in the order of their turns.
LEMMA LeastIsFirst == ArqInv => OldestIsOldest
<1> SUFFICES ASSUME ArqInv PROVE OldestIsOldest
  OBVIOUS
<1>1. InOrder(cache, Len(sent), used) /\ TypeOK
  BY DEF ArqInv
<1>2. ASSUME DOMAIN cache.tree # {}, NEW s \in DOMAIN cache.tree
      PROVE  cache.oldest \in DOMAIN cache.tree /\ cache.tree[cache.oldest] <= cache.tree[s]
  <2>1. cache.oldest \in DOMAIN cache.tree /\ Turn(cache.oldest) <= Turn(s)
        /\ cache.oldest \in Number /\ s \in Number
    BY <1>1, <1>2 DEF InOrder, Least
  <2>2. Turn(cache.oldest) < Turn(s) \/ cache.oldest = s
    BY <2>1, TurnsDiffer
  <2>3. cache.tree[cache.oldest] \in Int /\ cache.tree[s] \in Int
    BY <1>1, <2>1 DEF InOrder
  <2> QED
    BY <1>1, <2>1, <2>2, <2>3 DEF InOrder
<1> QED
  BY <1>1, <1>2 DEF OldestIsOldest, InOrder

\* The count of the cache is that of its tree, and oldest_pkt is the frame that
\* was cached first, although it is found by number, numbers wrap, and repairs
\* leave gaps.
THEOREM OldestPktIsOldest == Spec => []OldestIsOldest
BY SpecArq, LeastIsFirst, PTL

\* No frame is sent again twice: it is resent out of the cache, and leaves it,
\* and no other frame of its number comes into the cache.
THEOREM OneRetransmission == Spec => []ResentOnce
<1>1. ArqInv => ResentOnce
  BY DEF ArqInv, ResentOnce
<1> QED
  BY <1>1, SpecArq, PTL

-----------------------------------------------------------------------------
\* What a downstream interface asks for

\* As long as no more than half of the numbers are used, the distance of two
\* numbers is that of their turns.
LEMMA SignedIsDistance ==
    ASSUME MaxUsed < SEQ \div 2, NEW a \in Number, NEW b \in Number,
           Turn(a) <= MaxUsed, Turn(b) <= MaxUsed
    PROVE  Signed(a - b) = Turn(a) - Turn(b)
<1> DEFINE n == a - b
           low == n % SEQ
           h == SEQ \div 2
<1>1. /\ SEQ \in Nat /\ SEQ > 0 /\ h \in Nat /\ SEQ = 2 * h /\ MaxUsed \in Nat /\ MaxUsed < h
      /\ a \in 0 .. SEQ - 1 /\ b \in 0 .. SEQ - 1 /\ StartSeq \in 0 .. SEQ - 1
  BY SeqAssumption, BoundAssumption, StartAssumption DEF Number
<1>2. n \in Int /\ -SEQ < n /\ n < SEQ
  BY <1>1
<1>3. low = IF n < 0 THEN n + SEQ ELSE n
  <2> HIDE DEF n
  <2> QED
    BY <1>1, <1>2
<1>4. Signed(n) = IF low < h THEN low ELSE low - SEQ
  BY DEF Signed
<1> HIDE DEF low, h
<1>5. Turn(a) - Turn(b) \in {n, n + SEQ, n - SEQ} /\ Turn(a) \in Nat /\ Turn(b) \in Nat
  BY <1>1 DEF Turn
<1> DEFINE x == Turn(a)
           y == Turn(b)
<1>6. x \in Nat /\ y \in Nat /\ x < h /\ y < h /\ (x - y = n \/ x - y = n + SEQ \/ x - y = n - SEQ)
  BY <1>1, <1>5
<1> HIDE DEF n, x, y
<1>7. Signed(n) = x - y
  BY <1>1, <1>2, <1>3, <1>4, <1>6
<1> QED
  BY <1>7 DEF n, x, y

\* The number that came k before another.
LEMMA EarlierTurn ==
    ASSUME NEW s \in Number, NEW k \in Nat, k <= Turn(s)
    PROVE  (s - k) % SEQ \in Number /\ Turn((s - k) % SEQ) = Turn(s) - k
<1> DEFINE t == (s - k) % SEQ
<1>1. /\ SEQ \in Nat /\ SEQ > 0 /\ s \in 0 .. SEQ - 1 /\ StartSeq \in 0 .. SEQ - 1
      /\ Turn(s) \in 0 .. SEQ - 1
  BY SeqAssumption, StartAssumption, TurnsDiffer DEF Number
<1>2. k < SEQ
  BY <1>1
<1>3. t = IF s - k < 0 THEN s - k + SEQ ELSE s - k
  BY <1>1, <1>2
<1> HIDE DEF t
<1>4. t \in 0 .. SEQ - 1 /\ Turn(t) = Turn(s) - k
  BY <1>1, <1>2, <1>3 DEF Turn
<1> QED
  BY <1>4 DEF t, Number

\* What the range of a NACK holds lies between the last number heard and the
\* one that revealed the gap.
LEMMA AskedLiesBetween ==
    ASSUME MaxUsed < SEQ \div 2, NEW d, NEW seq \in Number, LastHeard(d, seq) \in Number,
           Turn(seq) <= MaxUsed, Turn(LastHeard(d, seq)) <= MaxUsed
    PROVE  \A s \in NackRange(seq, NackCount(d, seq)) :
               s \in Number /\ Turn(LastHeard(d, seq)) < Turn(s) /\ Turn(s) < Turn(seq)
<1> DEFINE last == LastHeard(d, seq)
           delta == SeqDelta(last, seq)
           dist == Turn(seq) - Turn(last)
<1>1. Turn(seq) \in Nat /\ Turn(last) \in Nat /\ REPAIR_DELTA_MAX \in Nat
  BY TurnsDiffer, SeqAssumption, DeltaAssumption
<1>2. Signed(seq - last) = dist
  BY SignedIsDistance
<1>3. delta = IF dist > 2 * REPAIR_DELTA_MAX \/ dist < -4 * REPAIR_DELTA_MAX THEN 0
              ELSE IF dist > REPAIR_DELTA_MAX THEN REPAIR_DELTA_MAX ELSE dist
  BY <1>2 DEF SeqDelta
<1>4. NackCount(d, seq) = IF delta > 1 THEN delta - 1 ELSE 0
  BY DEF NackCount
<1> HIDE DEF delta
<1> DEFINE count == NackCount(d, seq)
<1>5. count \in Nat /\ \A k \in 1 .. count : k \in Nat /\ k > 0 /\ k < dist
  BY <1>1, <1>3, <1>4
<1> HIDE DEF count
<1>6. ASSUME NEW k \in 1 .. count
      PROVE  (seq - k) % SEQ \in Number /\ Turn(last) < Turn((seq - k) % SEQ) /\ Turn((seq - k) % SEQ) < Turn(seq)
  <2>1. k \in Nat /\ k > 0 /\ k < dist /\ k <= Turn(seq)
    BY <1>1, <1>5
  <2>2. (seq - k) % SEQ \in Number /\ Turn((seq - k) % SEQ) = Turn(seq) - k
    BY <2>1, EarlierTurn
  <2> QED
    BY <1>1, <2>1, <2>2
<1> QED
  BY <1>6 DEF NackRange, count

\* An interface that did not start over has received nothing beyond the last
\* number it remembers, and asked only for numbers before it.
AskInv ==
    /\ \A f \in 1 .. Len(sent) : Turn(sent[f]) <= used
    /\ \A d \in Downstream : \A f \in got[d] : f <= Len(sent)
    /\ \A d \in Downstream : ~reset[d] =>
          IF history[d] = None THEN got[d] = {} /\ asked[d] = {}
          ELSE /\ Turn(history[d]) <= used
               /\ \A f \in got[d] : Turn(sent[f]) <= Turn(history[d])
               /\ \A s \in asked[d] : Turn(s) < Turn(history[d])

\* What the reception of a frame makes of an interface that had not started
\* over, and what it asks for.
LEMMA ReceiveAsks ==
    ASSUME MaxUsed < SEQ \div 2, ArqInv, AskInv,
           NEW c \in air, NEW nackable \in BOOLEAN, Receive(c, nackable), ~reset[c.to]
    PROVE  LET d == c.to
               asks == asked'[d] \ asked[d]
           IN /\ nacks' \subseteq nacks \cup [from : {d}, seqs : SUBSET asks]
              /\ \A f \in got[d] : sent[f] \notin asks
              /\ ~reset'[d] =>
                   /\ history'[d] # None /\ Turn(history'[d]) <= used
                   /\ \A f \in got'[d] : Turn(sent[f]) <= Turn(history'[d])
                   /\ \A s \in asked'[d] : Turn(s) < Turn(history'[d])
<1> DEFINE d == c.to
           seq == sent[c.frame]
           last == LastHeard(d, seq)
           range == NackRange(seq, NackCount(d, seq))
           asks == IF nackable \/ c.kind = "control" THEN range ELSE {}
           dist == Turn(seq) - Turn(last)
<1>1. /\ c.frame \in 1 .. Len(sent) /\ d \in Downstream /\ sent \in Seq(Number)
      /\ history \in [Downstream -> Number \cup {None}]
      /\ got \in [Downstream -> SUBSET Frame] /\ asked \in [Downstream -> SUBSET Number]
      /\ reset \in [Downstream -> BOOLEAN] /\ used \in Nat /\ used <= MaxUsed
  BY BoundAssumption DEF ArqInv, TypeOK, Frame
<1>2. seq \in Number /\ Turn(seq) <= used
  BY <1>1 DEF AskInv
<1>3. last = (IF history[d] = None THEN seq ELSE history[d]) /\ last \in Number /\ Turn(last) <= used
  BY <1>1, <1>2 DEF LastHeard, AskInv
<1>4. Turn(seq) \in Nat /\ Turn(last) \in Nat /\ Turn(seq) <= MaxUsed /\ Turn(last) <= MaxUsed
  BY <1>1, <1>2, <1>3, TurnsDiffer, BoundAssumption
<1>5. \A s \in range : s \in Number /\ Turn(last) < Turn(s) /\ Turn(s) < Turn(seq)
  BY <1>2, <1>3, <1>4, AskedLiesBetween
<1>6. Signed(seq - last) = dist
  BY <1>2, <1>3, <1>4, SignedIsDistance
<1>7. UpdatedHistory(d, seq) = IF dist >= 0 \/ dist < -4 * REPAIR_DELTA_MAX THEN seq ELSE last
  BY <1>4, <1>6, DeltaAssumption DEF UpdatedHistory, SeqDelta
<1>8. /\ history'[d] = UpdatedHistory(d, seq)
      /\ nacks' = IF asks = {} THEN nacks ELSE nacks \cup {[from |-> d, seqs |-> asks]}
      /\ got'[d] = got[d] \cup {c.frame}
      /\ asked'[d] = asked[d] \cup asks
      /\ reset'[d] = (reset[d] \/ dist < -4 * REPAIR_DELTA_MAX)
  BY <1>1, <1>6 DEF Receive
<1>9. \A s \in asks : s \in Number /\ Turn(last) < Turn(s) /\ Turn(s) < Turn(seq)
  BY <1>5
<1>10. /\ \A f \in got[d] : sent[f] \in Number /\ Turn(sent[f]) <= Turn(last)
       /\ \A s \in asked[d] : s \in Number /\ Turn(s) < Turn(last)
  <2>1. \A f \in got[d] : f \in 1 .. Len(sent)
    BY <1>1 DEF AskInv, Frame
  <2> QED
    BY <1>1, <1>3, <2>1 DEF AskInv
<1> HIDE DEF asks, dist, last, seq, d, range
<1>11. \A s \in asks : s \notin asked[d]
  <2>1. ASSUME NEW s \in asks, s \in asked[d] PROVE FALSE
    <3>1. Turn(s) \in Int
      BY <1>9, TurnsDiffer
    <3> QED
      BY <1>4, <1>9, <1>10, <2>1, <3>1
  <2> QED
    BY <2>1
<1>12. asked'[d] \ asked[d] = asks
  BY <1>8, <1>11
<1>13. \A f \in got[d] : sent[f] \notin asks
  <2>1. ASSUME NEW f \in got[d], sent[f] \in asks PROVE FALSE
    <3>1. Turn(sent[f]) \in Int
      BY <1>10, TurnsDiffer
    <3> QED
      BY <1>4, <1>9, <1>10, <2>1, <3>1
  <2> QED
    BY <2>1
<1>14. nacks' \subseteq nacks \cup [from : {d}, seqs : SUBSET asks]
  BY <1>8
<1>15. ASSUME ~reset'[d]
       PROVE  /\ history'[d] # None /\ Turn(history'[d]) <= used
              /\ Turn(history'[d]) \in Nat
              /\ Turn(last) <= Turn(history'[d]) /\ Turn(seq) <= Turn(history'[d])
  <2>1. dist = Turn(seq) - Turn(last) /\ ~(dist < -4 * REPAIR_DELTA_MAX)
    BY <1>8, <1>15 DEF dist
  <2>2. history'[d] = IF dist >= 0 THEN seq ELSE last
    BY <1>7, <1>8, <2>1
  <2>3. history'[d] \in Number
    BY <1>2, <1>3, <2>2
  <2>4. history'[d] # None
    BY <2>3, NoneNotNumber, SeqAssumption DEF Number
  <2> QED
    BY <1>2, <1>3, <1>4, <2>1, <2>2, <2>4
<1>16. ASSUME ~reset'[d]
       PROVE  /\ \A f \in got'[d] : Turn(sent[f]) <= Turn(history'[d])
              /\ \A s \in asked'[d] : Turn(s) < Turn(history'[d])
  <2>1. ASSUME NEW f \in got[d] PROVE Turn(sent[f]) <= Turn(history'[d])
    <3>1. Turn(sent[f]) \in Int /\ Turn(sent[f]) <= Turn(last)
      BY <1>10, TurnsDiffer
    <3> QED
      BY <1>4, <1>15, <1>16, <3>1
  <2>2. ASSUME NEW s \in asked[d] PROVE Turn(s) < Turn(history'[d])
    <3>1. Turn(s) \in Int /\ Turn(s) < Turn(last)
      BY <1>10, TurnsDiffer
    <3> QED
      BY <1>4, <1>15, <1>16, <3>1
  <2>3. ASSUME NEW s \in asks PROVE Turn(s) < Turn(history'[d])
    <3>1. Turn(s) \in Int /\ Turn(s) < Turn(seq)
      BY <1>9, TurnsDiffer
    <3> QED
      BY <1>4, <1>15, <1>16, <3>1
  <2>4. Turn(sent[c.frame]) <= Turn(history'[d])
    BY <1>15, <1>16 DEF seq
  <2> QED
    BY <1>8, <2>1, <2>2, <2>3, <2>4
<1> QED
  BY <1>12, <1>13, <1>14, <1>15, <1>16 DEF d

LEMMA InitAsk == Init => AskInv
<1> SUFFICES ASSUME Init PROVE AskInv
  OBVIOUS
<1>1. Len(sent) = 0 /\ got = [d \in Downstream |-> {}] /\ asked = [d \in Downstream |-> {}]
      /\ history = [d \in Downstream |-> None]
  BY DEF Init
<1> QED
  BY <1>1 DEF AskInv

LEMMA NextAsk ==
    ASSUME MaxUsed < SEQ \div 2
    PROVE  ArqInv /\ AskInv /\ [Next]_vars => AskInv'
<1> SUFFICES ASSUME ArqInv, AskInv, [Next]_vars PROVE AskInv'
  OBVIOUS
<1>1. ASSUME UNCHANGED << upstream, history, got, asked, reset >> PROVE AskInv'
  BY <1>1 DEF AskInv, upstream
<1>2. ASSUME NEW kind \in Kind, NEW step \in Steps(kind), SendFrame(kind, step) PROVE AskInv'
  <2> DEFINE n == Len(sent)
  <2>1. /\ sent \in Seq(Number) /\ n \in Nat /\ used \in Nat /\ ump_sequence \in Number
        /\ Turn(ump_sequence) = used /\ step \in {0, 1}
        /\ got \in [Downstream -> SUBSET Frame] /\ history \in [Downstream -> Number \cup {None}]
    BY BoundAssumption DEF ArqInv, TypeOK, Steps
  <2>2. used' = used + step /\ sent' = Append(sent, ump_sequence)
        /\ UNCHANGED << history, got, asked, reset >>
    BY <1>2 DEF SendFrame
  <2>3. Len(sent') = n + 1 /\ \A f \in 1 .. n : sent'[f] = sent[f] /\ f \in Nat
    BY <2>1, <2>2
  <2>4. sent'[n + 1] = ump_sequence
    BY <2>1, <2>2
  <2>5. ASSUME NEW f \in 1 .. n + 1 PROVE Turn(sent'[f]) <= used'
    <3>1. CASE f = n + 1
      BY <2>1, <2>2, <2>4, <3>1
    <3>2. CASE f # n + 1
      <4>1. f \in 1 .. n
        BY <2>1, <3>2
      <4>2. sent[f] \in Number /\ Turn(sent[f]) <= used
        BY <2>1, <4>1 DEF AskInv
      <4>3. Turn(sent[f]) \in Int
        BY <4>2, TurnsDiffer
      <4> QED
        BY <2>1, <2>2, <2>3, <4>1, <4>2, <4>3
    <3> QED
      BY <3>1, <3>2
  <2>6. \A d \in Downstream : \A f \in got[d] : f \in 1 .. n
    BY <2>1 DEF AskInv, Frame
  <2>7. \A d \in Downstream : \A f \in got'[d] : f <= n + 1 /\ sent'[f] = sent[f]
    <3> HIDE DEF n
    <3> QED
      BY <2>1, <2>2, <2>3, <2>6
  <2>8. ASSUME NEW d \in Downstream, ~reset[d], history[d] # None PROVE Turn(history[d]) <= used'
    <3>1. history[d] \in Number /\ Turn(history[d]) <= used
      BY <2>1, <2>8 DEF AskInv
    <3>2. Turn(history[d]) \in Int
      BY <3>1, TurnsDiffer
    <3> QED
      BY <2>1, <2>2, <3>1, <3>2
  <2> HIDE DEF n
  <2> QED
    BY <2>2, <2>3, <2>5, <2>7, <2>8 DEF AskInv
<1>3. ASSUME NEW n \in Lost, LoseControlFrames(n) PROVE AskInv'
  <2>1. n \in Nat /\ used \in Nat /\ sent \in Seq(Number) /\ history \in [Downstream -> Number \cup {None}]
    BY BoundAssumption DEF ArqInv, TypeOK
  <2>2. used' = used + n /\ UNCHANGED << sent, history, got, asked, reset >>
    BY <1>3 DEF LoseControlFrames
  <2>3. \A s \in Number : Turn(s) <= used => Turn(s) <= used'
    BY <2>1, <2>2, TurnsDiffer
  <2>4. \A f \in 1 .. Len(sent) : sent[f] \in Number
    BY <2>1
  <2> QED
    BY <2>1, <2>2, <2>3, <2>4 DEF AskInv
<1>4. ASSUME NEW n \in nacks, NEW oldest \in 1 .. MaxSent + 1, HandleNack(n, oldest) PROVE AskInv'
  BY <1>4 DEF AskInv, HandleNack
<1>5. ASSUME NEW c \in air, NEW nackable \in BOOLEAN, Receive(c, nackable) PROVE AskInv'
  <2> DEFINE d == c.to
  <2>1. /\ d \in Downstream /\ c.frame <= Len(sent)
        /\ got \in [Downstream -> SUBSET Frame] /\ asked \in [Downstream -> SUBSET Number]
        /\ reset \in [Downstream -> BOOLEAN] /\ history \in [Downstream -> Number \cup {None}]
    BY DEF ArqInv, TypeOK
  <2>2. /\ got'[d] = got[d] \cup {c.frame}
        /\ reset[d] => reset'[d]
        /\ \A e \in Downstream \ {d} : /\ got'[e] = got[e] /\ asked'[e] = asked[e]
                                       /\ history'[e] = history[e] /\ reset'[e] = reset[e]
        /\ UNCHANGED << sent, used >>
    BY <1>5, <2>1 DEF Receive, upstream
  <2>3. ASSUME ~reset'[d]
        PROVE  /\ history'[d] # None /\ Turn(history'[d]) <= used
               /\ \A f \in got'[d] : Turn(sent[f]) <= Turn(history'[d])
               /\ \A s \in asked'[d] : Turn(s) < Turn(history'[d])
    BY <1>5, <2>2, <2>3, ReceiveAsks
  <2> HIDE DEF d
  <2>4. \A e \in Downstream : \A f \in got'[e] : f <= Len(sent)
    BY <2>1, <2>2 DEF AskInv
  <2> QED
    BY <2>2, <2>3, <2>4 DEF AskInv
<1>6. ASSUME NEW c \in air, Lose(c) PROVE AskInv'
  BY <1>1, <1>6 DEF Lose
<1>7. ASSUME NEW n \in nacks, LoseNack(n) PROVE AskInv'
  BY <1>1, <1>7 DEF LoseNack
<1>8. ASSUME NEW d \in Downstream, PruneUpstreamHistory(d) PROVE AskInv'
  <2>1. reset \in [Downstream -> BOOLEAN] /\ history \in [Downstream -> Number \cup {None}]
    BY DEF ArqInv, TypeOK
  <2> QED
    BY <1>8, <2>1 DEF PruneUpstreamHistory, AskInv, upstream
<1>9. CASE UNCHANGED vars
  BY <1>1, <1>9 DEF vars, upstream
<1> QED
  BY <1>2, <1>3, <1>4, <1>5, <1>6, <1>7, <1>8, <1>9 DEF Next

\* While no more than half of the numbers are used, a downstream interface that
\* did not start over asks for no frame it has, and for none twice.
THEOREM AsksNothingTwice ==
    ASSUME MaxUsed < SEQ \div 2
    PROVE  Spec => AsksOnlyForMissed
<1> DEFINE New(d) == UNION {n.seqs : n \in {m \in nacks' \ nacks : m.from = d}}
           Asks == \A d \in Downstream : ~reset[d] => /\ New(d) \cap asked[d] = {}
                                                      /\ \A f \in got[d] : sent[f] \notin New(d)
<1>1. ArqInv /\ AskInv /\ [Next]_vars => [Asks]_vars
  <2> SUFFICES ASSUME ArqInv, AskInv, [Next]_vars, ~UNCHANGED vars PROVE Asks
    OBVIOUS
  <2>1. ASSUME nacks' \subseteq nacks PROVE Asks
    <3>1. \A d \in Downstream : New(d) = {}
      BY <2>1
    <3> HIDE DEF New
    <3> QED
      BY <3>1
  <2>2. ASSUME NEW c \in air, NEW nackable \in BOOLEAN, Receive(c, nackable) PROVE Asks
    <3> SUFFICES ASSUME NEW d \in Downstream, ~reset[d]
                 PROVE  New(d) \cap asked[d] = {} /\ \A f \in got[d] : sent[f] \notin New(d)
      OBVIOUS
    <3>1. CASE d = c.to
      <4> DEFINE asks == asked'[d] \ asked[d]
      <4>1. /\ nacks' \subseteq nacks \cup [from : {d}, seqs : SUBSET asks]
            /\ \A f \in got[d] : sent[f] \notin asks
        BY <2>2, <3>1, ReceiveAsks
      <4>2. New(d) \subseteq asks
        BY <4>1
      <4> HIDE DEF New
      <4> QED
        BY <4>1, <4>2
    <3>2. CASE d # c.to
      <4>1. \A m \in nacks' \ nacks : m.from = c.to
        BY <2>2 DEF Receive
      <4>2. New(d) = {}
        BY <3>2, <4>1
      <4> HIDE DEF New
      <4> QED
        BY <4>2
    <3> QED
      BY <3>1, <3>2
  <2> HIDE DEF Asks
  <2>3. ASSUME NEW kind \in Kind, NEW step \in Steps(kind), SendFrame(kind, step) PROVE Asks
    BY <2>1, <2>3 DEF SendFrame
  <2>4. ASSUME NEW n \in Lost, LoseControlFrames(n) PROVE Asks
    BY <2>1, <2>4 DEF LoseControlFrames
  <2>5. ASSUME NEW n \in nacks, NEW oldest \in 1 .. MaxSent + 1, HandleNack(n, oldest) PROVE Asks
    BY <2>1, <2>5 DEF HandleNack
  <2>6. ASSUME NEW c \in air, Lose(c) PROVE Asks
    BY <2>1, <2>6 DEF Lose
  <2>7. ASSUME NEW n \in nacks, LoseNack(n) PROVE Asks
    BY <2>1, <2>7 DEF LoseNack
  <2>8. ASSUME NEW d \in Downstream, PruneUpstreamHistory(d) PROVE Asks
    BY <2>1, <2>8 DEF PruneUpstreamHistory
  <2> QED
    BY <2>2, <2>3, <2>4, <2>5, <2>6, <2>7, <2>8 DEF Next
<1>2. Spec => []AskInv
  BY InitAsk, NextAsk, SpecArq, PTL DEF Spec
<1> QED
  BY <1>1, <1>2, SpecArq, PTL DEF Spec, AsksOnlyForMissed
=============================================================================
