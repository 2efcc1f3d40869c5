-------------------------- MODULE SmfOutputProofs ---------------------------
(***************************************************************************)
(* Proofs about the output of an interface: the methods of its queue,      *)
(* SmfQueue and SmfTx, for every set of packets, frames, limits and rates, *)
(* with or without a virtual interface.                                    *)
(*                                                                         *)
(* The first part says, for any queue, what each method makes of one that  *)
(* is in order (QueueOK: its count is its length, no packet is linked      *)
(* twice, the mark separates the priority packets from the others), and    *)
(* what becomes of the set of queued packets.  The theorems about SmfQueue *)
(* rest on IInv: its queue is in order, and each of its packets has a      *)
(* buffer to itself.  For its refinement, lemmas say what each method does *)
(* to the parts before and after the mark.  Those about SmfTx follow.      *)
(***************************************************************************)
EXTENDS SmfQueue, SmfTx, TLAPS, SequenceTheorems

-----------------------------------------------------------------------------
\* The methods of a queue

\* A sequence over S holds elements of S, from 1 to its length.
LEMMA ElementsInSet ==
    ASSUME NEW S, NEW s \in Seq(S)
    PROVE  /\ Len(s) \in Nat
           /\ \A i \in 1 .. Len(s) : s[i] \in S
OBVIOUS

\* What inserting one element after position m makes of a sequence.
LEMMA InsertElements ==
    ASSUME NEW S, NEW s \in Seq(S), NEW e \in S, NEW m \in 0 .. Len(s),
           NEW t, t = [i \in 1 .. Len(s) + 1 |->
                         IF i <= m THEN s[i] ELSE IF i = m + 1 THEN e ELSE s[i - 1]]
    PROVE  /\ t \in Seq(S)
           /\ Len(t) = Len(s) + 1
           /\ \A i \in 1 .. Len(s) + 1 :
                t[i] = IF i <= m THEN s[i] ELSE IF i = m + 1 THEN e ELSE s[i - 1]
OBVIOUS

\* What dropping the last element makes of a sequence.
LEMMA FrontElements ==
    ASSUME NEW S, NEW s \in Seq(S), s # << >>,
           NEW t, t = SubSeq(s, 1, Len(s) - 1)
    PROVE  /\ t \in Seq(S)
           /\ Len(t) = Len(s) - 1
           /\ \A i \in 1 .. Len(s) - 1 : t[i] = s[i]
<1> DEFINE n == Len(s) - 1
<1>1. n \in Nat /\ \A i \in 1 .. n : s[i] \in S
  OBVIOUS
<1> HIDE DEF n
<1>2. /\ SubSeq(s, 1, n) \in Seq(S)
      /\ Len(SubSeq(s, 1, n)) = IF 1 <= n THEN n - 1 + 1 ELSE 0
      /\ \A i \in 1 .. n - 1 + 1 : SubSeq(s, 1, n)[i] = s[1 + i - 1]
  BY <1>1, SubSeqProperties
<1>3. /\ SubSeq(s, 1, n) \in Seq(S)
      /\ Len(SubSeq(s, 1, n)) = n
      /\ \A i \in 1 .. n : SubSeq(s, 1, n)[i] = s[i]
  BY <1>1, <1>2
<1> QED
  BY <1>3 DEF n

\* What dropping the first element makes of a sequence.
LEMMA TailElements ==
    ASSUME NEW S, NEW s \in Seq(S), s # << >>
    PROVE  /\ Tail(s) \in Seq(S)
           /\ Len(Tail(s)) = Len(s) - 1
           /\ \A i \in 1 .. Len(s) - 1 : Tail(s)[i] = s[i + 1]
OBVIOUS

\* What appending one element makes of a sequence.
LEMMA AppendElements ==
    ASSUME NEW S, NEW s \in Seq(S), NEW e \in S
    PROVE  /\ Append(s, e) \in Seq(S)
           /\ Len(Append(s, e)) = Len(s) + 1
           /\ \A i \in 1 .. Len(s) + 1 :
                Append(s, e)[i] = IF i = Len(s) + 1 THEN e ELSE s[i]
OBVIOUS

\* What every operation keeps: the queue is well formed and in order.
QueueOK(x) == x \in QueueType /\ Consistent(x) /\ MarkedLastOut(x)

\* In a queue that is in order, the packets up to Mark are exactly the priority
\* packets, and Mark is where priority_index stands.
LEMMA MarkPosition ==
    ASSUME NEW x, QueueOK(x)
    PROVE  /\ Mark(x) \in 0 .. Len(x.list)
           /\ \A i \in 1 .. Len(x.list) : IsPriority(x.list[i]) <=> i <= Mark(x)
           /\ x.priority_index = None <=> Mark(x) = 0
           /\ x.priority_index # None => x.list[Mark(x)] = x.priority_index
<1> USE DEF QueueOK, QueueType
<1>1. Len(x.list) \in Nat /\ \A i \in 1 .. Len(x.list) : x.list[i] \in Packet
  BY ElementsInSet
<1>2. CASE x.priority_index = None
  <2>1. Mark(x) = 0
    BY <1>2 DEF Mark
  <2>2. \A i \in 1 .. Len(x.list) : ~IsPriority(x.list[i])
    BY <1>1, <1>2, NoneAssumption DEF MarkedLastOut
  <2> QED
    BY <1>1, <1>2, <2>1, <2>2
<1>3. CASE x.priority_index # None
  <2>1. PICK m \in 1 .. Len(x.list) :
          /\ x.list[m] = x.priority_index
          /\ \A i \in 1 .. Len(x.list) : IsPriority(x.list[i]) <=> i <= m
    BY <1>3 DEF MarkedLastOut
  <2>2. Mark(x) \in 1 .. Len(x.list) /\ x.list[Mark(x)] = x.priority_index
    BY <1>3, <2>1 DEF Mark
  <2>3. Mark(x) = m
    BY <2>1, <2>2 DEF Consistent
  <2> QED
    BY <1>1, <1>3, <2>1, <2>3
<1> QED
  BY <1>2, <1>3

\* Conversely, a position that separates the priority packets from the others
\* is the mark.
LEMMA MarkFromPosition ==
    ASSUME NEW x, x \in QueueType, Consistent(x), NEW m \in 0 .. Len(x.list),
           \A i \in 1 .. Len(x.list) : IsPriority(x.list[i]) <=> i <= m,
           x.priority_index = IF m = 0 THEN None ELSE x.list[m]
    PROVE  QueueOK(x) /\ Mark(x) = m
<1> USE DEF QueueType
<1>1. Len(x.list) \in Nat /\ \A i \in 1 .. Len(x.list) : x.list[i] \in Packet
  BY ElementsInSet
<1>2. QueueOK(x)
  BY <1>1 DEF QueueOK, MarkedLastOut
<1>3. CASE m = 0
  BY <1>2, <1>3 DEF Mark
<1>4. CASE m # 0
  <2>1. x.priority_index # None
    BY <1>1, <1>4, NoneAssumption
  <2>2. Mark(x) \in 1 .. Len(x.list) /\ x.list[Mark(x)] = x.list[m]
    BY <2>1, <1>4 DEF Mark
  <2> QED
    BY <1>2, <1>4, <2>2 DEF Consistent
<1> QED
  BY <1>3, <1>4

\* Bumping (RemoveHead() in EnqueuePacket) keeps a queue in order, when the
\* packet bumped is not the marked one.
LEMMA RemoveHeadOK ==
    ASSUME NEW x, QueueOK(x), GetHead(x) # x.priority_index
    PROVE  /\ QueueOK(RemoveHead(x))
           /\ Mark(RemoveHead(x)) = Mark(x)
           /\ x.list # << >>
           /\ Len(RemoveHead(x).list) = Len(x.list) - 1
           /\ \A i \in 1 .. Len(x.list) - 1 : RemoveHead(x).list[i] = x.list[i]
           /\ GetHead(x) = x.list[Len(x.list)]
           /\ Queued(RemoveHead(x)) = Queued(x) \ {GetHead(x)}
           /\ RemoveHead(x).priority_index = x.priority_index
           /\ RemoveHead(x).queue_limit = x.queue_limit
<1> DEFINE y == RemoveHead(x)
           n == Len(x.list)
           h == GetHead(x)
<1>1. n \in Nat /\ x.list \in Seq(Packet) /\ \A i \in 1 .. n : x.list[i] \in Packet
  BY ElementsInSet DEF QueueOK, QueueType
<1>2. x.list # << >>
  BY MarkPosition DEF GetHead
<1>3. y = [list |-> SubSeq(x.list, 1, n - 1), priority_index |-> x.priority_index,
           queue_limit |-> x.queue_limit, queue_length |-> x.queue_length - 1]
  BY DEF RemoveHead, Queue
<1>4. y.list \in Seq(Packet) /\ Len(y.list) = n - 1 /\ \A i \in 1 .. n - 1 : y.list[i] = x.list[i]
  BY <1>1, <1>2, <1>3, FrontElements
<1>5. GetHead(x) = x.list[n] /\ n # 0
  BY <1>1, <1>2 DEF GetHead
<1>6. y \in QueueType /\ Consistent(y)
  BY <1>1, <1>3, <1>4, <1>5 DEF QueueOK, QueueType, Consistent
<1>7. Mark(x) \in 0 .. n - 1
  BY <1>1, <1>5, MarkPosition
<1>8. QueueOK(y) /\ Mark(y) = Mark(x)
  <2>1. \A i \in 1 .. Len(y.list) : IsPriority(y.list[i]) <=> i <= Mark(x)
    BY <1>1, <1>4, MarkPosition
  <2>2. y.priority_index = IF Mark(x) = 0 THEN None ELSE y.list[Mark(x)]
    BY <1>1, <1>3, <1>4, <1>7, MarkPosition
  <2> QED
    BY <1>4, <1>6, <1>7, <2>1, <2>2, MarkFromPosition
<1>9. Queued(y) = Queued(x) \ {GetHead(x)}
  <2>1. \A i \in 1 .. n - 1 : x.list[i] # x.list[n]
    BY <1>1, <1>5 DEF QueueOK, Consistent
  <2>2. \A i \in 1 .. n : i = n \/ i \in 1 .. n - 1
    BY <1>1
  <2> HIDE DEF y, h
  <2>3. Queued(y) = {x.list[i] : i \in 1 .. n - 1}
    BY <1>4 DEF Queued
  <2>4. Queued(x) = {x.list[i] : i \in 1 .. n - 1} \cup {x.list[n]}
    BY <1>1, <1>5, <2>2 DEF Queued
  <2> QED
    BY <1>1, <1>5, <2>1, <2>3, <2>4
<1>10. y.priority_index = x.priority_index /\ y.queue_limit = x.queue_limit
  BY <1>3
<1> HIDE DEF y
<1> QED
  BY <1>2, <1>4, <1>5, <1>8, <1>9, <1>10 DEF y

\* Inserting a new priority packet at the mark and moving the mark to it keeps
\* a queue in order.
LEMMA EnqueuePriorityOK ==
    ASSUME NEW x, QueueOK(x), NEW p \in Packet, IsPriority(p), p \notin Queued(x)
    PROVE  LET y == EnqueuePriority(x, p) IN
           /\ QueueOK(y)
           /\ Mark(y) = Mark(x) + 1
           /\ Len(y.list) = Len(x.list) + 1
           /\ \A i \in 1 .. Len(x.list) + 1 :
                y.list[i] = IF i <= Mark(x) THEN x.list[i]
                            ELSE IF i = Mark(x) + 1 THEN p ELSE x.list[i - 1]
           /\ Queued(y) = Queued(x) \cup {p}
           /\ y.queue_limit = x.queue_limit
<1> DEFINE y == EnqueuePriority(x, p)
           n == Len(x.list)
           m == Mark(x)
<1>1. n \in Nat /\ x.list \in Seq(Packet) /\ \A i \in 1 .. n : x.list[i] \in Packet
  BY ElementsInSet DEF QueueOK, QueueType
<1>2. /\ m \in 0 .. n
      /\ \A i \in 1 .. n : IsPriority(x.list[i]) <=> i <= m
      /\ x.priority_index = None <=> m = 0
      /\ x.priority_index # None => x.list[m] = x.priority_index
  BY MarkPosition
<1>3. InsertAtMark(x, p) =
        [i \in 1 .. n + 1 |-> IF i <= m THEN x.list[i] ELSE IF i = m + 1 THEN p ELSE x.list[i - 1]]
  BY <1>1, <1>2 DEF InsertAtMark
<1>4. y = [list |-> InsertAtMark(x, p), priority_index |-> p,
           queue_limit |-> x.queue_limit, queue_length |-> x.queue_length + 1]
  BY DEF EnqueuePriority, Queue
<1> HIDE DEF y, m
<1>5. /\ y.list \in Seq(Packet) /\ Len(y.list) = n + 1
      /\ \A i \in 1 .. n + 1 :
            y.list[i] = IF i <= m THEN x.list[i] ELSE IF i = m + 1 THEN p ELSE x.list[i - 1]
  BY <1>1, <1>2, <1>3, <1>4, InsertElements
<1>6. \A i \in 1 .. n : x.list[i] # p
  BY DEF Queued
<1>7. y \in QueueType /\ Consistent(y)
  <2>1. y \in QueueType /\ y.queue_length = Len(y.list)
    BY <1>1, <1>4, <1>5 DEF QueueOK, QueueType, Consistent
  <2>2. ASSUME NEW i \in 1 .. n + 1, NEW j \in 1 .. n + 1, y.list[i] = y.list[j]
        PROVE  i = j
    <3>1. \A k, l \in 1 .. n : x.list[k] = x.list[l] => k = l
      BY DEF QueueOK, Consistent
    <3> DEFINE f(k) == IF k <= m THEN k ELSE k - 1
    <3>2. \A k \in 1 .. n + 1 : k # m + 1 => f(k) \in 1 .. n /\ y.list[k] = x.list[f(k)]
      BY <1>1, <1>2, <1>5
    <3>3. y.list[m + 1] = p
      <4>1. m + 1 \in 1 .. n + 1 /\ ~(m + 1 <= m)
        BY <1>1, <1>2
      <4> QED
        BY ONLY <1>5, <4>1
    <3>4. CASE i = m + 1
      BY <1>6, <2>2, <3>2, <3>3, <3>4
    <3>5. CASE j = m + 1
      BY <1>6, <2>2, <3>2, <3>3, <3>5
    <3>6. CASE i # m + 1 /\ j # m + 1
      <4>1. f(i) = f(j)
        BY <2>2, <3>1, <3>2, <3>6
      <4> QED
        BY <1>1, <1>2, <3>6, <4>1
    <3> QED
      BY <3>4, <3>5, <3>6
  <2> QED
    BY <1>5, <2>1, <2>2 DEF Consistent
<1>8. QueueOK(y) /\ Mark(y) = m + 1
  <2>1. \A i \in 1 .. n + 1 : IsPriority(y.list[i]) <=> i <= m + 1
    BY <1>1, <1>2, <1>5
  <2>2. y.priority_index = y.list[m + 1]
    BY <1>1, <1>2, <1>4, <1>5
  <2> QED
    <3>1. m + 1 \in 1 .. Len(y.list) /\ m + 1 # 0 /\ Len(y.list) = n + 1
      BY <1>1, <1>2, <1>5
    <3> QED
      BY <1>5, <1>7, <2>1, <2>2, <3>1, MarkFromPosition
<1>9. Queued(y) = Queued(x) \cup {p}
  <2>1. ASSUME NEW i \in 1 .. n + 1 PROVE y.list[i] \in Queued(x) \cup {p}
    <3>1. i = m + 1 \/ (i \in 1 .. n /\ i <= m) \/ (i - 1 \in 1 .. n /\ i > m + 1)
      BY <1>1, <1>2
    <3>2. CASE i = m + 1
      BY <1>2, <1>5, <3>2
    <3>3. CASE i \in 1 .. n /\ i <= m
      <4>1. y.list[i] = x.list[i]
        BY <1>5, <3>3
      <4> QED
        BY <3>3, <4>1 DEF Queued
    <3>4. CASE i - 1 \in 1 .. n /\ i > m + 1
      <4>1. y.list[i] = x.list[i - 1]
        BY <1>1, <1>2, <1>5, <3>4
      <4> QED
        BY <3>4, <4>1 DEF Queued
    <3> QED
      BY <3>1, <3>2, <3>3, <3>4
  <2>2. p \in Queued(y)
    <3>1. m + 1 \in 1 .. n + 1 /\ y.list[m + 1] = p
      BY <1>1, <1>2, <1>5
    <3> QED
      BY <1>5, <3>1 DEF Queued
  <2>3. ASSUME NEW i \in 1 .. n PROVE x.list[i] \in Queued(y)
    <3>1. CASE i <= m
      <4>1. i \in 1 .. n + 1 /\ y.list[i] = x.list[i]
        BY <1>1, <1>2, <1>5, <3>1
      <4> QED
        BY <1>5, <4>1 DEF Queued
    <3>2. CASE i > m
      <4>1. i + 1 \in 1 .. n + 1 /\ y.list[i + 1] = x.list[i]
        BY <1>1, <1>2, <1>5, <3>2
      <4> QED
        BY <1>5, <4>1 DEF Queued
    <3> QED
      BY <1>1, <1>2, <3>1, <3>2
  <2> QED
    BY <1>5, <2>1, <2>2, <2>3 DEF Queued
<1>10. y.queue_limit = x.queue_limit
  BY <1>4
<1> QED
  BY <1>5, <1>8, <1>9, <1>10 DEF y, m

\* Putting a new packet of the lower priority last keeps a queue in order.
LEMMA EnqueueNormalOK ==
    ASSUME NEW x, QueueOK(x), NEW p \in Packet, ~IsPriority(p), p \notin Queued(x)
    PROVE  LET y == EnqueueNormal(x, p) IN
           /\ QueueOK(y)
           /\ Mark(y) = Mark(x)
           /\ y.list = Append(x.list, p)
           /\ Queued(y) = Queued(x) \cup {p}
           /\ y.queue_limit = x.queue_limit
<1> DEFINE y == EnqueueNormal(x, p)
           n == Len(x.list)
           m == Mark(x)
<1>1. n \in Nat /\ x.list \in Seq(Packet) /\ \A i \in 1 .. n : x.list[i] \in Packet
  BY ElementsInSet DEF QueueOK, QueueType
<1>2. /\ m \in 0 .. n
      /\ \A i \in 1 .. n : IsPriority(x.list[i]) <=> i <= m
      /\ x.priority_index = IF m = 0 THEN None ELSE x.list[m]
  BY MarkPosition
<1>3. y = [list |-> Append(x.list, p), priority_index |-> x.priority_index,
           queue_limit |-> x.queue_limit, queue_length |-> x.queue_length + 1]
  BY DEF EnqueueNormal, Queue
<1> HIDE DEF y, m
<1>4. /\ y.list \in Seq(Packet) /\ Len(y.list) = n + 1
      /\ \A i \in 1 .. n : y.list[i] = x.list[i]
      /\ y.list[n + 1] = p
  BY <1>1, <1>3, AppendElements
<1>5. \A i \in 1 .. n : x.list[i] # p
  BY DEF Queued
<1>6. y \in QueueType /\ Consistent(y)
  <2>1. y \in QueueType /\ y.queue_length = Len(y.list)
    BY <1>1, <1>3, <1>4 DEF QueueOK, QueueType, Consistent
  <2>2. \A i, j \in 1 .. n : x.list[i] = x.list[j] => i = j
    BY DEF QueueOK, Consistent
  <2>3. ASSUME NEW i \in 1 .. n + 1, NEW j \in 1 .. n + 1, y.list[i] = y.list[j]
        PROVE  i = j
    <3>1. \A k \in 1 .. n + 1 : k = n + 1 \/ k \in 1 .. n
      BY <1>1
    <3>2. CASE i \in 1 .. n /\ j \in 1 .. n
      BY <1>4, <2>2, <2>3, <3>2
    <3>3. CASE ~(i \in 1 .. n /\ j \in 1 .. n)
      BY <1>4, <1>5, <2>3, <3>1, <3>3
    <3> QED
      BY <3>2, <3>3
  <2> QED
    BY <1>4, <2>1, <2>3 DEF Consistent
<1>7. QueueOK(y) /\ Mark(y) = m
  <2>1. \A i \in 1 .. n + 1 : IsPriority(y.list[i]) <=> i <= m
    BY <1>1, <1>2, <1>4
  <2>2. y.priority_index = IF m = 0 THEN None ELSE y.list[m]
    <3>1. y.priority_index = x.priority_index
      BY <1>3
    <3>2. m # 0 => y.list[m] = x.list[m]
      BY <1>1, <1>2, <1>4
    <3> QED
      BY <1>2, <3>1, <3>2
  <2>3. m \in 0 .. Len(y.list) /\ Len(y.list) = n + 1
    BY <1>1, <1>2, <1>4
  <2> QED
    BY <1>6, <2>1, <2>2, <2>3, MarkFromPosition
<1>8. Queued(y) = Queued(x) \cup {p}
  <2>1. Queued(y) = {y.list[i] : i \in 1 .. n} \cup {y.list[n + 1]}
    BY <1>1, <1>4 DEF Queued
  <2> QED
    BY <1>4, <2>1 DEF Queued
<1>9. y.queue_limit = x.queue_limit /\ y.list = Append(x.list, p)
  BY <1>3
<1> QED
  BY <1>7, <1>8, <1>9 DEF y, m

\* DequeuePacket keeps a queue in order: the mark goes when its packet leaves.
LEMMA DequeueOK ==
    ASSUME NEW x, QueueOK(x), x.list # << >>
    PROVE  LET y == Dequeue(x) IN
           /\ QueueOK(y)
           /\ Mark(y) = IF Mark(x) = 0 THEN 0 ELSE Mark(x) - 1
           /\ y.list = Tail(x.list)
           /\ Queued(y) = Queued(x) \ {PreviewPacket(x)}
           /\ PreviewPacket(x) \in Queued(x)
           /\ y.queue_limit = x.queue_limit
<1> DEFINE y == Dequeue(x)
           n == Len(x.list)
           m == Mark(x)
           k == IF m = 0 THEN 0 ELSE m - 1
<1>1. /\ n \in Nat /\ n # 0 /\ x.list \in Seq(Packet)
      /\ \A i \in 1 .. n : x.list[i] \in Packet
      /\ \A i, j \in 1 .. n : x.list[i] = x.list[j] => i = j
  <2>1. x.list \in Seq(Packet) /\ Consistent(x)
    BY DEF QueueOK, QueueType
  <2> QED
    BY <2>1, ElementsInSet DEF Consistent
<1>2. /\ m \in 0 .. n
      /\ \A i \in 1 .. n : IsPriority(x.list[i]) <=> i <= m
      /\ x.priority_index = IF m = 0 THEN None ELSE x.list[m]
  BY MarkPosition
<1>3. y = [list |-> Tail(x.list),
           priority_index |-> IF x.list[1] = x.priority_index THEN None ELSE x.priority_index,
           queue_limit |-> x.queue_limit, queue_length |-> x.queue_length - 1]
  BY DEF Dequeue, Queue
<1>4. PreviewPacket(x) = x.list[1]
  BY DEF PreviewPacket
<1> HIDE DEF y, m, k
<1>5. /\ y.list \in Seq(Packet) /\ Len(y.list) = n - 1
      /\ \A i \in 1 .. n - 1 : y.list[i] = x.list[i + 1]
  BY <1>1, <1>3, TailElements
<1>6. y \in QueueType /\ Consistent(y)
  <2>1. y \in QueueType /\ y.queue_length = Len(y.list)
    BY <1>1, <1>3, <1>5 DEF QueueOK, QueueType, Consistent
  <2>2. ASSUME NEW i \in 1 .. n - 1, NEW j \in 1 .. n - 1, y.list[i] = y.list[j]
        PROVE  i = j
    <3>1. i + 1 \in 1 .. n /\ j + 1 \in 1 .. n /\ x.list[i + 1] = x.list[j + 1]
      BY <1>1, <1>5, <2>2
    <3>2. i + 1 = j + 1
      BY <1>1, <3>1
    <3> QED
      BY <1>1, <3>2
  <2> QED
    BY <1>5, <2>1, <2>2 DEF Consistent
<1>7. QueueOK(y) /\ Mark(y) = k
  <2>1. k \in 0 .. n - 1
    BY <1>1, <1>2 DEF k
  <2>2. \A i \in 1 .. n - 1 : IsPriority(y.list[i]) <=> i <= k
    <3>1. \A i \in 1 .. n - 1 : i + 1 \in 1 .. n /\ (i + 1 <= m <=> i <= k)
      BY <1>1, <1>2 DEF k
    <3> QED
      BY <1>2, <1>5, <3>1
  <2>3. y.priority_index = IF k = 0 THEN None ELSE y.list[k]
    <3>1. CASE m = 0
      <4>1. x.priority_index = None /\ k = 0
        BY <1>2, <3>1 DEF k
      <4> QED
        BY <1>3, <4>1
    <3>2. CASE m = 1
      <4>1. x.priority_index = x.list[1] /\ k = 0
        BY <1>2, <3>2 DEF k
      <4> QED
        BY <1>3, <4>1
    <3>3. CASE m > 1
      <4>1. x.priority_index = x.list[m] /\ k = m - 1
        BY <1>2, <3>3 DEF k
      <4>2. k \in 1 .. n - 1 /\ k + 1 = m /\ m \in 1 .. n /\ 1 \in 1 .. n /\ m # 1
        BY <1>1, <1>2, <3>3, <4>1
      <4>3. x.list[1] # x.list[m]
        BY <4>2 DEF QueueOK, Consistent
      <4>4. y.list[k] = x.list[m]
        BY <1>5, <4>2
      <4> QED
        BY <1>3, <4>1, <4>2, <4>3, <4>4
    <3> QED
      BY <1>2, <3>1, <3>2, <3>3
  <2> QED
    BY <1>5, <1>6, <2>1, <2>2, <2>3, MarkFromPosition
<1>8. Queued(y) = Queued(x) \ {x.list[1]} /\ x.list[1] \in Queued(x)
  <2>1. Queued(x) = {x.list[1]} \cup {x.list[i + 1] : i \in 1 .. n - 1}
    <3>1. \A j \in 1 .. n : j = 1 \/ (j - 1 \in 1 .. n - 1 /\ j = (j - 1) + 1)
      BY <1>1
    <3>2. \A i \in 1 .. n - 1 : i + 1 \in 1 .. n
      BY <1>1
    <3>3. 1 \in 1 .. n
      BY <1>1
    <3> QED
      BY <3>1, <3>2, <3>3 DEF Queued
  <2>2. \A i \in 1 .. n - 1 : x.list[i + 1] # x.list[1]
    BY <1>1
  <2>3. Queued(y) = {x.list[i + 1] : i \in 1 .. n - 1}
    BY <1>5 DEF Queued
  <2> QED
    BY <2>1, <2>2, <2>3
<1>9. y.queue_limit = x.queue_limit /\ y.list = Tail(x.list)
  BY <1>3
<1> QED
  BY <1>4, <1>7, <1>8, <1>9 DEF y, m, k

\* Changing the limit touches nothing else.
LEMMA SetLimitOK ==
    ASSUME NEW x, QueueOK(x), NEW l \in Int
    PROVE  /\ QueueOK(SetLimit(x, l))
           /\ Mark(SetLimit(x, l)) = Mark(x)
           /\ SetLimit(x, l).list = x.list
           /\ SetLimit(x, l).queue_limit = l
           /\ Queued(SetLimit(x, l)) = Queued(x)
<1> DEFINE y == SetLimit(x, l)
<1>1. y = [list |-> x.list, priority_index |-> x.priority_index,
           queue_limit |-> l, queue_length |-> x.queue_length]
  BY DEF SetLimit, Queue
<1>2. y.list = x.list /\ y.queue_limit = l /\ y.priority_index = x.priority_index
  BY <1>1
<1>3. y \in QueueType /\ Consistent(y) /\ MarkedLastOut(y)
  <2>1. y \in QueueType
    BY <1>1 DEF QueueOK, QueueType
  <2>2. y.queue_length = x.queue_length
    BY <1>1
  <2> QED
    BY <1>2, <2>1, <2>2 DEF QueueOK, Consistent, MarkedLastOut
<1> HIDE DEF y
<1> QED
  BY <1>2, <1>3 DEF y, QueueOK, Mark, Queued

\* What an accepted packet does to the queue, whichever way it goes in.
LEMMA EnqueueOK ==
    ASSUME NEW x, QueueOK(x), NEW p \in Packet, p \notin Queued(x), Accepts(x, p)
    PROVE  /\ QueueOK(Enqueue(x, p))
           /\ Queued(Enqueue(x, p)) =
                (Queued(x) \ (IF Bumps(x, p) THEN {GetHead(x)} ELSE {})) \cup {p}
           /\ Bumps(x, p) => GetHead(x) \in Queued(x)
           /\ Enqueue(x, p).queue_limit = x.queue_limit
<1>1. CASE ~IsPriority(p)
  BY <1>1, EnqueueNormalOK DEF Enqueue, Bumps
<1>2. CASE IsPriority(p) /\ ~AtLimit(x)
  BY <1>2, EnqueuePriorityOK DEF Enqueue, Bumps
<1>3. CASE IsPriority(p) /\ AtLimit(x)
  <2> DEFINE r == RemoveHead(x)
  <2>1. GetHead(x) # x.priority_index
    BY <1>3 DEF Accepts
  <2>2. /\ QueueOK(r) /\ Queued(r) = Queued(x) \ {GetHead(x)}
        /\ r.queue_limit = x.queue_limit
        /\ x.list # << >> /\ GetHead(x) = x.list[Len(x.list)]
    BY <2>1, RemoveHeadOK
  <2>3. GetHead(x) \in Queued(x)
    <3>1. x.list \in Seq(Packet)
      BY DEF QueueOK, QueueType
    <3>2. Len(x.list) \in 1 .. Len(x.list)
      BY <2>2, <3>1
    <3> QED
      BY <2>2, <3>2 DEF Queued
  <2>4. p \notin Queued(r)
    BY <2>2
  <2> HIDE DEF r
  <2>5. /\ QueueOK(EnqueuePriority(r, p))
        /\ Queued(EnqueuePriority(r, p)) = Queued(r) \cup {p}
        /\ EnqueuePriority(r, p).queue_limit = r.queue_limit
    BY <1>3, <2>2, <2>4, EnqueuePriorityOK
  <2>6. Enqueue(x, p) = EnqueuePriority(r, p) /\ Bumps(x, p)
    BY <1>3, <2>1 DEF Enqueue, Bumps, Accepts, r
  <2> QED
    BY <2>2, <2>3, <2>5, <2>6
<1> QED
  BY <1>1, <1>2, <1>3

\* A new queue is in order, whatever its limit.
LEMMA EmptyQueueOK ==
    ASSUME NEW l \in Int
    PROVE  /\ QueueOK(EmptyQueue(l))
           /\ EmptyQueue(l).list = << >>
           /\ EmptyQueue(l).queue_limit = l
           /\ Queued(EmptyQueue(l)) = {}
<1> DEFINE x == EmptyQueue(l)
<1>1. x = [list |-> << >>, priority_index |-> None, queue_limit |-> l, queue_length |-> 0]
  BY DEF EmptyQueue, Queue
<1>2. x.list = << >> /\ Len(x.list) = 0 /\ x.priority_index = None /\ x.queue_length = 0
  BY <1>1
<1>3. x \in QueueType
  BY <1>1 DEF QueueType
<1> QED
  BY <1>1, <1>2, <1>3 DEF QueueOK, Consistent, MarkedLastOut, Queued

-----------------------------------------------------------------------------
\* The queue and its buffers

\* The inductive invariant: the queue is in order, and each of its packets has
\* a buffer to itself that is neither free nor in OnTxTimeout's hand.
IInv ==
    /\ QueueOK(queue)
    /\ buffer \in [Packet -> Buffer \cup {None}]
    /\ pool \subseteq Buffer /\ heap \subseteq Buffer /\ pool \cap heap = {}
    /\ hand \in Buffer \cup {None} /\ hand \notin pool \cup heap
    /\ \A f \in Queued(queue) : buffer[f] \in Buffer \ (pool \cup heap \cup {hand})
    /\ \A f, g \in Queued(queue) : buffer[f] = buffer[g] => f = g

\* The invariant holds of the empty queue when no buffer is allocated.
LEMMA InitIInv == QueueInit => IInv
<1> SUFFICES ASSUME QueueInit PROVE IInv
  OBVIOUS
<1>1. PICK l \in Limits : queue = EmptyQueue(l)
  BY DEF QueueInit
<1>2. QueueOK(queue) /\ Queued(queue) = {}
  BY <1>1, EmptyQueueOK, QueueLimitsAssumption
<1> QED
  BY <1>2, BufferAssumption DEF QueueInit, IInv

\* The packets of a queue are packets, and it is in order also when primed.
LEMMA QueuedPackets ==
    ASSUME NEW x, QueueOK(x)
    PROVE  Queued(x) \subseteq Packet
BY ElementsInSet DEF QueueOK, QueueType, Queued

LEMMA QueuePrimed ==
    /\ QueueOK(queue') => QueueOK(queue)'
    /\ Queued(queue)' = Queued(queue')
BY DEF QueueOK, QueueType, Consistent, MarkedLastOut, Queued, IsPriority

\* A packet accepted into a buffer that was free or in hand.
LEMMA AcceptedIInv ==
    ASSUME IInv, NEW p \in Packet, p \notin Queued(queue), Accepts(queue, p),
           NEW b \in Buffer, b \in pool \cup heap \cup {hand},
           queue' = Enqueue(queue, p), buffer' = Filled(queue', p, b),
           pool' = (pool \ {b}) \cup BumpedBuffer(p), heap' = heap \ {b}, hand' = None
    PROVE  IInv'
<1> DEFINE Out == IF Bumps(queue, p) THEN {GetHead(queue)} ELSE {}
<1>1. /\ QueueOK(queue') /\ Out \subseteq Queued(queue)
      /\ Queued(queue') = (Queued(queue) \ Out) \cup {p}
  BY EnqueueOK DEF IInv
<1>2. BumpedBuffer(p) = {buffer[f] : f \in Out}
  BY DEF BumpedBuffer
<1> HIDE DEF Out
<1>3. /\ buffer' \in [Packet -> Buffer \cup {None}]
      /\ buffer'[p] = b
      /\ \A f \in Queued(queue) \ Out : buffer'[f] = buffer[f]
  BY <1>1, QueuedPackets DEF Filled, IInv
<1>4. /\ BumpedBuffer(p) \subseteq Buffer \ (pool \cup heap \cup {hand})
      /\ \A f \in Queued(queue) \ Out : buffer[f] \notin BumpedBuffer(p)
  BY <1>1, <1>2 DEF IInv
<1>5. /\ pool' \subseteq Buffer /\ heap' \subseteq Buffer /\ pool' \cap heap' = {}
      /\ hand' \in Buffer \cup {None} /\ hand' \notin pool' \cup heap'
      /\ b \notin pool' \cup heap' \cup {hand'}
  BY <1>4, BufferAssumption DEF IInv
<1>6. ASSUME NEW f \in Queued(queue')
      PROVE  buffer'[f] \in Buffer \ (pool' \cup heap' \cup {hand'})
  <2>1. CASE f = p
    BY <1>3, <1>5, <2>1
  <2>2. CASE f \in Queued(queue) \ Out
    <3>1. buffer[f] \in Buffer /\ buffer[f] \notin pool \cup heap
      BY <2>2 DEF IInv
    <3> QED
      BY <1>3, <1>4, <2>2, <3>1, BufferAssumption
  <2> QED
    BY <1>1, <2>1, <2>2
<1>7. ASSUME NEW f \in Queued(queue'), NEW g \in Queued(queue'), buffer'[f] = buffer'[g]
      PROVE  f = g
  <2>1. \A e \in Queued(queue) : buffer[e] # b
    BY DEF IInv
  <2>2. CASE f = p \/ g = p
    BY <1>1, <1>3, <1>7, <2>1, <2>2
  <2>3. CASE f \in Queued(queue) \ Out /\ g \in Queued(queue) \ Out
    BY <1>3, <1>7, <2>3 DEF IInv
  <2> QED
    BY <1>1, <2>2, <2>3
<1> QED
  BY <1>1, <1>3, <1>5, <1>6, <1>7, QueuePrimed DEF IInv

\* A packet dequeued, its buffer in hand or nowhere.
LEMMA DequeuedIInv ==
    ASSUME IInv, queue.list # << >>, hand = None,
           queue' = Dequeue(queue), buffer' = Filled(queue', None, None),
           pool' = pool, heap' = heap,
           hand' = None \/ hand' = buffer[PreviewPacket(queue)]
    PROVE  IInv'
<1> DEFINE p == PreviewPacket(queue)
<1>1. /\ QueueOK(queue') /\ p \in Queued(queue)
      /\ Queued(queue') = Queued(queue) \ {p}
  BY DequeueOK DEF IInv
<1> HIDE DEF p
<1>2. /\ buffer' \in [Packet -> Buffer \cup {None}]
      /\ \A f \in Queued(queue') : buffer'[f] = buffer[f]
  BY <1>1, QueuedPackets, NoneAssumption DEF Filled, IInv
<1>3. hand' \in Buffer \cup {None} /\ hand' \notin pool \cup heap
  BY <1>1, BufferAssumption DEF IInv, p
<1>4. \A f \in Queued(queue') : buffer'[f] \in Buffer \ (pool' \cup heap' \cup {hand'})
  BY <1>1, <1>2, BufferAssumption DEF IInv, p
<1>5. \A f, g \in Queued(queue') : buffer'[f] = buffer'[g] => f = g
  BY <1>1, <1>2 DEF IInv
<1> QED
  BY <1>1, <1>2, <1>3, <1>4, <1>5, QueuePrimed DEF IInv

\* Every operation keeps the invariant.
LEMMA NextIInv == IInv /\ [QueueNext]_queue_vars => IInv'
<1> SUFFICES ASSUME IInv, [QueueNext]_queue_vars PROVE IInv'
  OBVIOUS
<1>0. ASSUME UNCHANGED queue
      PROVE  QueueOK(queue)' /\ Queued(queue)' = Queued(queue)
  BY <1>0, QueuePrimed DEF IInv
<1>1. ASSUME NEW p \in Packet, NEW b \in Buffer, EnqueuePacket(p, b) PROVE IInv'
  <2>1. /\ hand = None /\ hand' = None /\ p \notin Queued(queue) /\ heap' = heap \ {b}
        /\ b \in pool \cup heap
    BY <1>1 DEF EnqueuePacket, GetPacket
  <2>2. CASE /\ Accepts(queue, p) /\ queue' = Enqueue(queue, p)
             /\ buffer' = Filled(queue', p, b) /\ pool' = (pool \ {b}) \cup BumpedBuffer(p)
    BY <2>1, <2>2, AcceptedIInv
  <2>3. CASE pool' = pool \cup {b} /\ UNCHANGED << queue, buffer >>
    BY <1>0, <2>1, <2>3, BufferAssumption DEF IInv
  <2> QED
    BY <1>1, <2>2, <2>3 DEF EnqueuePacket
<1>2. CASE DequeueToSend
  BY <1>2, DequeuedIInv DEF DequeueToSend
<1>3. CASE DequeueSent
  BY <1>3, DequeuedIInv DEF DequeueSent
<1>4. CASE PutBack
  BY <1>0, <1>4, BufferAssumption DEF PutBack, IInv
<1>5. ASSUME NEW p \in Packet, Replace(p) PROVE IInv'
  <2>1. /\ hand \in Buffer /\ hand' = None /\ p \notin Queued(queue)
        /\ heap' = heap \ {hand} /\ pool = pool \ {hand}
    BY <1>5 DEF Replace, IInv
  <2>2. CASE /\ Accepts(queue, p) /\ queue' = Enqueue(queue, p)
             /\ buffer' = Filled(queue', p, hand) /\ pool' = pool \cup BumpedBuffer(p)
    BY <2>1, <2>2, AcceptedIInv
  <2>3. CASE UNCHANGED << queue, buffer, pool >>
    BY <1>0, <2>1, <2>3, BufferAssumption DEF IInv
  <2> QED
    BY <1>5, <2>2, <2>3 DEF Replace
<1>6. ASSUME NEW l \in Limits, QueueCommand(l) PROVE IInv'
  <2>1. queue' = SetLimit(queue, l) /\ UNCHANGED << buffer, pool, heap, hand >> /\ l \in Int
    BY <1>6, QueueLimitsAssumption DEF QueueCommand
  <2>2. QueueOK(queue') /\ Queued(queue') = Queued(queue)
    BY <2>1, SetLimitOK DEF IInv
  <2> QED
    BY <2>1, <2>2, QueuePrimed DEF IInv
<1>7. CASE UNCHANGED queue_vars
  BY <1>0, <1>7 DEF queue_vars, IInv
<1> QED
  BY <1>1, <1>2, <1>3, <1>4, <1>5, <1>6, <1>7 DEF QueueNext

\* The invariant holds always.
LEMMA SpecIInv == QueueSpec => []IInv
BY InitIInv, NextIInv, PTL DEF QueueSpec

\* What a step does to the queue is what one of its methods does.
LEMMA QueueSteps ==
    ASSUME IInv, [QueueNext]_queue_vars
    PROVE  \/ \E p \in Packet : /\ p \notin Queued(queue) /\ Accepts(queue, p)
                                /\ queue' = Enqueue(queue, p)
           \/ queue.list # << >> /\ queue' = Dequeue(queue)
           \/ \E l \in Limits : queue' = SetLimit(queue, l)
           \/ queue' = queue
<1>1. ASSUME NEW p \in Packet, \/ \E b \in Buffer : EnqueuePacket(p, b)
                               \/ Replace(p)
      PROVE  \/ /\ p \notin Queued(queue) /\ Accepts(queue, p)
                /\ queue' = Enqueue(queue, p)
             \/ queue' = queue
  BY <1>1 DEF EnqueuePacket, Replace
<1>2. ASSUME DequeueToSend \/ DequeueSent
      PROVE  queue.list # << >> /\ queue' = Dequeue(queue)
  BY <1>2 DEF DequeueToSend, DequeueSent
<1>3. ASSUME NEW l \in Limits, QueueCommand(l) PROVE queue' = SetLimit(queue, l)
  BY <1>3 DEF QueueCommand
<1>4. ASSUME PutBack \/ UNCHANGED queue_vars PROVE queue' = queue
  BY <1>4 DEF PutBack, queue_vars
<1> QED
  BY <1>1, <1>2, <1>3, <1>4 DEF QueueNext

\* Type correctness of the queue and the places of the buffers, for any
\* packets, buffers and limits.
THEOREM TypeCorrect == QueueSpec => []QueueTypeOK
<1>1. IInv => QueueTypeOK
  BY DEF IInv, QueueTypeOK, QueueOK
<1> QED
  BY <1>1, SpecIInv, PTL

\* No sequence of EnqueuePacket (bumping, refused or not), of dequeuing by
\* OnPktCapture and OnTxTimeout and of limit changes puts two packets into one
\* buffer, leaves one in a buffer that may be filled again, links one twice, or
\* lets queue_length drift from the length of the list.
THEOREM BuffersAreHeldOnce == QueueSpec => []BufferHeldOnce
<1>1. IInv => BufferHeldOnce
  BY DEF IInv, BufferHeldOnce, QueueOK
<1> QED
  BY <1>1, SpecIInv, PTL

\* priority_index always is the last of the priority packets (smfQueue.cpp:42),
\* so the next one is inserted behind its peers and before all others.
THEOREM MarkIsAlwaysLastOut == QueueSpec => []MarkIsLastOut
<1>1. IInv => MarkIsLastOut
  BY DEF IInv, MarkIsLastOut, QueueOK
<1> QED
  BY <1>1, SpecIInv, PTL

\* EnqueuePacket refuses a priority packet only when the queue holds nothing
\* but priority packets: comparing the head with priority_index is enough.
THEOREM PriorityYieldsOnlyToPriority == QueueSpec => []PriorityRefusedOnlyByPriority
<1>1. IInv => PriorityRefusedOnlyByPriority
  <2> SUFFICES ASSUME IInv, NEW p \in PriorityPacket, ~Accepts(queue, p),
                      NEW i \in 1 .. Len(queue.list)
               PROVE  queue.list[i] \in PriorityPacket
    BY DEF PriorityRefusedOnlyByPriority, Queued
  <2>1. QueueOK(queue) /\ GetHead(queue) = queue.priority_index
    BY DEF IInv, Accepts, IsPriority
  <2>2. /\ Mark(queue) \in 0 .. Len(queue.list)
        /\ \A j \in 1 .. Len(queue.list) : IsPriority(queue.list[j]) <=> j <= Mark(queue)
        /\ queue.priority_index = None <=> Mark(queue) = 0
        /\ queue.priority_index # None => queue.list[Mark(queue)] = queue.priority_index
    BY <2>1, MarkPosition
  <2>3. /\ Len(queue.list) \in Nat /\ \A j \in 1 .. Len(queue.list) : queue.list[j] \in Packet
        /\ \A j, k \in 1 .. Len(queue.list) : queue.list[j] = queue.list[k] => j = k
    <3>1. queue.list \in Seq(Packet) /\ Consistent(queue)
      BY <2>1 DEF QueueOK, QueueType
    <3> QED
      BY <3>1, ElementsInSet DEF Consistent
  <2>4. queue.list # << >> /\ GetHead(queue) = queue.list[Len(queue.list)] /\ Len(queue.list) \in 1 .. Len(queue.list)
    BY <2>3 DEF GetHead
  <2>5. queue.priority_index # None
    BY <2>1, <2>3, <2>4, NoneAssumption
  <2>6. Mark(queue) = Len(queue.list)
    BY <2>1, <2>2, <2>3, <2>4, <2>5
  <2> QED
    BY <2>2, <2>6, <2>3 DEF IsPriority
<1> QED
  BY <1>1, SpecIInv, PTL

\* No step lengthens the queue beyond the limit in force, also after the limit
\* was lowered below the present length.
THEOREM QueueNeverGrowsPastLimit == QueueSpec => NeverGrowsPastLimit
<1>1. IInv /\ [QueueNext]_queue_vars =>
        [Len(queue'.list) > Len(queue.list) => queue.queue_limit < 0 \/ Len(queue'.list) <= queue.queue_limit]_queue_vars
  <2> SUFFICES ASSUME IInv, QueueNext, Len(queue'.list) > Len(queue.list)
               PROVE  queue.queue_limit < 0 \/ Len(queue'.list) <= queue.queue_limit
    OBVIOUS
  <2>0. /\ QueueOK(queue) /\ Len(queue.list) \in Nat /\ queue.list \in Seq(Packet)
        /\ queue.queue_length = Len(queue.list) /\ queue.queue_limit \in Int
    BY ElementsInSet DEF IInv, QueueOK, QueueType, Consistent
  <2>1. ASSUME NEW p \in Packet, p \notin Queued(queue), Accepts(queue, p),
               queue' = Enqueue(queue, p)
        PROVE  queue.queue_limit < 0 \/ Len(queue'.list) <= queue.queue_limit
    <3>1. p \notin Queued(queue) /\ Accepts(queue, p) /\ queue' = Enqueue(queue, p)
      BY <2>1
    <3>2. CASE AtLimit(queue)
      <4>1. IsPriority(p) /\ GetHead(queue) # queue.priority_index
        BY <3>1, <3>2 DEF Accepts
      <4>2. /\ QueueOK(RemoveHead(queue)) /\ Len(RemoveHead(queue).list) = Len(queue.list) - 1
            /\ p \notin Queued(RemoveHead(queue))
        BY <2>0, <3>1, <4>1, RemoveHeadOK
      <4>3. Len(EnqueuePriority(RemoveHead(queue), p).list) = (Len(queue.list) - 1) + 1
        BY <4>1, <4>2, EnqueuePriorityOK
      <4> QED
        BY <2>0, <3>1, <3>2, <4>1, <4>3 DEF Enqueue
    <3>3. CASE ~AtLimit(queue)
      <4>1. Len(queue'.list) = Len(queue.list) + 1
        <5>1. CASE IsPriority(p)
          BY <2>0, <3>1, <3>3, <5>1, EnqueuePriorityOK DEF Enqueue
        <5>2. CASE ~IsPriority(p)
          BY <2>0, <3>1, <3>3, <5>2, EnqueueNormalOK, AppendElements DEF Enqueue
        <5> QED
          BY <5>1, <5>2
      <4> QED
        BY <2>0, <3>3, <4>1 DEF AtLimit
    <3> QED
      BY <3>2, <3>3
  <2>2. ASSUME queue.list # << >>, queue' = Dequeue(queue) PROVE FALSE
    <3>1. queue.list # << >> /\ queue'.list = Tail(queue.list)
      BY <2>0, <2>2, DequeueOK
    <3>2. Len(queue'.list) = Len(queue.list) - 1
      BY <2>0, <3>1, TailElements
    <3> QED
      BY <2>0, <3>2
  <2>3. ASSUME NEW l \in Limits, queue' = SetLimit(queue, l) PROVE FALSE
    BY <2>0, <2>3 DEF SetLimit, Queue
  <2>4. queue' # queue
    BY <2>0
  <2> QED
    BY <2>1, <2>2, <2>3, <2>4, QueueSteps
<1> QED
  BY <1>1, SpecIInv, PTL DEF QueueSpec, NeverGrowsPastLimit

-----------------------------------------------------------------------------

High(x) == SubSeq(x.list, 1, Mark(x))
Low(x) == SubSeq(x.list, Mark(x) + 1, Len(x.list))

\* The list is its high part followed by its low part.
LEMMA HighLow ==
    ASSUME NEW x, QueueOK(x)
    PROVE  /\ Len(x.list) \in Nat /\ Mark(x) \in 0 .. Len(x.list)
           /\ High(x) \in Seq(Packet) /\ Low(x) \in Seq(Packet)
           /\ Len(High(x)) = Mark(x)
           /\ Len(Low(x)) = Len(x.list) - Mark(x)
           /\ \A i \in 1 .. Mark(x) : High(x)[i] = x.list[i]
           /\ \A i \in 1 .. Len(x.list) - Mark(x) : Low(x)[i] = x.list[Mark(x) + i]
<1> DEFINE n == Len(x.list)
           m == Mark(x)
<1>1. n \in Nat /\ \A i \in 1 .. n : x.list[i] \in Packet
  BY ElementsInSet DEF QueueOK, QueueType
<1>2. m \in 0 .. n
  BY MarkPosition
<1> HIDE DEF n, m
<1>3. /\ SubSeq(x.list, 1, m) \in Seq(Packet)
      /\ Len(SubSeq(x.list, 1, m)) = IF 1 <= m THEN m - 1 + 1 ELSE 0
      /\ \A i \in 1 .. m - 1 + 1 : SubSeq(x.list, 1, m)[i] = x.list[1 + i - 1]
  <2>1. \A i \in 1 .. m : x.list[i] \in Packet
    BY <1>1, <1>2
  <2> QED
    BY <1>1, <1>2, <2>1, SubSeqProperties
<1>4. /\ SubSeq(x.list, m + 1, n) \in Seq(Packet)
      /\ Len(SubSeq(x.list, m + 1, n)) = IF m + 1 <= n THEN n - (m + 1) + 1 ELSE 0
      /\ \A i \in 1 .. n - (m + 1) + 1 : SubSeq(x.list, m + 1, n)[i] = x.list[(m + 1) + i - 1]
  <2>1. \A i \in m + 1 .. n : x.list[i] \in Packet
    BY <1>1, <1>2
  <2> QED
    BY <1>1, <1>2, <2>1, SubSeqProperties
<1>5. /\ Len(SubSeq(x.list, 1, m)) = m
      /\ \A i \in 1 .. m : SubSeq(x.list, 1, m)[i] = x.list[i]
  BY <1>1, <1>2, <1>3
<1>6. /\ Len(SubSeq(x.list, m + 1, n)) = n - m
      /\ \A i \in 1 .. n - m : SubSeq(x.list, m + 1, n)[i] = x.list[m + i]
  BY <1>1, <1>2, <1>4
<1> QED
  BY <1>1, <1>2, <1>3, <1>4, <1>5, <1>6 DEF n, m, High, Low

\* A priority packet joins the high queue and leaves the low one alone.
LEMMA EnqueuePriorityHighLow ==
    ASSUME NEW x, QueueOK(x), NEW p \in Packet, IsPriority(p), p \notin Queued(x)
    PROVE  /\ High(EnqueuePriority(x, p)) = Append(High(x), p)
           /\ Low(EnqueuePriority(x, p)) = Low(x)
<1> DEFINE y == EnqueuePriority(x, p)
           n == Len(x.list)
           m == Mark(x)
<1>1. /\ QueueOK(y) /\ Mark(y) = m + 1 /\ Len(y.list) = n + 1
      /\ \A i \in 1 .. n + 1 :
            y.list[i] = IF i <= m THEN x.list[i] ELSE IF i = m + 1 THEN p ELSE x.list[i - 1]
  BY EnqueuePriorityOK
<1> HIDE DEF y
<1>2. /\ n \in Nat /\ m \in 0 .. n
      /\ High(x) \in Seq(Packet) /\ Low(x) \in Seq(Packet)
      /\ Len(High(x)) = m /\ Len(Low(x)) = n - m
      /\ \A i \in 1 .. m : High(x)[i] = x.list[i]
      /\ \A i \in 1 .. n - m : Low(x)[i] = x.list[m + i]
  BY HighLow
<1>3. /\ High(y) \in Seq(Packet) /\ Low(y) \in Seq(Packet)
      /\ Len(High(y)) = m + 1 /\ Len(Low(y)) = n - m
      /\ \A i \in 1 .. m + 1 : High(y)[i] = y.list[i]
      /\ \A i \in 1 .. n - m : Low(y)[i] = y.list[(m + 1) + i]
  <2>1. /\ High(y) \in Seq(Packet) /\ Low(y) \in Seq(Packet)
        /\ Len(High(y)) = Mark(y) /\ Len(Low(y)) = Len(y.list) - Mark(y)
        /\ \A i \in 1 .. Mark(y) : High(y)[i] = y.list[i]
        /\ \A i \in 1 .. Len(y.list) - Mark(y) : Low(y)[i] = y.list[Mark(y) + i]
    BY <1>1, HighLow
  <2>2. Len(y.list) - Mark(y) = n - m
    BY <1>1, <1>2
  <2> QED
    BY <1>1, <2>1, <2>2
<1> HIDE DEF n, m
<1>4. High(y) = Append(High(x), p)
  <2>1. /\ Append(High(x), p) \in Seq(Packet) /\ Len(Append(High(x), p)) = m + 1
        /\ \A i \in 1 .. m + 1 : Append(High(x), p)[i] = IF i = m + 1 THEN p ELSE High(x)[i]
    BY <1>2, AppendElements
  <2>2. ASSUME NEW i \in 1 .. m + 1 PROVE High(y)[i] = Append(High(x), p)[i]
    <3>1. CASE i = m + 1
      <4>1. y.list[i] = p
        BY <1>1, <1>2, <3>1
      <4> QED
        BY <1>3, <2>1, <3>1, <4>1
    <3>2. CASE i \in 1 .. m
      <4>1. y.list[i] = x.list[i]
        BY <1>1, <1>2, <3>2
      <4>2. Append(High(x), p)[i] = High(x)[i]
        BY <1>2, <2>1, <3>2
      <4>3. High(y)[i] = y.list[i]
        BY <1>3
      <4> QED
        BY <1>2, <3>2, <4>1, <4>2, <4>3
    <3> QED
      BY <1>2, <3>1, <3>2
  <2> QED
    BY <1>3, <2>1, <2>2, SeqEqual
<1>5. Low(y) = Low(x)
  <2>1. ASSUME NEW i \in 1 .. n - m PROVE Low(y)[i] = Low(x)[i]
    <3>1. (m + 1) + i \in 1 .. n + 1 /\ (m + 1) + i > m + 1 /\ ((m + 1) + i) - 1 = m + i
      BY <1>2
    <3>2. y.list[(m + 1) + i] = x.list[m + i]
      BY <1>1, <1>2, <3>1
    <3>3. Low(y)[i] = y.list[(m + 1) + i]
      BY <1>2, <1>3
    <3> QED
      BY <1>2, <3>2, <3>3
  <2>2. Len(Low(y)) = n - m
    BY <1>2, <1>3
  <2> QED
    BY <1>2, <1>3, <2>1, <2>2, SeqEqual
<1> QED
  BY <1>4, <1>5 DEF y

\* A bump takes the newest packet of the low queue.
LEMMA RemoveHeadHighLow ==
    ASSUME NEW x, QueueOK(x), GetHead(x) # x.priority_index
    PROVE  /\ High(RemoveHead(x)) = High(x)
           /\ Low(x) # << >>
           /\ Low(RemoveHead(x)) = SubSeq(Low(x), 1, Len(Low(x)) - 1)
<1> DEFINE y == RemoveHead(x)
           n == Len(x.list)
           m == Mark(x)
<1>1. /\ QueueOK(y) /\ Mark(y) = m /\ Len(y.list) = n - 1
      /\ \A i \in 1 .. n - 1 : y.list[i] = x.list[i]
  BY RemoveHeadOK
<1> HIDE DEF y
<1>2. /\ n \in Nat /\ m \in 0 .. n
      /\ High(x) \in Seq(Packet) /\ Low(x) \in Seq(Packet)
      /\ Len(High(x)) = m /\ Len(Low(x)) = n - m
      /\ \A i \in 1 .. m : High(x)[i] = x.list[i]
      /\ \A i \in 1 .. n - m : Low(x)[i] = x.list[m + i]
  BY HighLow
<1>3. /\ Len(y.list) \in Nat /\ Mark(y) \in 0 .. Len(y.list)
      /\ High(y) \in Seq(Packet) /\ Low(y) \in Seq(Packet)
      /\ Len(High(y)) = Mark(y) /\ Len(Low(y)) = Len(y.list) - Mark(y)
      /\ \A i \in 1 .. Mark(y) : High(y)[i] = y.list[i]
      /\ \A i \in 1 .. Len(y.list) - Mark(y) : Low(y)[i] = y.list[Mark(y) + i]
  BY <1>1, HighLow
<1> HIDE DEF n, m
<1>4. /\ m \in 0 .. n - 1 /\ Len(High(y)) = m /\ Len(Low(y)) = n - m - 1
      /\ \A i \in 1 .. m : High(y)[i] = y.list[i]
      /\ \A i \in 1 .. n - m - 1 : Low(y)[i] = y.list[m + i]
  <2>1. Len(y.list) - Mark(y) = n - m - 1
    BY <1>1, <1>2
  <2> QED
    BY <1>1, <1>2, <1>3, <2>1
<1>5. High(y) = High(x)
  <2>1. ASSUME NEW i \in 1 .. m PROVE High(y)[i] = High(x)[i]
    <3>1. i \in 1 .. n - 1
      BY <1>2, <1>4
    <3> QED
      BY <1>1, <1>2, <1>4, <3>1
  <2>2. /\ High(y) \in Seq(Packet) /\ High(x) \in Seq(Packet) /\ Len(High(y)) = Len(High(x))
        /\ \A i \in 1 .. Len(High(y)) : High(y)[i] = High(x)[i]
    BY <1>2, <1>3, <1>4, <2>1
  <2> QED
    BY <2>2, SeqEqual
<1>6. Low(x) # << >>
  BY <1>2, <1>4
<1>7. Low(y) = SubSeq(Low(x), 1, Len(Low(x)) - 1)
  <2> DEFINE t == SubSeq(Low(x), 1, Len(Low(x)) - 1)
  <2>1. /\ t \in Seq(Packet) /\ Len(t) = Len(Low(x)) - 1
        /\ \A i \in 1 .. Len(Low(x)) - 1 : t[i] = Low(x)[i]
    BY <1>2, <1>6, FrontElements
  <2> HIDE DEF t
  <2>2. ASSUME NEW i \in 1 .. n - m - 1 PROVE Low(y)[i] = t[i]
    <3>1. i \in 1 .. n - m /\ m + i \in 1 .. n - 1 /\ i \in 1 .. Len(Low(x)) - 1
      BY <1>2, <1>4
    <3>2. Low(y)[i] = y.list[m + i]
      BY <1>4
    <3> QED
      BY <1>1, <1>2, <2>1, <3>1, <3>2
  <2>3. Len(t) = n - m - 1
    BY <1>2, <2>1
  <2>4. Low(y) = t
    BY <1>3, <1>4, <2>1, <2>2, <2>3, SeqEqual
  <2> QED
    BY <2>4 DEF t
<1> QED
  BY <1>5, <1>6, <1>7 DEF y

\* Any other packet goes to the end of the low queue.
LEMMA EnqueueNormalHighLow ==
    ASSUME NEW x, QueueOK(x), NEW p \in Packet, ~IsPriority(p), p \notin Queued(x)
    PROVE  /\ High(EnqueueNormal(x, p)) = High(x)
           /\ Low(EnqueueNormal(x, p)) = Append(Low(x), p)
<1> DEFINE y == EnqueueNormal(x, p)
           n == Len(x.list)
           m == Mark(x)
<1>1. QueueOK(y) /\ Mark(y) = m /\ y.list = Append(x.list, p) /\ x.list \in Seq(Packet)
  BY EnqueueNormalOK DEF QueueOK, QueueType
<1> HIDE DEF y
<1>2. /\ n \in Nat /\ m \in 0 .. n
      /\ High(x) \in Seq(Packet) /\ Low(x) \in Seq(Packet)
      /\ Len(High(x)) = m /\ Len(Low(x)) = n - m
      /\ \A i \in 1 .. m : High(x)[i] = x.list[i]
      /\ \A i \in 1 .. n - m : Low(x)[i] = x.list[m + i]
  BY HighLow
<1>3. /\ Len(y.list) = n + 1
      /\ \A i \in 1 .. n + 1 : y.list[i] = IF i = n + 1 THEN p ELSE x.list[i]
  BY <1>1, AppendElements
<1>4. /\ Len(y.list) \in Nat /\ Mark(y) \in 0 .. Len(y.list)
      /\ High(y) \in Seq(Packet) /\ Low(y) \in Seq(Packet)
      /\ Len(High(y)) = Mark(y) /\ Len(Low(y)) = Len(y.list) - Mark(y)
      /\ \A i \in 1 .. Mark(y) : High(y)[i] = y.list[i]
      /\ \A i \in 1 .. Len(y.list) - Mark(y) : Low(y)[i] = y.list[Mark(y) + i]
  BY <1>1, HighLow
<1> HIDE DEF n, m
<1>5. /\ Len(High(y)) = m /\ Len(Low(y)) = n - m + 1
      /\ \A i \in 1 .. m : High(y)[i] = y.list[i]
      /\ \A i \in 1 .. n - m + 1 : Low(y)[i] = y.list[m + i]
  <2>1. Len(y.list) - Mark(y) = n - m + 1
    BY <1>1, <1>2, <1>3
  <2> QED
    BY <1>1, <1>4, <2>1
<1>6. High(y) = High(x)
  <2>1. ASSUME NEW i \in 1 .. m PROVE High(y)[i] = High(x)[i]
    <3>1. i \in 1 .. n + 1 /\ i # n + 1
      BY <1>2
    <3> QED
      BY <1>2, <1>3, <1>5, <3>1
  <2> QED
    <3>1. /\ High(y) \in Seq(Packet) /\ High(x) \in Seq(Packet) /\ Len(High(y)) = Len(High(x))
          /\ \A i \in 1 .. Len(High(y)) : High(y)[i] = High(x)[i]
      BY <1>2, <1>4, <1>5, <2>1
    <3> QED
      BY <3>1, SeqEqual
<1>7. Low(y) = Append(Low(x), p)
  <2> DEFINE t == Append(Low(x), p)
  <2>1. /\ t \in Seq(Packet) /\ Len(t) = n - m + 1
        /\ \A i \in 1 .. n - m + 1 : t[i] = IF i = n - m + 1 THEN p ELSE Low(x)[i]
    <3>1. /\ t \in Seq(Packet) /\ Len(t) = Len(Low(x)) + 1
          /\ \A i \in 1 .. Len(Low(x)) + 1 : t[i] = IF i = Len(Low(x)) + 1 THEN p ELSE Low(x)[i]
      <4>1. Low(x) \in Seq(Packet)
        BY <1>2
      <4> HIDE DEF Low
      <4> QED
        BY <4>1, AppendElements
    <3> HIDE DEF t
    <3> QED
      BY <1>2, <3>1
  <2> HIDE DEF t
  <2>2. ASSUME NEW i \in 1 .. n - m + 1 PROVE Low(y)[i] = t[i]
    <3>1. m + i \in 1 .. n + 1 /\ Low(y)[i] = y.list[m + i]
      BY <1>2, <1>5
    <3>2. CASE i = n - m + 1
      <4>1. m + i = n + 1
        BY <1>2, <3>2
      <4> QED
        BY <1>3, <2>1, <3>1, <3>2, <4>1
    <3>3. CASE i # n - m + 1
      <4>1. i \in 1 .. n - m /\ m + i # n + 1
        BY <1>2, <3>3
      <4> QED
        BY <1>2, <1>3, <2>1, <3>1, <3>3, <4>1
    <3> QED
      BY <3>2, <3>3
  <2>3. Low(y) = t
    BY <1>4, <1>5, <2>1, <2>2, SeqEqual
  <2> QED
    BY <2>3 DEF t
<1> QED
  BY <1>6, <1>7 DEF y

\* The high queue is served first.
LEMMA DequeueHighLow ==
    ASSUME NEW x, QueueOK(x), x.list # << >>
    PROVE  \/ /\ High(x) # << >> /\ High(Dequeue(x)) = Tail(High(x))
              /\ Low(Dequeue(x)) = Low(x)
           \/ /\ High(x) = << >> /\ High(Dequeue(x)) = High(x)
              /\ Low(x) # << >> /\ Low(Dequeue(x)) = Tail(Low(x))
<1> DEFINE y == Dequeue(x)
           n == Len(x.list)
           m == Mark(x)
           k == IF m = 0 THEN 0 ELSE m - 1
<1>1. QueueOK(y) /\ Mark(y) = k /\ y.list = Tail(x.list) /\ x.list \in Seq(Packet)
  BY DequeueOK DEF QueueOK, QueueType
<1> HIDE DEF y
<1>2. /\ n \in Nat /\ n # 0 /\ m \in 0 .. n
      /\ High(x) \in Seq(Packet) /\ Low(x) \in Seq(Packet)
      /\ Len(High(x)) = m /\ Len(Low(x)) = n - m
      /\ \A i \in 1 .. m : High(x)[i] = x.list[i]
      /\ \A i \in 1 .. n - m : Low(x)[i] = x.list[m + i]
  BY <1>1, HighLow
<1>3. Len(y.list) = n - 1 /\ \A i \in 1 .. n - 1 : y.list[i] = x.list[i + 1]
  BY <1>1, TailElements
<1>4. /\ Len(y.list) \in Nat /\ Mark(y) \in 0 .. Len(y.list)
      /\ High(y) \in Seq(Packet) /\ Low(y) \in Seq(Packet)
      /\ Len(High(y)) = Mark(y) /\ Len(Low(y)) = Len(y.list) - Mark(y)
      /\ \A i \in 1 .. Mark(y) : High(y)[i] = y.list[i]
      /\ \A i \in 1 .. Len(y.list) - Mark(y) : Low(y)[i] = y.list[Mark(y) + i]
  BY <1>1, HighLow
<1> HIDE DEF n, m
<1>5. CASE m # 0
  <2>1. High(x) # << >> /\ k = m - 1 /\ Len(y.list) - Mark(y) = n - m
    <3>1. k = m - 1
      BY <1>5
    <3>2. High(x) # << >>
      BY <1>2, <1>5
    <3>3. Mark(y) = m - 1 /\ Len(y.list) = n - 1
      BY <1>1, <1>3, <3>1
    <3>4. Len(y.list) - Mark(y) = n - m
      BY <1>2, <3>3
    <3> QED
      BY <3>1, <3>2, <3>4
  <2>2. /\ Len(High(y)) = m - 1 /\ Len(Low(y)) = n - m
        /\ \A i \in 1 .. m - 1 : High(y)[i] = y.list[i]
        /\ \A i \in 1 .. n - m : Low(y)[i] = y.list[(m - 1) + i]
    BY <1>1, <1>4, <2>1
  <2>3. /\ Tail(High(x)) \in Seq(Packet) /\ Len(Tail(High(x))) = m - 1
        /\ \A i \in 1 .. m - 1 : Tail(High(x))[i] = High(x)[i + 1]
    BY <1>2, <2>1, TailElements
  <2>4. ASSUME NEW i \in 1 .. m - 1 PROVE High(y)[i] = Tail(High(x))[i]
    <3>1. i \in 1 .. n - 1 /\ i + 1 \in 1 .. m
      BY <1>2
    <3>2. High(y)[i] = y.list[i] /\ Tail(High(x))[i] = High(x)[i + 1]
      BY <2>2, <2>3
    <3>3. y.list[i] = x.list[i + 1] /\ High(x)[i + 1] = x.list[i + 1]
      BY <1>2, <1>3, <3>1
    <3> QED
      BY <3>2, <3>3
  <2>5. ASSUME NEW i \in 1 .. n - m PROVE Low(y)[i] = Low(x)[i]
    <3>1. (m - 1) + i \in 1 .. n - 1 /\ ((m - 1) + i) + 1 = m + i
      BY <1>2, <1>5
    <3>2. y.list[(m - 1) + i] = x.list[((m - 1) + i) + 1]
      BY <1>3, <3>1
    <3> QED
      BY <1>2, <2>2, <3>1, <3>2
  <2>6. High(y) = Tail(High(x))
    BY <1>4, <2>2, <2>3, <2>4, SeqEqual
  <2>7. Low(y) = Low(x)
    BY <1>2, <1>4, <2>2, <2>5, SeqEqual
  <2> QED
    BY <2>1, <2>6, <2>7 DEF y
<1>6. CASE m = 0
  <2>1. High(x) = << >> /\ k = 0 /\ Low(x) # << >> /\ Len(y.list) - Mark(y) = n - 1
    BY <1>1, <1>2, <1>3, <1>6
  <2>2. /\ Len(High(y)) = 0 /\ Len(Low(y)) = n - 1
        /\ \A i \in 1 .. n - 1 : Low(y)[i] = y.list[0 + i]
    BY <1>1, <1>4, <2>1
  <2>3. High(y) = High(x)
    BY <1>4, <2>1, <2>2
  <2>4. /\ Tail(Low(x)) \in Seq(Packet) /\ Len(Tail(Low(x))) = n - 1
        /\ \A i \in 1 .. n - 1 : Tail(Low(x))[i] = Low(x)[i + 1]
    <3>1. Len(Low(x)) = n
      BY <1>2, <1>6
    <3> QED
      BY <1>2, <2>1, <3>1, TailElements
  <2>5. ASSUME NEW i \in 1 .. n - 1 PROVE Low(y)[i] = Tail(Low(x))[i]
    <3>1. i + 1 \in 1 .. n - m /\ 0 + i = i /\ m + (i + 1) = i + 1
      BY <1>2, <1>6
    <3>2. Low(x)[i + 1] = x.list[i + 1]
      BY <1>2, <3>1
    <3> QED
      BY <1>3, <2>2, <2>4, <3>1, <3>2
  <2>6. Low(y) = Tail(Low(x))
    BY <1>4, <2>2, <2>4, <2>5, SeqEqual
  <2> QED
    BY <2>1, <2>3, <2>6 DEF y
<1> QED
  BY <1>5, <1>6

\* The lengths of both queues add up to the count the code keeps.
LEMMA FifoAtLimit == IInv => (Fifo!AtLimit <=> AtLimit(queue))
<1> SUFFICES ASSUME IInv PROVE Fifo!AtLimit <=> AtLimit(queue)
  OBVIOUS
<1>1. QueueOK(queue)
  BY DEF IInv
<1>2. /\ Len(queue.list) \in Nat /\ Mark(queue) \in 0 .. Len(queue.list)
      /\ Len(High(queue)) = Mark(queue) /\ Len(Low(queue)) = Len(queue.list) - Mark(queue)
  BY <1>1, HighLow
<1>3. queue.queue_length = Len(queue.list)
  BY <1>1 DEF QueueOK, Consistent
<1>4. Len(High(queue)) + Len(Low(queue)) = queue.queue_length
  BY <1>2, <1>3
<1> QED
  BY <1>4 DEF Fifo!AtLimit, AtLimit, High, Low

IInvLimit == IInv /\ queue.queue_limit \in Limits

\* The limit in force always is one of those that were set.
LEMMA SpecIInvLimit == QueueSpec => []IInvLimit
<1>1. QueueInit => IInvLimit
  BY InitIInv DEF IInvLimit, QueueInit, EmptyQueue, Queue
<1>2. IInvLimit /\ [QueueNext]_queue_vars => IInvLimit'
  <2> SUFFICES ASSUME IInvLimit, [QueueNext]_queue_vars PROVE queue'.queue_limit \in Limits
    BY NextIInv DEF IInvLimit
  <2>1. ASSUME NEW p \in Packet, p \notin Queued(queue), Accepts(queue, p),
               queue' = Enqueue(queue, p)
        PROVE  queue'.queue_limit = queue.queue_limit
    BY <2>1, EnqueueOK DEF IInvLimit, IInv
  <2>2. ASSUME queue.list # << >>, queue' = Dequeue(queue)
        PROVE  queue'.queue_limit = queue.queue_limit
    BY <2>2, DequeueOK DEF IInvLimit, IInv
  <2>3. ASSUME NEW l \in Limits, queue' = SetLimit(queue, l) PROVE queue'.queue_limit = l
    BY <2>3 DEF SetLimit, Queue
  <2> QED
    BY <2>1, <2>2, <2>3, QueueSteps DEF IInvLimit
<1> QED
  BY <1>1, <1>2, PTL DEF QueueSpec

\* The list with one mark implements two FIFOs of which the high one is served
\* first and pushes packets out of the low one (smfQueue.cpp:41).
THEOREM QueueImplementsPriorityFifo == QueueSpec => ImplementsPriorityFifo
<1> USE DEF High, Low
<1>1. QueueInit => Fifo!Init
  <2> SUFFICES ASSUME QueueInit PROVE Fifo!Init
    OBVIOUS
  <2>1. PICK l \in Limits : queue = EmptyQueue(l)
    BY DEF QueueInit
  <2>2. queue.list = << >> /\ queue.queue_limit = l
    BY <2>1 DEF EmptyQueue, Queue
  <2>3. QueueOK(queue)
    BY InitIInv DEF IInv
  <2>4. High(queue) \in Seq(Packet) /\ Low(queue) \in Seq(Packet) /\ Len(High(queue)) = 0 /\ Len(Low(queue)) = 0
    <3>1. Len(queue.list) = 0
      BY <2>2
    <3> QED
      BY <2>3, <3>1, HighLow
  <2>5. High(queue) = << >> /\ Low(queue) = << >>
    BY <2>4
  <2> QED
    BY <2>2, <2>5 DEF Fifo!Init
<1>2. IInv /\ [QueueNext]_queue_vars => [Fifo!Next]_Fifo!vars
  <2> SUFFICES ASSUME IInv, [QueueNext]_queue_vars PROVE [Fifo!Next]_Fifo!vars
    OBVIOUS
  <2>0. QueueOK(queue)
    BY DEF IInv
  <2>1. ASSUME NEW p \in Packet, p \notin Queued(queue), Accepts(queue, p),
               queue' = Enqueue(queue, p)
        PROVE  Fifo!Next
    <3>1. p \notin Queued(queue) /\ Accepts(queue, p) /\ queue' = Enqueue(queue, p)
      BY <2>1
    <3>2. queue'.queue_limit = queue.queue_limit
      BY <2>0, <3>1, EnqueueOK
    <3>3. CASE ~IsPriority(p)
      <4>1. queue' = EnqueueNormal(queue, p) /\ ~AtLimit(queue)
        BY <3>1, <3>3 DEF Enqueue, Accepts
      <4>2. High(queue') = High(queue) /\ Low(queue') = Append(Low(queue), p)
        BY <2>0, <3>1, <3>3, <4>1, EnqueueNormalHighLow
      <4>3. Fifo!PutLow(p)
        BY <3>2, <4>1, <4>2, FifoAtLimit DEF Fifo!PutLow, Mark
      <4> QED
        BY <3>3, <4>3 DEF Fifo!Next, IsPriority
    <3>4. CASE IsPriority(p) /\ ~AtLimit(queue)
      <4>1. queue' = EnqueuePriority(queue, p)
        BY <3>1, <3>4 DEF Enqueue
      <4>2. High(queue') = Append(High(queue), p) /\ Low(queue') = Low(queue)
        BY <2>0, <3>1, <3>4, <4>1, EnqueuePriorityHighLow
      <4>3. Fifo!PutHigh(p)
        BY <3>2, <3>4, <4>2, FifoAtLimit DEF Fifo!PutHigh, Mark
      <4> QED
        BY <3>4, <4>3 DEF Fifo!Next, IsPriority
    <3>5. CASE IsPriority(p) /\ AtLimit(queue)
      <4> DEFINE r == RemoveHead(queue)
      <4>1. queue' = EnqueuePriority(r, p) /\ GetHead(queue) # queue.priority_index
        BY <3>1, <3>5 DEF Enqueue, Accepts
      <4>2. QueueOK(r) /\ p \notin Queued(r)
        BY <2>0, <3>1, <4>1, RemoveHeadOK
      <4>3. /\ High(r) = High(queue) /\ Low(queue) # << >>
            /\ Low(r) = SubSeq(Low(queue), 1, Len(Low(queue)) - 1)
        BY <2>0, <4>1, RemoveHeadHighLow
      <4> HIDE DEF r
      <4>4. High(queue') = Append(High(r), p) /\ Low(queue') = Low(r)
        BY <3>5, <4>1, <4>2, EnqueuePriorityHighLow
      <4>5. Fifo!PutHigh(p)
        <5> HIDE DEF High, Low
        <5>1. /\ High(queue') = Append(High(queue), p)
              /\ Fifo!AtLimit /\ Low(queue) # << >>
              /\ Low(queue') = SubSeq(Low(queue), 1, Len(Low(queue)) - 1)
          BY <3>5, <4>3, <4>4, FifoAtLimit
        <5> QED
          BY <3>2, <5>1 DEF Fifo!PutHigh, Mark, High, Low
      <4> QED
        BY <3>5, <4>5 DEF Fifo!Next, IsPriority
    <3> QED
      BY <3>3, <3>4, <3>5
  <2>2. CASE queue.list # << >> /\ queue' = Dequeue(queue)
    <3>1. queue.list # << >> /\ queue' = Dequeue(queue)
      BY <2>2
    <3>2. queue'.queue_limit = queue.queue_limit
      BY <2>0, <3>1, DequeueOK
    <3>3. /\ High(queue) # << >> => High(queue') = Tail(High(queue)) /\ Low(queue') = Low(queue)
          /\ High(queue) = << >> => High(queue') = High(queue) /\ Low(queue) # << >> /\ Low(queue') = Tail(Low(queue))
      BY <2>0, <3>1, DequeueHighLow
    <3>4. Fifo!Take
      BY <2>0, <3>1, <3>2, <3>3, DequeueHighLow DEF Fifo!Take, Mark
    <3> QED
      BY <3>4 DEF Fifo!Next
  <2>3. ASSUME NEW l \in Limits, queue' = SetLimit(queue, l) PROVE Fifo!Next
    <3>1. queue' = SetLimit(queue, l) /\ l \in Int
      BY <2>3, QueueLimitsAssumption
    <3>2. queue'.list = queue.list /\ queue'.queue_limit = l /\ Mark(queue') = Mark(queue)
      BY <2>0, <3>1, SetLimitOK
    <3>3. Fifo!SetLimit(l)
      BY <3>2 DEF Fifo!SetLimit, Mark
    <3> QED
      BY <3>3 DEF Fifo!Next
  <2>4. CASE queue' = queue
    BY <2>4 DEF Fifo!vars, Mark
  <2> QED
    BY <2>1, <2>2, <2>3, <2>4, QueueSteps
<1> QED
  BY <1>1, <1>2, SpecIInv, PTL DEF QueueSpec, ImplementsPriorityFifo, Fifo!Spec

-----------------------------------------------------------------------------
\* The transmit scheduler

-----------------------------------------------------------------------------
\* Wake-ups

\* Why no wake-up is lost: outside OnPktCapture's loop a queued frame always
\* finds the interface blocked, and "blocked" is what the three wake-ups and
\* the stopped rate have in common.  Inside the loop the queue may hold
\* frames with nothing armed; the loop ends only when it is empty or blocked.
WakeupInv ==
    /\ ~(timer /\ output)
    /\ rate = 0 => ~timer
    /\ handler = "OnPktCapture" => rate # 0
    /\ handler # "OnPktCapture" /\ q.list # << >> => Blocked

LEMMA InitWakeup == Init => WakeupInv
BY DEF Init, WakeupInv, EmptyQueue, Queue

\* A frame SendFrame leaves in the queue finds the interface blocked.
LEMMA SendFrameBlocks ==
    ASSUME NEW x, NEW f, SendFrame(x, f), UNCHANGED rate,
           ~(timer /\ output), rate = 0 => ~timer
    PROVE  /\ ~(timer' /\ output')
           /\ rate' = 0 => ~timer'
           /\ q' # x => Blocked'
<1>1. CASE Blocked /\ QueueOrDrop(x, f) /\ UNCHANGED << timer, output, sent >>
  BY <1>1 DEF Blocked
<1>2. CASE ~Blocked /\ timer' = (rate > 0) /\ q' = x /\ UNCHANGED << output, dropped >>
  BY <1>2 DEF Blocked
<1>3. CASE ~Blocked /\ output' = TRUE /\ QueueOrDrop(x, f) /\ UNCHANGED << timer, sent >>
  BY <1>3 DEF Blocked
<1>4. CASE ~Blocked /\ timer' = TRUE /\ QueueOrDrop(x, f) /\ UNCHANGED << output, sent >>
  BY <1>4 DEF Blocked
<1> QED
  BY <1>1, <1>2, <1>3, <1>4 DEF SendFrame

LEMMA NextWakeup == WakeupInv /\ [Next]_vars => WakeupInv'
<1> SUFFICES ASSUME WakeupInv, [Next]_vars PROVE WakeupInv'
  OBVIOUS
<1> USE DEF WakeupInv
<1>1. ASSUME NEW f \in Packet, HostWrites(f) PROVE WakeupInv'
  BY <1>1 DEF HostWrites, Blocked
<1>2. ASSUME NEW f \in Packet, ForwardFrame(f) PROVE WakeupInv'
  <2>1. ~(timer' /\ output') /\ (rate' = 0 => ~timer') /\ (q' # q => Blocked')
    BY <1>2, SendFrameBlocks DEF ForwardFrame
  <2>2. Blocked => Blocked'
    BY <1>2 DEF ForwardFrame, SendFrame, Blocked
  <2> QED
    BY <1>2, <2>1, <2>2 DEF ForwardFrame
<1>3. CASE OnPktOutput
  <2>1. ~(timer' /\ output') /\ (rate' = 0 => ~timer') /\ (q' # q => Blocked')
    BY <1>3, SendFrameBlocks DEF OnPktOutput
  <2>2. Blocked => Blocked'
    BY <1>3 DEF OnPktOutput, SendFrame, Blocked
  <2> QED
    BY <1>3, <2>1, <2>2 DEF OnPktOutput
<1>4. CASE OnPktOutputEnd
  BY <1>4 DEF OnPktOutputEnd, Blocked
<1>5. CASE OnPktCapture
  BY <1>5 DEF OnPktCapture, Blocked
<1>6. CASE SendQueued
  <2>1. ~(timer' /\ output') /\ (rate' = 0 => ~timer')
    BY <1>6, SendFrameBlocks DEF SendQueued
  <2> QED
    BY <1>6, <2>1 DEF SendQueued
<1>7. CASE OnPktCaptureEnd
  BY <1>7 DEF OnPktCaptureEnd, Blocked
<1>8. CASE OnErrorTimeout
  BY <1>8 DEF OnErrorTimeout, Blocked
<1>9. CASE OnTxTimeoutQueued
  <2>1. handler = "idle" /\ timer /\ handler' = handler /\ rate' = rate
    BY <1>9 DEF OnTxTimeoutQueued
  <2>2. \/ timer' = timer /\ output' = output
        \/ timer' = FALSE /\ output' = TRUE
    BY <1>9 DEF OnTxTimeoutQueued
  <2>3. ~(timer' /\ output') /\ (rate' = 0 => ~timer')
    <3>1. CASE timer' = timer /\ output' = output
      BY <2>1, <3>1, Zenon
    <3>2. CASE timer' = FALSE /\ output' = TRUE
      BY <3>2
    <3> QED
      BY <2>2, <3>1, <3>2
  <2>4. Blocked'
    BY <2>1, <2>2 DEF Blocked
  <2> QED
    BY <2>1, <2>3, <2>4
<1>10. CASE OnTxTimeoutVif
  <2>1. handler = "idle" /\ timer /\ handler' = handler /\ rate' = rate
    BY <1>10 DEF OnTxTimeoutVif
  <2>2. \/ timer' = timer /\ output' = output
        \/ timer' = FALSE /\ output' = TRUE
    BY <1>10 DEF OnTxTimeoutVif
  <2>3. ~(timer' /\ output') /\ (rate' = 0 => ~timer')
    <3>1. CASE timer' = timer /\ output' = output
      BY <2>1, <3>1, Zenon
    <3>2. CASE timer' = FALSE /\ output' = TRUE
      BY <3>2
    <3> QED
      BY <2>2, <3>1, <3>2
  <2>4. Blocked'
    BY <2>1, <2>2 DEF Blocked
  <2> QED
    BY <2>1, <2>3, <2>4
<1>11. CASE OnTxTimeoutIdle
  BY <1>11 DEF OnTxTimeoutIdle, Blocked
<1>12. ASSUME NEW r \in Rates, SetTxRateLimit(r) PROVE WakeupInv'
  BY <1>12 DEF SetTxRateLimit, Blocked
<1>13. ASSUME NEW l, SetQueueLimit(l) PROVE WakeupInv'
  <2>1. q'.list = q.list
    BY <1>13 DEF SetQueueLimit, SetLimit, Queue
  <2> QED
    BY <1>13, <2>1 DEF SetQueueLimit, Blocked
<1>14. CASE UNCHANGED vars
  BY <1>14 DEF vars, Blocked
<1> QED
  BY <1>1, <1>2, <1>3, <1>4, <1>5, <1>6, <1>7, <1>8, <1>9, <1>10, <1>11, <1>12, <1>13, <1>14
     DEF Next, OnTxTimeout

LEMMA SpecWakeup == Spec => []WakeupInv
BY InitWakeup, NextWakeup, PTL DEF Spec

\* nrlsmf.cpp:450, 501, 511, 5125: the timer and the output notification are
\* never armed together, and a stopped interface has no timer.
THEOREM SchedulerWaitsOneWay == Spec => []WaitsOneWay
<1>1. WakeupInv => WaitsOneWay
  BY DEF WakeupInv, WaitsOneWay
<1> QED
  BY <1>1, SpecWakeup, PTL

\* Whatever mixture of EAGAIN, send errors, rate and queue commands it meets,
\* the scheduler never goes idle on a queued frame with no wake-up armed.
THEOREM SchedulerNeverStalls == Spec => []NoLostWakeup
<1>1. WakeupInv => NoLostWakeup
  BY DEF WakeupInv, NoLostWakeup, Blocked
<1> QED
  BY <1>1, SpecWakeup, PTL

-----------------------------------------------------------------------------
\* Frames

Vif == {vifq[i] : i \in 1 .. Len(vifq)}

Distinct(s) == \A i, j \in 1 .. Len(s) : s[i] = s[j] => i = j

Disjoint(A, B, C) == A \cap B = {} /\ A \cap C = {} /\ B \cap C = {}

\* The frames the scheduler has dealt with or still holds.
Handled(x) == Queued(x) \cup sent \cup dropped

\* Every frame is at one place: new, in the virtual interface (once), or with
\* the scheduler, queued or sent or dropped.
FrameInv ==
    /\ TypeOK
    /\ Distinct(vifq)
    /\ Disjoint(fresh, Vif, Handled(q))
    /\ fresh \cup Vif \cup Handled(q) = Packet
    /\ Disjoint(Queued(q), sent, dropped)

LEMMA InitFrames == Init => FrameInv
<1> SUFFICES ASSUME Init PROVE FrameInv
  OBVIOUS
<1>1. PICK l \in InitLimits : q = EmptyQueue(l)
  BY DEF Init
<1>2. QueueOK(q) /\ Queued(q) = {}
  BY <1>1, EmptyQueueOK, LimitsAssumption
<1>3. vifq \in Seq(Packet) /\ Len(vifq) = 0 /\ Vif = {}
  BY DEF Init, Vif
<1>4. TypeOK
  BY <1>2, <1>3, VifAssumption DEF Init, TypeOK, QueueOK
<1> QED
  BY <1>2, <1>3, <1>4 DEF Init, FrameInv, Distinct, Disjoint, Handled

\* What is left in a queue, and what was given up, when f was offered to it.
LEMMA OfferedFrame ==
    ASSUME NEW x, QueueOK(x), NEW f \in Packet, f \notin Queued(x), Accepts(x, f),
           NEW D, D \subseteq Packet, Queued(x) \cap D = {}, f \notin D
    PROVE  /\ QueueOK(Enqueue(x, f))
           /\ f \in Queued(Enqueue(x, f))
           /\ D \cup Bumped(x, f) \subseteq Packet
           /\ Queued(Enqueue(x, f)) \cap (D \cup Bumped(x, f)) = {}
           /\ Queued(Enqueue(x, f)) \cup D \cup Bumped(x, f) = Queued(x) \cup D \cup {f}
<1>1. /\ QueueOK(Enqueue(x, f))
      /\ Queued(Enqueue(x, f)) = (Queued(x) \ Bumped(x, f)) \cup {f}
      /\ Bumped(x, f) \subseteq Queued(x)
  BY EnqueueOK DEF Bumped
<1>2. Queued(x) \subseteq Packet
  BY ElementsInSet DEF Queued, QueueOK, QueueType
<1> QED
  BY <1>1, <1>2

\* SendFrame loses no frame and makes no second one.
LEMMA SendFrameFrames ==
    ASSUME TypeOK, NEW x, QueueOK(x), NEW f \in Packet, f \notin Handled(x),
           Disjoint(Queued(x), sent, dropped), SendFrame(x, f)
    PROVE  /\ QueueOK(q')
           /\ timer' \in BOOLEAN /\ output' \in BOOLEAN /\ input' \in BOOLEAN
           /\ input' => HasVif
           /\ sent' \subseteq Packet /\ dropped' \subseteq Packet
           /\ Disjoint(Queued(q'), sent', dropped')
           /\ Handled(q)' = Handled(x) \cup {f}
<1> USE DEF Disjoint, Handled
<1>0. /\ timer \in BOOLEAN /\ output \in BOOLEAN /\ input \in BOOLEAN /\ (input => HasVif)
      /\ sent \subseteq Packet /\ dropped \subseteq Packet /\ rate \in Int
  BY RatesAssumption DEF TypeOK
<1>1. ASSUME QueueOrDrop(x, f), sent' = sent
      PROVE  /\ QueueOK(q') /\ input' \in BOOLEAN /\ (input' => HasVif)
             /\ dropped' \subseteq Packet
             /\ Disjoint(Queued(q'), sent', dropped')
             /\ Handled(q)' = Handled(x) \cup {f}
  <2>1. CASE /\ Accepts(x, f) /\ q' = Enqueue(x, f)
             /\ dropped' = dropped \cup Bumped(x, f)
             /\ input' = (input /\ ~IsFull(Enqueue(x, f)))
    <3>1. /\ QueueOK(q') /\ dropped' \subseteq Packet
          /\ Queued(q') \cap dropped' = {}
          /\ Queued(q') \cup dropped' = Queued(x) \cup dropped \cup {f}
      BY <1>0, <2>1, OfferedFrame
    <3>2. input' \in BOOLEAN /\ (input' => HasVif)
      BY <1>0, <2>1
    <3> QED
      BY <1>1, <3>1, <3>2
  <2>2. CASE q' = x /\ dropped' = dropped \cup {f} /\ input' = FALSE
    BY <1>0, <1>1, <2>2
  <2> QED
    BY <1>1, <2>1, <2>2 DEF QueueOrDrop
<1>2. CASE QueueOrDrop(x, f) /\ UNCHANGED << timer, output, sent >>
  BY <1>0, <1>1, <1>2
<1>3. CASE /\ sent' = sent \cup {f} /\ timer' = (rate > 0) /\ q' = x
           /\ input' = (input /\ ~(rate > 0 /\ ~IsQueuing(x)))
           /\ UNCHANGED << output, dropped >>
  <2>1. timer' \in BOOLEAN /\ input' \in BOOLEAN /\ (input' => HasVif)
    BY <1>0, <1>3
  <2> QED
    BY <1>0, <1>3, <2>1
<1>4. CASE output' = TRUE /\ QueueOrDrop(x, f) /\ UNCHANGED << timer, sent >>
  BY <1>0, <1>1, <1>4
<1>5. CASE timer' = TRUE /\ QueueOrDrop(x, f) /\ UNCHANGED << output, sent >>
  BY <1>0, <1>1, <1>5
<1> QED
  BY <1>2, <1>3, <1>4, <1>5 DEF SendFrame

\* Reading the first frame of the virtual interface.
LEMMA VifHead ==
    ASSUME vifq \in Seq(Packet), Distinct(vifq), vifq # << >>
    PROVE  /\ vifq[1] \in Vif
           /\ Vif \subseteq Packet
           /\ Tail(vifq) \in Seq(Packet)
           /\ Distinct(Tail(vifq))
           /\ {Tail(vifq)[i] : i \in 1 .. Len(Tail(vifq))} = Vif \ {vifq[1]}
<1> DEFINE n == Len(vifq)
           t == Tail(vifq)
<1>1. n \in Nat /\ n # 0 /\ \A i \in 1 .. n : vifq[i] \in Packet
  BY ElementsInSet
<1>2. t \in Seq(Packet) /\ Len(t) = n - 1 /\ \A i \in 1 .. n - 1 : t[i] = vifq[i + 1]
  BY TailElements
<1>3. \A i \in 1 .. n - 1 : i + 1 \in 1 .. n /\ i + 1 # 1
  BY <1>1
<1>4. \A i \in 1 .. n : i # 1 => i - 1 \in 1 .. n - 1 /\ (i - 1) + 1 = i
  BY <1>1
<1> HIDE DEF n, t
<1>5. Distinct(t)
  <2> SUFFICES ASSUME NEW i \in 1 .. n - 1, NEW j \in 1 .. n - 1, t[i] = t[j] PROVE i = j
    BY <1>2 DEF Distinct
  <2>1. i + 1 = j + 1
    BY <1>2, <1>3 DEF Distinct, n
  <2> QED
    BY <1>1, <2>1
<1>6. \A i \in 1 .. n - 1 : vifq[i + 1] # vifq[1]
  BY <1>1, <1>3 DEF Distinct, n
<1>7. {t[i] : i \in 1 .. n - 1} = Vif \ {vifq[1]}
  <2>1. \A i \in 1 .. n - 1 : t[i] \in Vif \ {vifq[1]}
    BY <1>2, <1>3, <1>6 DEF Vif, n
  <2>2. \A i \in 1 .. n : vifq[i] # vifq[1] => \E j \in 1 .. n - 1 : vifq[i] = t[j]
    BY <1>2, <1>4
  <2> QED
    BY <2>1, <2>2 DEF Vif, n
<1>8. vifq[1] \in Vif /\ Vif \subseteq Packet
  BY <1>1 DEF Vif, n
<1> QED
  BY <1>2, <1>5, <1>7, <1>8 DEF n, t

\* The same when nothing is read.
LEMMA FramesSame ==
    ASSUME UNCHANGED << vifq, fresh >>, UNCHANGED << sent, dropped >>,
           Queued(q') = Queued(q)
    PROVE  Vif' = Vif /\ Handled(q)' = Handled(q)
BY DEF Vif, Handled

LEMMA NextFrames == FrameInv /\ [Next]_vars => FrameInv'
<1> SUFFICES ASSUME FrameInv, [Next]_vars PROVE FrameInv'
  OBVIOUS
<1>0. /\ TypeOK /\ QueueOK(q) /\ Distinct(vifq) /\ vifq \in Seq(Packet)
      /\ Disjoint(fresh, Vif, Handled(q))
      /\ fresh \cup Vif \cup Handled(q) = Packet
      /\ Disjoint(Queued(q), sent, dropped)
  BY DEF FrameInv, TypeOK, QueueOK
<1>1. ASSUME NEW f \in Packet, HostWrites(f) PROVE FrameInv'
  <2> DEFINE n == Len(vifq)
             v == Append(vifq, f)
  <2> USE <1>1 DEF HostWrites
  <2>1. /\ v \in Seq(Packet) /\ Len(v) = n + 1 /\ n \in Nat
        /\ \A i \in 1 .. n + 1 : v[i] = IF i = n + 1 THEN f ELSE vifq[i]
    BY <1>0, AppendElements
  <2>2. \A i \in 1 .. n : vifq[i] # f
    BY <1>0 DEF Disjoint, Vif
  <2>3. Distinct(v)
    <3> SUFFICES ASSUME NEW i \in 1 .. n + 1, NEW j \in 1 .. n + 1, v[i] = v[j] PROVE i = j
      BY <2>1 DEF Distinct
    <3>1. (i = n + 1 \/ i \in 1 .. n) /\ (j = n + 1 \/ j \in 1 .. n)
      BY <2>1
    <3> QED
      BY <1>0, <2>1, <2>2, <3>1 DEF Distinct
  <2>4. {v[i] : i \in 1 .. n + 1} = Vif \cup {f}
    <3>1. n + 1 \in 1 .. n + 1 /\ \A i \in 1 .. n : i \in 1 .. n + 1 /\ i # n + 1
      BY <2>1
    <3>2. \A i \in 1 .. n + 1 : i = n + 1 \/ i \in 1 .. n
      BY <2>1
    <3> QED
      BY <2>1, <3>1, <3>2 DEF Vif
  <2>5. Vif' = Vif \cup {f} /\ vifq' = v /\ Handled(q)' = Handled(q)
    BY <2>1, <2>4 DEF Vif, Handled
  <2>6. TypeOK'
    BY <1>0, <2>1, <2>5 DEF TypeOK
  <2> QED
    BY <1>0, <2>3, <2>5, <2>6 DEF FrameInv, Disjoint
<1>2. ASSUME NEW f \in Packet, ForwardFrame(f) PROVE FrameInv'
  <2> USE <1>2 DEF ForwardFrame
  <2>1. f \notin Handled(q) /\ f \notin Queued(q)
    BY <1>0 DEF Disjoint, Handled
  <2>2. /\ QueueOK(q')
        /\ timer' \in BOOLEAN /\ output' \in BOOLEAN /\ input' \in BOOLEAN
        /\ (input' => HasVif)
        /\ sent' \subseteq Packet /\ dropped' \subseteq Packet
        /\ Disjoint(Queued(q'), sent', dropped')
        /\ Handled(q)' = Handled(q) \cup {f}
    BY <1>0, <2>1, SendFrameFrames
  <2>3. Vif' = Vif
    BY DEF Vif
  <2>4. TypeOK'
    BY <1>0, <2>2 DEF TypeOK, QueueOK
  <2> QED
    BY <1>0, <2>2, <2>3, <2>4 DEF FrameInv, Disjoint
<1>3. CASE OnPktOutput
  <2> USE <1>3 DEF OnPktOutput
  <2>1. /\ vifq[1] \in Vif /\ Vif \subseteq Packet
        /\ vifq' \in Seq(Packet) /\ Distinct(vifq')
        /\ Vif' = Vif \ {vifq[1]}
    BY <1>0, VifHead DEF Vif
  <2>2. vifq[1] \in Packet /\ vifq[1] \notin Handled(q) /\ vifq[1] \notin Queued(q)
    BY <1>0, <2>1 DEF Disjoint, Handled
  <2>3. /\ QueueOK(q')
        /\ timer' \in BOOLEAN /\ output' \in BOOLEAN /\ input' \in BOOLEAN
        /\ (input' => HasVif)
        /\ sent' \subseteq Packet /\ dropped' \subseteq Packet
        /\ Disjoint(Queued(q'), sent', dropped')
        /\ Handled(q)' = Handled(q) \cup {vifq[1]}
    BY <1>0, <2>2, SendFrameFrames
  <2>4. TypeOK'
    BY <1>0, <2>1, <2>3 DEF TypeOK, QueueOK
  <2> QED
    BY <1>0, <2>1, <2>3, <2>4 DEF FrameInv, Disjoint
<1>4. CASE SendQueued
  <2> USE <1>4 DEF SendQueued
  <2> DEFINE x == Dequeue(q)
             f == PreviewPacket(q)
  <2>1. QueueOK(x) /\ Queued(x) = Queued(q) \ {f} /\ f \in Queued(q)
    BY <1>0, DequeueOK
  <2>2. f \in Packet /\ f \notin Handled(x) /\ Disjoint(Queued(x), sent, dropped)
    BY <1>0, <2>1 DEF Disjoint, Handled
  <2>3. SendFrame(x, f)
    OBVIOUS
  <2> HIDE DEF x, f
  <2>4. /\ QueueOK(q')
        /\ timer' \in BOOLEAN /\ output' \in BOOLEAN /\ input' \in BOOLEAN
        /\ (input' => HasVif)
        /\ sent' \subseteq Packet /\ dropped' \subseteq Packet
        /\ Disjoint(Queued(q'), sent', dropped')
        /\ Handled(q)' = Handled(x) \cup {f}
    BY <1>0, <2>1, <2>2, <2>3, SendFrameFrames
  <2>5. Handled(q)' = Handled(q) /\ Vif' = Vif
    BY <2>1, <2>4 DEF Handled, Vif
  <2>6. TypeOK'
    BY <1>0, <2>4 DEF TypeOK, QueueOK
  <2> QED
    BY <1>0, <2>4, <2>5, <2>6 DEF FrameInv, Disjoint
<1>5. CASE OnTxTimeoutQueued
  <2> USE <1>5 DEF OnTxTimeoutQueued
  <2> DEFINE x == Dequeue(q)
             f == PreviewPacket(q)
  <2>1. QueueOK(x) /\ Queued(x) = Queued(q) \ {f} /\ f \in Queued(q)
    BY <1>0, DequeueOK
  <2>2. f \in Packet /\ dropped \subseteq Packet /\ sent \subseteq Packet
    BY <1>0, <2>1 DEF Disjoint, Handled
  <2>3. CASE sent' = sent \cup {f} /\ Refill(x) /\ UNCHANGED << timer, output >>
    <3> HIDE DEF x, f
    <3>1. CASE vifq = << >> /\ q' = x /\ input' = HasVif /\ UNCHANGED << vifq, dropped >>
      <4>1. Vif' = Vif /\ Handled(q)' = Handled(q)
        BY <2>1, <2>3, <3>1 DEF Vif, Handled
      <4>2. TypeOK'
        BY <1>0, <2>1, <2>2, <2>3, <3>1, VifAssumption DEF TypeOK, QueueOK
      <4> QED
        BY <1>0, <2>1, <2>3, <3>1, <4>1, <4>2 DEF FrameInv, Disjoint
    <3>2. CASE /\ vifq # << >>
               /\ q' = IF Accepts(x, vifq[1]) THEN Enqueue(x, vifq[1]) ELSE x
               /\ dropped' = dropped \cup
                     (IF Accepts(x, vifq[1]) THEN Bumped(x, vifq[1]) ELSE {vifq[1]})
               /\ input' = (input /\ ~IsFull(q'))
               /\ vifq' = Tail(vifq)
      <4>1. /\ vifq[1] \in Vif /\ Vif \subseteq Packet
            /\ vifq' \in Seq(Packet) /\ Distinct(vifq')
            /\ Vif' = Vif \ {vifq[1]}
        BY <1>0, <3>2, VifHead DEF Vif
      <4>2. vifq[1] \in Packet /\ vifq[1] \notin Queued(x) \cup sent \cup dropped \cup {f}
        BY <1>0, <2>1, <4>1 DEF Disjoint, Handled
      <4>3. /\ QueueOK(q') /\ dropped' \subseteq Packet
            /\ Queued(q') \cap dropped' = {}
            /\ Queued(q') \cup dropped' = Queued(x) \cup dropped \cup {vifq[1]}
        <5>1. Queued(x) \cap dropped = {}
          BY <1>0, <2>1 DEF Disjoint
        <5>2. CASE Accepts(x, vifq[1])
          BY <2>1, <2>2, <3>2, <4>2, <5>1, <5>2, OfferedFrame
        <5>3. CASE ~Accepts(x, vifq[1])
          BY <2>1, <2>2, <3>2, <4>2, <5>1, <5>3
        <5> QED
          BY <5>2, <5>3
      <4>4. /\ Handled(q)' = Handled(q) \cup {vifq[1]}
            /\ Disjoint(Queued(q'), sent', dropped')
        BY <1>0, <2>1, <2>3, <4>2, <4>3 DEF Handled, Disjoint
      <4>5. input' \in BOOLEAN /\ (input' => HasVif)
        BY <1>0, <3>2 DEF TypeOK
      <4>6. TypeOK'
        BY <1>0, <2>2, <2>3, <4>1, <4>3, <4>5 DEF TypeOK, QueueOK
      <4> QED
        BY <1>0, <4>1, <4>4, <4>6 DEF FrameInv, Disjoint
    <3> QED
      BY <2>3, <3>1, <3>2 DEF Refill
  <2>4. CASE output' = TRUE /\ timer' = FALSE /\ UNCHANGED << q, input, vifq, sent, dropped >>
    BY <1>0, <2>4, FramesSame DEF FrameInv, TypeOK
  <2> QED
    BY <2>3, <2>4
<1>6. CASE OnTxTimeoutVif
  <2> USE <1>6 DEF OnTxTimeoutVif
  <2> DEFINE f == vifq[1]
  <2>1. /\ f \in Vif /\ Vif \subseteq Packet
        /\ vifq' \in Seq(Packet) /\ Distinct(vifq')
        /\ Vif' = Vif \ {f}
    BY <1>0, VifHead DEF Vif
  <2>2. f \in Packet /\ f \notin Handled(q) /\ sent \subseteq Packet /\ dropped \subseteq Packet
    BY <1>0, <2>1 DEF Disjoint, Handled
  <2> HIDE DEF f
  <2>3. /\ QueueOK(q') /\ sent' \subseteq Packet /\ dropped' \subseteq Packet
        /\ Handled(q)' = Handled(q) \cup {f}
        /\ Disjoint(Queued(q'), sent', dropped')
    <3>1. CASE sent' = sent \cup {f} /\ UNCHANGED << q, dropped >>
      BY <1>0, <2>2, <3>1 DEF Handled, Disjoint
    <3>2. CASE KeepVifFrame(f) /\ UNCHANGED sent
      <4>1. f \notin Queued(q) /\ f \notin dropped /\ f \notin sent /\ Queued(q) \cap dropped = {}
        BY <1>0, <2>2 DEF Handled, Disjoint
      <4>2. CASE Accepts(q, f) /\ q' = Enqueue(q, f) /\ dropped' = dropped \cup Bumped(q, f)
        <5>1. /\ QueueOK(q') /\ dropped' \subseteq Packet
              /\ Queued(q') \cap dropped' = {}
              /\ Queued(q') \cup dropped' = Queued(q) \cup dropped \cup {f}
          BY <1>0, <2>2, <4>1, <4>2, OfferedFrame
        <5> QED
          BY <1>0, <2>2, <3>2, <4>1, <5>1 DEF Handled, Disjoint
      <4>3. CASE q' = q /\ dropped' = dropped \cup {f}
        BY <1>0, <2>2, <3>2, <4>1, <4>3 DEF Handled, Disjoint
      <4> QED
        BY <3>2, <4>2, <4>3 DEF KeepVifFrame
    <3> QED
      BY <3>1, <3>2 DEF f
  <2>4. /\ timer' \in BOOLEAN /\ output' \in BOOLEAN /\ input' \in BOOLEAN
        /\ (input' => HasVif)
    BY <1>0 DEF TypeOK, InputAfterKeep
  <2>5. TypeOK'
    BY <1>0, <2>1, <2>3, <2>4 DEF TypeOK, QueueOK
  <2> QED
    BY <1>0, <2>1, <2>3, <2>5 DEF FrameInv, Disjoint
<1>7. ASSUME NEW l \in {c[2] : c \in LimitChanges}, SetQueueLimit(l) PROVE FrameInv'
  <2>1. l \in Int
    BY LimitsAssumption
  <2>2. QueueOK(q') /\ Queued(q') = Queued(q)
    BY <1>0, <1>7, <2>1, SetLimitOK DEF SetQueueLimit
  <2> QED
    BY <1>0, <1>7, <2>2, FramesSame DEF SetQueueLimit, FrameInv, TypeOK, QueueOK
<1>8. ASSUME UNCHANGED << q, vifq, fresh, sent, dropped >>, rate' \in Rates,
             timer' \in BOOLEAN, output' \in BOOLEAN, input' \in BOOLEAN, input' => HasVif,
             handler' \in {"idle", "OnPktOutput", "OnPktCapture"}
      PROVE  FrameInv'
  BY <1>0, <1>8, FramesSame DEF FrameInv, TypeOK
<1>9. CASE OnPktOutputEnd
  BY <1>0, <1>8, <1>9 DEF OnPktOutputEnd, TypeOK
<1>10. CASE OnPktCapture
  BY <1>0, <1>8, <1>10 DEF OnPktCapture, TypeOK
<1>11. CASE OnPktCaptureEnd
  <2>1. input' \in BOOLEAN /\ (input' => HasVif)
    BY <1>0, <1>11 DEF OnPktCaptureEnd, TypeOK
  <2> QED
    BY <1>0, <1>8, <1>11, <2>1 DEF OnPktCaptureEnd, TypeOK
<1>12. CASE OnErrorTimeout
  BY <1>0, <1>8, <1>12 DEF OnErrorTimeout, TypeOK
<1>13. CASE OnTxTimeoutIdle
  <2>1. input' \in BOOLEAN /\ (input' => HasVif)
    BY <1>0, <1>13 DEF OnTxTimeoutIdle, TypeOK
  <2> QED
    BY <1>0, <1>8, <1>13, <2>1 DEF OnTxTimeoutIdle, TypeOK
<1>14. ASSUME NEW r \in Rates, SetTxRateLimit(r) PROVE FrameInv'
  <2>1. timer' \in BOOLEAN
    BY <1>0, <1>14 DEF SetTxRateLimit, TypeOK
  <2> QED
    BY <1>0, <1>8, <1>14, <2>1 DEF SetTxRateLimit, TypeOK
<1>15. CASE UNCHANGED vars
  BY <1>0, <1>8, <1>15 DEF vars, TypeOK
<1> QED
  BY <1>1, <1>2, <1>3, <1>4, <1>5, <1>6, <1>7, <1>9, <1>10, <1>11, <1>12, <1>13, <1>14, <1>15
     DEF Next, OnTxTimeout

LEMMA SpecFrames == Spec => []FrameInv
BY InitFrames, NextFrames, PTL DEF Spec

\* No frame is lost and none is doubled, whatever the device answers, whatever
\* is bumped and whichever commands come: it is new, in the virtual interface,
\* in the queue, sent or counted as dropped.
THEOREM EveryFrameAccounted == Spec => []FramesAccounted
<1>1. FrameInv => FramesAccounted
  <2> SUFFICES ASSUME FrameInv, NEW f \in Packet
               PROVE  \E i \in 1 .. 5 : f \in Places[i] /\ \A j \in (1 .. 5) \ {i} : f \notin Places[j]
    BY DEF FramesAccounted, FrameInv
  <2>1. /\ Places[1] = fresh /\ Places[2] = Vif /\ Places[3] = Queued(q)
        /\ Places[4] = sent /\ Places[5] = dropped
    BY DEF Places, Vif
  <2>2. \A j \in 1 .. 5 : j = 1 \/ j = 2 \/ j = 3 \/ j = 4 \/ j = 5
    OBVIOUS
  <2>3. f \in fresh \/ f \in Vif \/ f \in Queued(q) \/ f \in sent \/ f \in dropped
    BY DEF FrameInv, Handled
  <2> QED
    BY <2>1, <2>2, <2>3 DEF FrameInv, Disjoint, Handled
<1> QED
  BY <1>1, SpecFrames, PTL
-----------------------------------------------------------------------------
\* The virtual interface's notification

\* What a frame offered to a queue does to its length.
LEMMA EnqueueLength ==
    ASSUME NEW x, QueueOK(x), NEW f, Accepts(x, f)
    PROVE  Enqueue(x, f).queue_length =
               IF Bumps(x, f) THEN x.queue_length ELSE x.queue_length + 1
<1>1. x.queue_length \in Nat
  BY DEF QueueOK, QueueType
<1>2. CASE IsPriority(f) /\ AtLimit(x)
  BY <1>1, <1>2 DEF Enqueue, EnqueuePriority, RemoveHead, Queue, Bumps
<1>3. CASE ~(IsPriority(f) /\ AtLimit(x))
  BY <1>1, <1>3 DEF Enqueue, EnqueuePriority, EnqueueNormal, Queue, Bumps
<1> QED
  BY <1>2, <1>3

\* A full queue holds a frame, a queue that takes a frame holds it, and a queue
\* that does not is full.
LEMMA RefusedIsFull ==
    ASSUME NEW x, QueueOK(x)
    PROVE  /\ IsFull(x) => x.list # << >>
           /\ \A f : IsQueuing(x) /\ ~Accepts(x, f) => IsFull(x)
           /\ \A f \in Packet \ Queued(x) : Accepts(x, f) => Enqueue(x, f).list # << >>
<1>1. x.queue_length = Len(x.list) /\ x.queue_limit \in Int /\ x.list \in Seq(Packet)
  BY DEF QueueOK, QueueType, Consistent
<1>2. IsFull(x) => x.list # << >>
  BY <1>1 DEF IsFull
<1>3. \A f : IsQueuing(x) /\ ~Accepts(x, f) => IsFull(x)
  BY <1>1 DEF IsQueuing, Accepts, AtLimit, IsFull
<1>4. ASSUME NEW f \in Packet \ Queued(x), Accepts(x, f) PROVE Enqueue(x, f).list # << >>
  <2>1. f \in Queued(Enqueue(x, f))
    BY <1>4, EnqueueOK
  <2> QED
    BY <2>1 DEF Queued
<1> QED
  BY <1>2, <1>3, <1>4

\* Why the virtual interface is heard: when its notification is off and no
\* handler runs, the interface is blocked, and if it queues it has queued
\* frames, so that the timer finds work instead of stopping; OnPktOutput runs
\* only while the notification is on.
HeardInv ==
    HasVif /\ ~input =>
        /\ handler # "OnPktOutput"
        /\ handler = "idle" => Blocked /\ (IsQueuing(q) => q.list # << >>)

\* No command turns queuing on.  One that does finds the notification off with
\* nothing queued: the timer's next turn stops it for good (nrlsmf.cpp:666).
QueuingStaysOff == ~IsQueuing(q) => ~IsQueuing(q')

LEMMA InitHeard == Init => HeardInv
BY DEF Init, HeardInv

\* When SendFrame turns the notification off, something else is armed.
LEMMA SendFrameHeard ==
    ASSUME NEW x, QueueOK(x), NEW f \in Packet \ Queued(x), SendFrame(x, f),
           UNCHANGED rate, rate \in Int, input \/ Blocked, ~input'
    PROVE  Blocked' /\ (IsQueuing(q') => q'.list # << >>)
<1>1. ASSUME QueueOrDrop(x, f) PROVE IsQueuing(q') => q'.list # << >>
  BY <1>1, RefusedIsFull DEF QueueOrDrop
<1>2. CASE Blocked /\ QueueOrDrop(x, f) /\ UNCHANGED << timer, output, sent >>
  BY <1>1, <1>2 DEF Blocked
<1>3. CASE /\ ~Blocked /\ timer' = (rate > 0) /\ q' = x
           /\ input' = (input /\ ~(rate > 0 /\ ~IsQueuing(x)))
           /\ UNCHANGED << output, dropped >>
  BY <1>3 DEF Blocked
<1>4. CASE ~Blocked /\ output' = TRUE /\ QueueOrDrop(x, f) /\ UNCHANGED << timer, sent >>
  BY <1>1, <1>4 DEF Blocked
<1>5. CASE ~Blocked /\ timer' = TRUE /\ QueueOrDrop(x, f) /\ UNCHANGED << output, sent >>
  BY <1>1, <1>5 DEF Blocked
<1> QED
  BY <1>2, <1>3, <1>4, <1>5 DEF SendFrame

LEMMA NextHeard ==
    FrameInv /\ WakeupInv /\ HeardInv /\ [QueuingStaysOff]_vars /\ [Next]_vars => HeardInv'
<1> SUFFICES ASSUME FrameInv, WakeupInv, HeardInv, [QueuingStaysOff]_vars, [Next]_vars,
                    HasVif, ~input'
             PROVE  /\ handler' # "OnPktOutput"
                    /\ handler' = "idle" => Blocked' /\ (IsQueuing(q') => q'.list # << >>)
  BY DEF HeardInv
<1> DEFINE Goal == /\ handler' # "OnPktOutput"
                   /\ handler' = "idle" => Blocked' /\ (IsQueuing(q') => q'.list # << >>)
<1>0. /\ QueueOK(q) /\ rate \in Int /\ vifq \in Seq(Packet) /\ Distinct(vifq)
      /\ Disjoint(fresh, Vif, Handled(q))
      /\ q.queue_limit \in Int
      /\ input \in BOOLEAN
  BY RatesAssumption DEF FrameInv, TypeOK, QueueOK, QueueType
<1>1. ASSUME NEW f \in Packet, HostWrites(f) PROVE Goal
  BY <1>1 DEF HostWrites, HeardInv, Blocked
<1>2. ASSUME NEW f \in Packet, ForwardFrame(f) PROVE Goal
  <2> USE <1>2 DEF ForwardFrame
  <2>1. f \in Packet \ Queued(q)
    BY <1>0 DEF Disjoint, Handled
  <2>2. input \/ Blocked
    BY DEF HeardInv
  <2> QED
    BY <1>0, <2>1, <2>2, SendFrameHeard
<1>3. CASE OnPktOutput
  <2> USE <1>3 DEF OnPktOutput
  <2>1. vifq[1] \in Packet \ Queued(q)
    BY <1>0, VifHead DEF Disjoint, Handled
  <2>2. input
    BY DEF HeardInv
  <2> QED
    BY <1>0, <2>1, <2>2, SendFrameHeard
<1>4. CASE OnPktOutputEnd
  BY <1>4 DEF OnPktOutputEnd, HeardInv
<1>5. CASE OnPktCapture
  BY <1>5 DEF OnPktCapture, HeardInv, Blocked
<1>6. CASE SendQueued
  BY <1>6 DEF SendQueued
<1>7. CASE OnPktCaptureEnd
  BY <1>0, <1>7, RefusedIsFull DEF OnPktCaptureEnd, Blocked
<1>8. CASE OnErrorTimeout
  BY <1>8 DEF OnErrorTimeout
<1>9. CASE OnTxTimeoutQueued
  <2> USE <1>9 DEF OnTxTimeoutQueued
  <2> DEFINE x == Dequeue(q)
  <2>1. CASE sent' = sent \cup {PreviewPacket(q)} /\ Refill(x) /\ UNCHANGED << timer, output >>
    <3>1. Blocked' /\ handler' = "idle"
      BY <2>1 DEF Blocked
    <3>2. CASE vifq = << >> /\ input' = HasVif
      BY <3>2
    <3>3. CASE /\ vifq # << >>
               /\ q' = IF Accepts(x, vifq[1]) THEN Enqueue(x, vifq[1]) ELSE x
      <4>1. QueueOK(x) /\ Queued(x) = Queued(q) \ {PreviewPacket(q)}
        BY <1>0, DequeueOK
      <4>2. vifq[1] \in Packet \ Queued(x)
        BY <1>0, <3>3, <4>1, VifHead DEF Disjoint, Handled
      <4> QED
        BY <3>1, <3>3, <4>1, <4>2, RefusedIsFull
    <3> QED
      BY <2>1, <3>2, <3>3 DEF Refill
  <2>2. CASE output' = TRUE /\ timer' = FALSE /\ UNCHANGED << q, input, vifq, sent, dropped >>
    BY <2>2 DEF HeardInv, Blocked
  <2>3. CASE UNCHANGED << q, timer, output, input >>
    BY <2>3 DEF HeardInv, Blocked
  <2> QED
    BY <2>1, <2>2, <2>3
<1>10. CASE OnTxTimeoutVif
  <2> USE <1>10 DEF OnTxTimeoutVif
  <2>1. vifq[1] \in Packet \ Queued(q)
    BY <1>0, VifHead DEF Disjoint, Handled
  <2>2. ~input => ~IsQueuing(q)
    BY DEF HeardInv
  <2>3. Blocked' /\ handler' = "idle"
    BY DEF Blocked
  <2>4. IsQueuing(q') => q'.list # << >>
    <3>1. CASE UNCHANGED << q, input >>
      BY <2>2, <3>1
    <3>2. CASE KeepVifFrame(vifq[1])
      <4>1. CASE IsQueuing(q) /\ Accepts(q, vifq[1]) /\ q' = Enqueue(q, vifq[1])
        BY <1>0, <2>1, <4>1, RefusedIsFull
      <4>2. CASE ~(IsQueuing(q) /\ Accepts(q, vifq[1])) /\ q' = q
        BY <1>0, <4>2, RefusedIsFull
      <4> QED
        BY <3>2, <4>1, <4>2 DEF KeepVifFrame
    <3> QED
      BY <3>1, <3>2
  <2> QED
    BY <2>3, <2>4
<1>11. CASE OnTxTimeoutIdle
  BY <1>11 DEF OnTxTimeoutIdle, HeardInv
<1>12. ASSUME NEW r \in Rates, SetTxRateLimit(r) PROVE Goal
  BY <1>12 DEF SetTxRateLimit, HeardInv, Blocked
<1>13. ASSUME NEW l, SetQueueLimit(l) PROVE Goal
  <2> USE <1>13 DEF SetQueueLimit
  <2>1. q'.list = q.list
    BY DEF SetLimit, Queue
  <2>2. IsQueuing(q') => IsQueuing(q)
    BY DEF QueuingStaysOff, vars
  <2> QED
    BY <2>1, <2>2 DEF HeardInv, Blocked
<1>14. CASE UNCHANGED vars
  BY <1>14 DEF vars, HeardInv, Blocked
<1> QED
  BY <1>1, <1>2, <1>3, <1>4, <1>5, <1>6, <1>7, <1>8, <1>9, <1>10, <1>11, <1>12, <1>13, <1>14
     DEF Next, OnTxTimeout

\* The virtual interface is never left unheard (nrlsmf.cpp:5352), whatever the
\* device answers, the rates and the limits, as long as no "queue" command
\* turns queuing on for an interface that had none.
THEOREM VifNeverUnheard == Spec /\ [][QueuingStaysOff]_vars => []VifIsHeard
<1>1. HeardInv => VifIsHeard
  BY DEF HeardInv, VifIsHeard, Blocked
<1> QED
  BY <1>1, InitHeard, NextHeard, SpecFrames, SpecWakeup, PTL DEF Spec

\* The notification is on only while the queue has room, and a limited queue is
\* not longer than its limit: when the timer sends one of its frames there is
\* room for one.
RoomInv ==
    /\ input => ~IsFull(q)
    /\ q.queue_limit > 0 => q.queue_length <= q.queue_limit

\* No command leaves the queue full.  One that does leaves the notification on,
\* and the next frame of the virtual interface meets a full queue
\* (nrlsmf.cpp:2103).
LimitLeavesRoom == q'.queue_limit # q.queue_limit => ~IsFull(q')

\* What the queue is like after a frame was taken out, put in or refused.
Fits(x) == x.queue_limit > 0 => x.queue_length <= x.queue_limit

LEMMA DequeueFits ==
    ASSUME NEW x, QueueOK(x), Fits(x), x.list # << >>
    PROVE  Fits(Dequeue(x)) /\ ~IsFull(Dequeue(x))
<1>1. x.queue_length \in Nat /\ x.queue_limit \in Int
  BY DEF QueueOK, QueueType
<1>2. Dequeue(x).queue_length = x.queue_length - 1 /\ Dequeue(x).queue_limit = x.queue_limit
  BY DEF Dequeue, Queue
<1> QED
  BY <1>1, <1>2 DEF Fits, IsFull

LEMMA EnqueueFits ==
    ASSUME NEW x, QueueOK(x), Fits(x), NEW f \in Packet \ Queued(x), Accepts(x, f)
    PROVE  Fits(Enqueue(x, f))
<1>1. x.queue_length \in Nat /\ x.queue_limit \in Int
  BY DEF QueueOK, QueueType
<1>2. Enqueue(x, f).queue_limit = x.queue_limit
  BY EnqueueOK
<1>3. Enqueue(x, f).queue_length = IF Bumps(x, f) THEN x.queue_length ELSE x.queue_length + 1
  BY EnqueueLength
<1>4. ~Bumps(x, f) => ~AtLimit(x)
  BY DEF Bumps, Accepts
<1> QED
  BY <1>1, <1>2, <1>3, <1>4 DEF Fits, AtLimit

LEMMA InitRoom == Init => RoomInv
<1> SUFFICES ASSUME Init PROVE RoomInv
  OBVIOUS
<1>1. PICK l \in InitLimits : q = EmptyQueue(l)
  BY DEF Init
<1>2. q.queue_limit = l /\ q.queue_length = 0 /\ l \in Int
  BY <1>1, LimitsAssumption DEF EmptyQueue, Queue
<1> QED
  BY <1>2 DEF RoomInv, IsFull

\* SendFrame leaves the notification on only if there is room.
LEMMA SendFrameRoom ==
    ASSUME NEW x, QueueOK(x), Fits(x), input => ~IsFull(x),
           NEW f \in Packet \ Queued(x), SendFrame(x, f)
    PROVE  Fits(q') /\ (input' => ~IsFull(q'))
<1>1. ASSUME QueueOrDrop(x, f) PROVE Fits(q') /\ (input' => ~IsFull(q'))
  BY <1>1, EnqueueFits DEF QueueOrDrop
<1>2. CASE q' = x /\ input' = (input /\ ~(rate > 0 /\ ~IsQueuing(x)))
  BY <1>2
<1> QED
  BY <1>1, <1>2 DEF SendFrame

LEMMA NextRoom == FrameInv /\ RoomInv /\ [LimitLeavesRoom]_vars /\ [Next]_vars => RoomInv'
<1> SUFFICES ASSUME FrameInv, RoomInv, [LimitLeavesRoom]_vars, [Next]_vars
             PROVE  Fits(q') /\ (input' => ~IsFull(q'))
  BY DEF RoomInv, Fits
<1> DEFINE Goal == Fits(q') /\ (input' => ~IsFull(q'))
<1>0. /\ QueueOK(q) /\ Fits(q) /\ (input => ~IsFull(q))
      /\ vifq \in Seq(Packet) /\ Distinct(vifq)
      /\ Disjoint(fresh, Vif, Handled(q))
      /\ q.queue_limit \in Int
  BY DEF FrameInv, TypeOK, QueueOK, QueueType, RoomInv, Fits
<1>1. ASSUME NEW f \in Packet, ForwardFrame(f) PROVE Goal
  <2>1. f \in Packet \ Queued(q)
    BY <1>0, <1>1 DEF ForwardFrame, Disjoint, Handled
  <2> QED
    BY <1>0, <1>1, <2>1, SendFrameRoom DEF ForwardFrame
<1>2. CASE OnPktOutput
  <2>1. vifq[1] \in Packet \ Queued(q)
    BY <1>0, <1>2, VifHead DEF OnPktOutput, Disjoint, Handled
  <2> QED
    BY <1>0, <1>2, <2>1, SendFrameRoom DEF OnPktOutput
<1>3. CASE SendQueued
  <2> DEFINE x == Dequeue(q)
             f == PreviewPacket(q)
  <2>1. QueueOK(x) /\ Queued(x) = Queued(q) \ {f} /\ f \in Queued(q)
    BY <1>0, <1>3, DequeueOK DEF SendQueued
  <2>2. Fits(x) /\ ~IsFull(x) /\ SendFrame(x, f)
    BY <1>0, <1>3, DequeueFits DEF SendQueued
  <2>3. f \in Packet \ Queued(x)
    <3>1. Queued(q) \subseteq Packet
      BY <1>0, ElementsInSet DEF QueueOK, QueueType, Queued
    <3> QED
      BY <2>1, <3>1
  <2> QED
    BY <2>1, <2>2, <2>3, SendFrameRoom
<1>4. CASE OnTxTimeoutQueued
  <2> USE <1>4 DEF OnTxTimeoutQueued
  <2> DEFINE x == Dequeue(q)
  <2>1. /\ QueueOK(x) /\ Queued(x) = Queued(q) \ {PreviewPacket(q)}
        /\ Fits(x) /\ ~IsFull(x)
    BY <1>0, DequeueOK, DequeueFits
  <2>2. CASE Refill(x)
    <3>1. CASE vifq = << >> /\ q' = x
      BY <2>1, <3>1
    <3>2. CASE /\ vifq # << >>
               /\ q' = IF Accepts(x, vifq[1]) THEN Enqueue(x, vifq[1]) ELSE x
               /\ input' = (input /\ ~IsFull(q'))
      <4>1. vifq[1] \in Packet \ Queued(x)
        BY <1>0, <2>1, <3>2, VifHead DEF Disjoint, Handled
      <4> QED
        BY <2>1, <3>2, <4>1, EnqueueFits
    <3> QED
      BY <2>2, <3>1, <3>2 DEF Refill
  <2>3. CASE UNCHANGED << q, input >>
    BY <1>0, <2>3
  <2> QED
    BY <2>2, <2>3
<1>5. CASE OnTxTimeoutVif
  <2> USE <1>5 DEF OnTxTimeoutVif
  <2>1. vifq[1] \in Packet \ Queued(q)
    BY <1>0, VifHead DEF Disjoint, Handled
  <2>2. CASE UNCHANGED << q, input >>
    BY <1>0, <2>2
  <2>3. CASE /\ KeepVifFrame(vifq[1])
             /\ input' = InputAfterKeep \/ input' = IF IsQueuing(q) THEN InputAfterKeep ELSE TRUE
    <3>1. Fits(q')
      BY <1>0, <2>1, <2>3, EnqueueFits DEF KeepVifFrame
    <3>2. IsQueuing(q) \/ q' = q
      BY <2>3 DEF KeepVifFrame
    <3>3. ~IsQueuing(q) => ~IsFull(q)
      BY DEF IsQueuing, IsFull
    <3>4. input' => ~IsFull(q')
      <4>1. CASE IsQueuing(q)
        BY <2>3, <4>1 DEF InputAfterKeep
      <4>2. CASE ~IsQueuing(q)
        BY <3>2, <3>3, <4>2
      <4> QED
        BY <4>1, <4>2
    <3> QED
      BY <3>1, <3>4
  <2> QED
    BY <2>2, <2>3
<1>6. ASSUME NEW l \in {c[2] : c \in LimitChanges}, SetQueueLimit(l) PROVE Goal
  <2>1. l \in Int
    BY LimitsAssumption
  <2>2. QueueOK(q') /\ q'.queue_limit = l /\ q' = SetLimit(q, l)
    BY <1>0, <1>6, <2>1, SetLimitOK DEF SetQueueLimit
  <2>3. CASE l = q.queue_limit
    <3>1. q'.queue_length = q.queue_length
      BY <2>2 DEF SetLimit, Queue
    <3> QED
      BY <1>0, <1>6, <2>2, <2>3, <3>1 DEF SetQueueLimit, Fits, IsFull
  <2>4. CASE l # q.queue_limit
    <3>1. ~IsFull(q')
      BY <2>2, <2>4 DEF LimitLeavesRoom, vars
    <3> QED
      BY <2>2, <3>1 DEF IsFull, Fits, QueueOK, QueueType
  <2> QED
    BY <2>3, <2>4
<1>7. ASSUME UNCHANGED q, input' => input \/ ~IsFull(q) PROVE Goal
  BY <1>0, <1>7
<1>8. CASE OnPktCaptureEnd
  <2>1. ~IsQueuing(q) => ~IsFull(q)
    BY DEF IsQueuing, IsFull
  <2> QED
    BY <1>7, <1>8, <2>1 DEF OnPktCaptureEnd
<1>9. CASE OnTxTimeoutIdle
  <2>1. ~IsQueuing(q) => ~IsFull(q)
    BY DEF IsQueuing, IsFull
  <2> QED
    BY <1>7, <1>9, <2>1 DEF OnTxTimeoutIdle
<1>10. ASSUME UNCHANGED << q, input >> PROVE Goal
  BY <1>0, <1>10
<1> QED
  BY <1>1, <1>2, <1>3, <1>4, <1>5, <1>6, <1>8, <1>9, <1>10
     DEF Next, OnTxTimeout, HostWrites, OnPktOutputEnd, OnPktCapture, OnErrorTimeout,
         SetTxRateLimit, vars

\* OnPktOutput is never entered with a full queue (the ASSERT at
\* nrlsmf.cpp:4776), as long as no "queue" command leaves the queue full.
THEOREM OutputFindsRoom == Spec /\ [][LimitLeavesRoom]_vars => []OutputHasRoom
<1>1. RoomInv => OutputHasRoom
  BY DEF RoomInv, OutputHasRoom
<1> QED
  BY <1>1, InitRoom, NextRoom, SpecFrames, PTL DEF Spec
=============================================================================
