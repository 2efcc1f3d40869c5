---------------------------- MODULE SmfQueueOps ----------------------------
(***************************************************************************)
(* The per-interface output queue of nrlsmf (class SmfQueue) as a value    *)
(* and the results of its methods.  A queue is a record                    *)
(*   list            the packets in output order: list[1] is the ProtoList *)
(*                   tail (next out), the last element is its head         *)
(*   priority_index  the "Last Out" packet of the higher priority          *)
(*   queue_limit     -1 no limit, 0 no queuing, otherwise the depth        *)
(*   queue_length    the count the code keeps beside the list              *)
(* SmfQueue gives these results a state machine of their own; SmfTx uses   *)
(* them inside the transmit scheduler's handlers.                          *)
(***************************************************************************)
EXTENDS Integers, Sequences

CONSTANTS
    Packet,          \* frames, as the queue holds them
    PriorityPacket,  \* those whose content IsPriorityFrame() accepts (OSPF)
    None             \* the NULL pointer

ASSUME PriorityAssumption == PriorityPacket \subseteq Packet
ASSUME NoneAssumption == None \notin Packet

QueueType ==
    [list : Seq(Packet), priority_index : Packet \cup {None},
     queue_limit : Int, queue_length : Nat]

Queued(q) == {q.list[i] : i \in 1 .. Len(q.list)}

IsPriority(p) == p \in PriorityPacket

Queue(list, index, limit, length) ==
    [list |-> list, priority_index |-> index,
     queue_limit |-> limit, queue_length |-> length]

EmptyQueue(limit) == Queue(<< >>, None, limit, 0)

\* The test EnqueuePacket makes itself: unlike IsFull it holds at limit 0.
\* Here and below, a definition named X_Fault is X with a plausible bug.  It is
\* used nowhere: it is put in the place of X to see a property catch the bug.
AtLimit_OneLate(q) == q.queue_limit >= 0 /\ q.queue_length > q.queue_limit

AtLimit(q) == q.queue_limit >= 0 /\ q.queue_length >= q.queue_limit

\* SmfQueueBase::IsFull(): what the interface's QueueIsFull() answers.
IsFull(q) == q.queue_limit > 0 /\ q.queue_length >= q.queue_limit

IsQueuing(q) == q.queue_limit # 0

\* ProtoList::GetHead(), the newest packet in output order.
GetHead(q) == IF q.list = << >> THEN None ELSE q.list[Len(q.list)]

PreviewPacket(q) == IF q.list = << >> THEN None ELSE q.list[1]

RemoveHead(q) ==
    Queue(SubSeq(q.list, 1, Len(q.list) - 1), q.priority_index,
          q.queue_limit, q.queue_length - 1)

\* How many packets stand in front of the place priority_index marks.
Mark(q) ==
    IF q.priority_index = None THEN 0
    ELSE CHOOSE i \in 1 .. Len(q.list) : q.list[i] = q.priority_index

InsertAtMark_Front(q, p) == << p >> \o q.list

\* Insert(pkt, *priority_index), or Append(pkt) when there is no mark.
\* Inserting next to an item that is not in the list leaves the list's own
\* chain as it was.
InsertAtMark(q, p) ==
    IF q.priority_index # None /\ \A i \in 1 .. Len(q.list) : q.list[i] # q.priority_index
    THEN q.list
    ELSE [i \in 1 .. Len(q.list) + 1 |->
             IF i <= Mark(q) THEN q.list[i]
             ELSE IF i = Mark(q) + 1 THEN p ELSE q.list[i - 1]]

Accepts_BelowLimit(q, p) == ~AtLimit(q)

Accepts(q, p) ==
    \/ ~AtLimit(q)
    \/ IsPriority(p) /\ GetHead(q) # q.priority_index

Bumps(q, p) == IsPriority(p) /\ AtLimit(q) /\ Accepts(q, p)

EnqueuePriority(q, p) ==
    Queue(InsertAtMark(q, p), p, q.queue_limit, q.queue_length + 1)

EnqueueNormal_NotCounted(q, p) ==
    Queue(Append(q.list, p), q.priority_index, q.queue_limit, q.queue_length)

EnqueueNormal(q, p) ==
    Queue(Append(q.list, p), q.priority_index, q.queue_limit, q.queue_length + 1)

\* The queue EnqueuePacket(p) leaves when it returns true.
Enqueue(q, p) ==
    IF IsPriority(p)
    THEN EnqueuePriority(IF AtLimit(q) THEN RemoveHead(q) ELSE q, p)
    ELSE EnqueueNormal(q, p)

Dequeue_KeepsMark(q) ==
    IF q.list = << >> THEN q
    ELSE Queue(Tail(q.list), q.priority_index, q.queue_limit, q.queue_length - 1)

\* The queue DequeuePacket() leaves behind; it returns PreviewPacket(q).
Dequeue(q) ==
    IF q.list = << >> THEN q
    ELSE Queue(Tail(q.list),
               IF q.list[1] = q.priority_index THEN None ELSE q.priority_index,
               q.queue_limit, q.queue_length - 1)

\* SetQueueLimit(limit), at any time and whatever the queue holds.
SetLimit(q, limit) == Queue(q.list, q.priority_index, limit, q.queue_length)
-----------------------------------------------------------------------------

\* No packet is linked twice and the count kept by hand is the list's length.
Consistent(q) ==
    /\ q.queue_length = Len(q.list)
    /\ \A i, j \in 1 .. Len(q.list) : q.list[i] = q.list[j] => i = j

\* smfQueue.cpp:42: priority_index is the "Last Out" packet of the higher
\* priority: all that leave up to it are priority packets, none after it is.
MarkedLastOut(q) ==
    \/ q.priority_index = None /\ \A i \in 1 .. Len(q.list) : ~IsPriority(q.list[i])
    \/ \E m \in 1 .. Len(q.list) :
          /\ q.list[m] = q.priority_index
          /\ \A i \in 1 .. Len(q.list) : IsPriority(q.list[i]) <=> i <= m
=============================================================================
