------------------------------ MODULE SmfQueue ------------------------------
(***************************************************************************)
(* The output queue of one SMF interface and the buffers its packets lie   *)
(* in.  A packet here is a frame's content; a buffer is an SmfPacket.  The *)
(* callers of the queue (SendFrame, OnPktCapture, OnTxTimeout) take the    *)
(* buffers from pkt_pool, or from the heap when the pool is empty, and     *)
(* each disposes in its own way of the buffer it dequeued.  The limit is   *)
(* changed on the fly by the "queue" command.                              *)
(*                                                                         *)
(* A step is one method call of the queue with what its caller does about  *)
(* it: OnTxTimeout, which dequeues and may enqueue again, takes two, with  *)
(* the buffer in hand between them.  The heap is bounded (Buffer).         *)
(***************************************************************************)
EXTENDS SmfQueueOps

CONSTANTS
    Buffer,  \* the SmfPackets there is memory for
    Limits   \* the limits the "queue" command sets

ASSUME BufferAssumption == None \notin Buffer
ASSUME QueueLimitsAssumption == Limits \subseteq Int

VARIABLES
    queue,   \* the queue, a record (see SmfQueueOps)
    buffer,  \* the buffer each queued packet lies in, None for the others
    pool,    \* pkt_pool
    heap,    \* buffers not allocated yet
    hand     \* the buffer OnTxTimeout has dequeued and not disposed of, or None

queue_vars == << queue, buffer, pool, heap, hand >>

-----------------------------------------------------------------------------

\* SmfQueue has no constructor and priority_index holds what the heap held:
\* this is the case of memory that is zero.
QueueInit ==
    /\ \E l \in Limits : queue = EmptyQueue(l)
    /\ buffer = [p \in Packet |-> None]
    /\ pool = {} /\ heap = Buffer /\ hand = None

\* The buffers GetPacket() may return: one of the pool, or else a new one.
GetPacket == IF pool # {} THEN pool ELSE heap

\* Which buffer each packet of q lies in, when p was put into b.
Filled(q, p, b) ==
    [f \in Packet |-> IF f \notin Queued(q) THEN None
                      ELSE IF f = p THEN b ELSE buffer[f]]

\* What EnqueuePacket(p) itself puts into the pool.
BumpedBuffer(p) == IF Bumps(queue, p) THEN {buffer[GetHead(queue)]} ELSE {}

\* SendFrame, or OnTxTimeout with a frame of the virtual interface, copies
\* packet p into buffer b and offers it: b goes to the pool when it is refused.
EnqueuePacket(p, b) ==
    /\ hand = None /\ IsQueuing(queue)
    /\ p \notin Queued(queue) /\ b \in GetPacket
    /\ heap' = heap \ {b}
    /\ \/ /\ Accepts(queue, p)
          /\ queue' = Enqueue(queue, p)
          /\ buffer' = Filled(queue', p, b)
          /\ pool' = (pool \ {b}) \cup BumpedBuffer(p)
       \/ /\ ~Accepts(queue, p)
          /\ pool' = pool \cup {b}
          /\ UNCHANGED << queue, buffer >>
    /\ UNCHANGED hand

\* OnPktCapture dequeues a packet for SendFrame, which copies it when it has
\* to be enqueued again (EnqueuePacket).  Nobody disposes of the buffer.
DequeueToSend ==
    /\ hand = None /\ queue.list # << >>
    /\ queue' = Dequeue(queue)
    /\ buffer' = Filled(queue', None, None)
    /\ UNCHANGED << pool, heap, hand >>

\* OnTxTimeout dequeues the packet it has just sent ...
DequeueSent ==
    /\ hand = None /\ queue.list # << >>
    /\ hand' = buffer[PreviewPacket(queue)]
    /\ queue' = Dequeue(queue)
    /\ buffer' = Filled(queue', None, None)
    /\ UNCHANGED << pool, heap >>

\* ... and puts its buffer back,
PutBack ==
    /\ hand # None
    /\ pool' = pool \cup {hand}
    /\ hand' = None
    /\ UNCHANGED << queue, buffer, heap >>

\* Replace without the "return true" at nrlsmf.cpp:547.  Here and elsewhere a
\* definition named X_Fault is X with a plausible bug, used nowhere.
Replace_PutsToo(p) ==
    /\ hand # None /\ p \notin Queued(queue)
    /\ \/ /\ Accepts(queue, p)
          /\ queue' = Enqueue(queue, p)
          /\ buffer' = Filled(queue', p, hand)
          /\ pool' = pool \cup BumpedBuffer(p) \cup {hand}
       \/ /\ ~Accepts(queue, p)
          /\ pool' = pool \cup {hand}
          /\ UNCHANGED << queue, buffer >>
    /\ hand' = None
    /\ UNCHANGED heap

\* or reads packet p of the virtual interface into it and offers that.  It
\* does not look at EnqueuePacket's answer.
Replace(p) ==
    /\ hand # None /\ p \notin Queued(queue)
    /\ \/ /\ Accepts(queue, p)
          /\ queue' = Enqueue(queue, p)
          /\ buffer' = Filled(queue', p, hand)
          /\ pool' = pool \cup BumpedBuffer(p)
       \/ ~Accepts(queue, p) /\ UNCHANGED << queue, buffer, pool >>
    /\ hand' = None
    /\ UNCHANGED heap

\* The "queue" command, through SetQueueLimit.
QueueCommand(l) ==
    /\ hand = None
    /\ queue' = SetLimit(queue, l)
    /\ UNCHANGED << buffer, pool, heap, hand >>

QueueNext ==
    \/ \E p \in Packet, b \in Buffer : EnqueuePacket(p, b)
    \/ DequeueToSend
    \/ DequeueSent \/ PutBack
    \/ \E p \in Packet : Replace(p)
    \/ \E l \in Limits : QueueCommand(l)

QueueSpec == QueueInit /\ [][QueueNext]_queue_vars

-----------------------------------------------------------------------------

\* Type invariant: the queue, the buffers and where they can be.
QueueTypeOK ==
    /\ queue \in QueueType
    /\ buffer \in [Packet -> Buffer \cup {None}]
    /\ pool \subseteq Buffer /\ heap \subseteq Buffer
    /\ hand \in Buffer \cup {None}

\* Two packets never lie in one buffer, and none in a buffer that somebody else
\* may fill: one that is in the pool, not allocated, or in OnTxTimeout's hand.
\* EnqueuePacket puts buffers into the pool behind its callers' backs, and
\* OnTxTimeout re-uses the one it dequeued.  The separate count never drifts
\* from the list meanwhile.  That every buffer is somewhere is not so: the two
\* callers lose some (DequeueToSend, Replace).
BufferHeldOnce ==
    /\ Consistent(queue)
    /\ \A p \in Queued(queue) :
        /\ buffer[p] \in Buffer \ (pool \cup heap \cup {hand})
        /\ \A r \in Queued(queue) : buffer[p] = buffer[r] => p = r
    /\ pool \cap heap = {} /\ hand \notin pool \cup heap

\* The mark through which EnqueuePacket finds where the next priority packet
\* goes always is what the comment at smfQueue.cpp:42 says it is.
MarkIsLastOut == MarkedLastOut(queue)

\* EnqueuePacket turns a priority packet away ("full of priority packets")
\* only when there is no lower packet left to bump.
PriorityRefusedOnlyByPriority ==
    \A p \in PriorityPacket : ~Accepts(queue, p) => Queued(queue) \subseteq PriorityPacket

\* No step of the queue makes it longer than its limit, even after the limit
\* was lowered below the present length.
NeverGrowsPastLimit ==
    [][Len(queue'.list) > Len(queue.list)
       => queue.queue_limit < 0 \/ Len(queue'.list) <= queue.queue_limit]_queue_vars

\* SmfQueue implements the two-level FIFO its comment promises: the packets up
\* to the mark are the high queue, the others the low one.
Fifo == INSTANCE PriorityFifo WITH
    high <- SubSeq(queue.list, 1, Mark(queue)),
    low <- SubSeq(queue.list, Mark(queue) + 1, Len(queue.list)),
    limit <- queue.queue_limit

ImplementsPriorityFifo == Fifo!Spec
=============================================================================
