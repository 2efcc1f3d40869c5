-------------------------------- MODULE SmfTx --------------------------------
(***************************************************************************)
(* The transmit side of one nrlsmf interface: a pcap device, optionally    *)
(* bonded with a virtual interface (a "device", whose frames come from the *)
(* host's stack), an output queue, and the three ways the single-threaded  *)
(* dispatcher learns that it may send again: the tx timer (rate limit or   *)
(* send error), the pcap output notification (EAGAIN) and the virtual      *)
(* interface's input notification.  nrlsmf.cpp juggles the three by hand   *)
(* in SendFrame, OnTxTimeout, OnPktCapture, OnPktOutput and in the "rate"  *)
(* and "queue" commands.                                                   *)
(*                                                                         *)
(* Handlers run to completion one after the other; the two that loop are   *)
(* one step per frame, during which the host's stack may write more.       *)
(* Times and lengths are abstracted: an active timer may fire at any time. *)
(* A failed ASSERT is not modelled as a stop (release build): the asserted *)
(* conditions are properties below.                                        *)
(***************************************************************************)
EXTENDS SmfQueueOps

CONSTANTS
    HasVif,      \* the interface is a "device" with a virtual interface
    InitLimits,  \* smf_queue_limit when the interface is added
    LimitChanges,\* the changes <<from, to>> the "queue" command makes later
    Rates        \* -1 unlimited, 0 stopped, a positive rate

ASSUME VifAssumption == HasVif \in BOOLEAN
ASSUME LimitsAssumption == InitLimits \subseteq Int /\ LimitChanges \subseteq Int \X Int
ASSUME RatesAssumption == Rates \subseteq Int

VARIABLES
    q,        \* the interface's packet queue (SmfQueueOps)
    rate,     \* mech->GetTxRateLimit()
    timer,    \* mech->GetTxTimer().IsActive()
    output,   \* cap->OutputNotification()
    input,    \* vif->InputNotification()
    handler,  \* the looping handler that is running, or "idle"
    vifq,     \* frames the host's stack wrote to the virtual interface
    fresh,    \* frames not yet created
    sent,     \* frames the device accepted
    dropped   \* frames given up

vars == << q, rate, timer, output, input, handler, vifq, fresh, sent, dropped >>

Init ==
    /\ \E l \in InitLimits : q = EmptyQueue(l)
    /\ rate \in Rates
    /\ timer = FALSE /\ output = FALSE /\ input = HasVif
    /\ handler = "idle"
    /\ vifq = << >> /\ fresh = Packet /\ sent = {} /\ dropped = {}

-----------------------------------------------------------------------------
\* Sending one frame

Blocked == output \/ timer \/ rate = 0

Bumped(x, f) == IF Bumps(x, f) THEN {GetHead(x)} ELSE {}

\* A definition named X_Fault is X with a plausible bug, used nowhere: it is
\* put in the place of X to see a property catch the bug.
QueueOrDrop_NeverStopsInput(x, f) ==
    \/ /\ IsQueuing(x) /\ Accepts(x, f)
       /\ q' = Enqueue(x, f)
       /\ dropped' = dropped \cup Bumped(x, f)
       /\ UNCHANGED input
    \/ /\ ~(IsQueuing(x) /\ Accepts(x, f))
       /\ q' = x
       /\ dropped' = dropped \cup {f}
       /\ input' = FALSE

QueueOrDrop_LosesBumped(x, f) ==
    \/ /\ IsQueuing(x) /\ Accepts(x, f)
       /\ q' = Enqueue(x, f)
       /\ input' = (input /\ ~IsFull(Enqueue(x, f)))
       /\ UNCHANGED dropped
    \/ /\ ~(IsQueuing(x) /\ Accepts(x, f))
       /\ q' = x
       /\ dropped' = dropped \cup {f}
       /\ input' = FALSE

\* Enqueue f into x for later service, or give it up; input is what the
\* virtual interface's notification was when the attempt began.
QueueOrDrop(x, f) ==
    \/ /\ IsQueuing(x) /\ Accepts(x, f)
       /\ q' = Enqueue(x, f)
       /\ dropped' = dropped \cup Bumped(x, f)
       /\ input' = (input /\ ~IsFull(Enqueue(x, f)))
    \/ /\ ~(IsQueuing(x) /\ Accepts(x, f))
       /\ q' = x
       /\ dropped' = dropped \cup {f}
       /\ input' = FALSE

\* SmfApp::SendFrame(iface, f) when the queue is x.
SendFrame(x, f) ==
    \/ /\ Blocked
       /\ QueueOrDrop(x, f)
       /\ UNCHANGED << timer, output, sent >>
    \/ \* the device takes the frame
       /\ ~Blocked
       /\ sent' = sent \cup {f}
       /\ timer' = (rate > 0)
       /\ input' = (input /\ ~(rate > 0 /\ ~IsQueuing(x)))
       /\ q' = x
       /\ UNCHANGED << output, dropped >>
    \/ \* EAGAIN or EWOULDBLOCK
       /\ ~Blocked
       /\ output' = TRUE
       /\ QueueOrDrop(x, f)
       /\ UNCHANGED << timer, sent >>
    \/ \* a send error (ENOBUFS): wait with the timer
       /\ ~Blocked
       /\ timer' = TRUE
       /\ QueueOrDrop(x, f)
       /\ UNCHANGED << output, sent >>

-----------------------------------------------------------------------------
\* The frames' sources

\* The host's stack (another thread of control) writes to the vif.
HostWrites(f) ==
    /\ HasVif /\ f \in fresh
    /\ vifq' = Append(vifq, f)
    /\ fresh' = fresh \ {f}
    /\ UNCHANGED << q, rate, timer, output, input, handler, sent, dropped >>

\* A packet captured on another interface is forwarded on this one.
ForwardFrame(f) ==
    /\ handler = "idle" /\ f \in fresh
    /\ SendFrame(q, f)
    /\ fresh' = fresh \ {f}
    /\ UNCHANGED << rate, handler, vifq >>

\* One turn of OnPktOutput's loop: read a frame from the vif and send it,
\* until there is none or the input notification was turned off.
OnPktOutput ==
    /\ \/ handler = "idle" /\ input
       \/ handler = "OnPktOutput"
    /\ vifq # << >>
    /\ SendFrame(q, vifq[1])
    /\ vifq' = Tail(vifq)
    /\ handler' = IF input' THEN "OnPktOutput" ELSE "idle"
    /\ UNCHANGED << rate, fresh >>

OnPktOutputEnd ==
    /\ handler = "OnPktOutput" /\ vifq = << >>
    /\ handler' = "idle"
    /\ UNCHANGED << q, rate, timer, output, input, vifq, fresh, sent, dropped >>

-----------------------------------------------------------------------------
\* The device may be written again: OnPktCapture(NOTIFY_OUTPUT)

OnPktCapture ==
    /\ handler = "idle" /\ output
    /\ output' = FALSE
    /\ handler' = IF rate = 0 THEN "idle" ELSE "OnPktCapture"
    /\ UNCHANGED << q, rate, timer, input, vifq, fresh, sent, dropped >>

\* One turn of its loop: the frame leaves the queue before SendFrame tries
\* it, and goes through SendFrame's own enqueuing when it cannot be sent.
SendQueued ==
    /\ handler = "OnPktCapture" /\ ~Blocked
    /\ q.list # << >>
    /\ SendFrame(Dequeue(q), PreviewPacket(q))
    /\ UNCHANGED << rate, handler, vifq, fresh >>

OnPktCaptureEnd_ForgetsVif ==
    /\ handler = "OnPktCapture"
    /\ q.list = << >> \/ Blocked
    /\ handler' = "idle"
    /\ UNCHANGED << q, rate, timer, output, input, vifq, fresh, sent, dropped >>

OnPktCaptureEnd ==
    /\ handler = "OnPktCapture"
    /\ q.list = << >> \/ Blocked
    /\ input' = (input \/ (HasVif /\ IF IsQueuing(q) THEN ~IsFull(q) ELSE ~Blocked))
    /\ handler' = "idle"
    /\ UNCHANGED << q, rate, timer, output, vifq, fresh, sent, dropped >>

-----------------------------------------------------------------------------
\* The tx timer fires: OnTxTimeout

\* No rate limit: the timer was waiting for a send error to pass.
OnErrorTimeout ==
    /\ handler = "idle" /\ timer /\ rate < 0
    /\ timer' = FALSE
    /\ output' = FALSE
    /\ handler' = "OnPktCapture"
    /\ UNCHANGED << q, rate, input, vifq, fresh, sent, dropped >>

\* After a queued frame was sent, a frame of the vif takes its place.
Refill(x) ==
    \/ /\ vifq = << >>
       /\ q' = x
       /\ input' = HasVif
       /\ UNCHANGED << vifq, dropped >>
    \/ /\ vifq # << >>
       /\ q' = IF Accepts(x, vifq[1]) THEN Enqueue(x, vifq[1]) ELSE x
       /\ dropped' = dropped \cup
             (IF Accepts(x, vifq[1]) THEN Bumped(x, vifq[1]) ELSE {vifq[1]})
       /\ input' = (input /\ ~IsFull(q'))
       /\ vifq' = Tail(vifq)

OnTxTimeoutQueued ==
    /\ handler = "idle" /\ timer /\ rate >= 0
    /\ q.list # << >>
    /\ \/ /\ sent' = sent \cup {PreviewPacket(q)}
          /\ Refill(Dequeue(q))
          /\ UNCHANGED << timer, output >>
       \/ \* EAGAIN: wait for the output notification instead
          /\ output' = TRUE /\ timer' = FALSE
          /\ UNCHANGED << q, input, vifq, sent, dropped >>
       \* after another send error only the timer's interval changes
    /\ UNCHANGED << rate, handler, fresh >>

\* What the timer does with a vif frame the device would not take.
KeepVifFrame(f) ==
    \/ /\ IsQueuing(q) /\ Accepts(q, f)
       /\ q' = Enqueue(q, f)
       /\ dropped' = dropped \cup Bumped(q, f)
    \/ /\ ~(IsQueuing(q) /\ Accepts(q, f))
       /\ q' = q
       /\ dropped' = dropped \cup {f}

InputAfterKeep == input /\ ~(IsQueuing(q) /\ IsFull(q'))

OnTxTimeoutVif ==
    /\ handler = "idle" /\ timer /\ rate >= 0
    /\ q.list = << >> /\ HasVif /\ vifq # << >>
    /\ vifq' = Tail(vifq)
    /\ \/ /\ sent' = sent \cup {vifq[1]}
          /\ UNCHANGED << q, timer, output, input, dropped >>
       \/ \* EAGAIN
          /\ KeepVifFrame(vifq[1])
          /\ output' = TRUE /\ timer' = FALSE
          /\ input' = IF IsQueuing(q) THEN InputAfterKeep ELSE TRUE
          /\ UNCHANGED sent
       \/ \* another send error
          /\ KeepVifFrame(vifq[1])
          /\ input' = InputAfterKeep
          /\ UNCHANGED << timer, output, sent >>
    /\ UNCHANGED << rate, handler, fresh >>

OnTxTimeoutIdle_ForgetsVif ==
    /\ handler = "idle" /\ timer /\ rate >= 0
    /\ q.list = << >> /\ vifq = << >>
    /\ timer' = FALSE
    /\ UNCHANGED << q, rate, output, input, handler, vifq, fresh, sent, dropped >>

\* Nothing to send: the timer stops, and a vif without queue is polled again.
OnTxTimeoutIdle ==
    /\ handler = "idle" /\ timer /\ rate >= 0
    /\ q.list = << >> /\ vifq = << >>
    /\ timer' = FALSE
    /\ input' = (input \/ (HasVif /\ ~IsQueuing(q)))
    /\ UNCHANGED << q, rate, output, handler, vifq, fresh, sent, dropped >>

OnTxTimeout == OnErrorTimeout \/ OnTxTimeoutQueued \/ OnTxTimeoutVif \/ OnTxTimeoutIdle

-----------------------------------------------------------------------------
\* Commands

SetTxRateLimit_KeepsTimer(r) ==
    /\ handler = "idle"
    /\ rate' = r
    /\ timer' = (timer \/ (rate = 0 /\ r # 0 /\ ~output))
    /\ UNCHANGED << q, output, input, handler, vifq, fresh, sent, dropped >>

SetTxRateLimit_NoRestart(r) ==
    /\ handler = "idle"
    /\ rate' = r
    /\ timer' = (timer /\ r # 0)
    /\ UNCHANGED << q, output, input, handler, vifq, fresh, sent, dropped >>

SetTxRateLimit(r) ==
    /\ handler = "idle"
    /\ rate' = r
    /\ timer' = IF rate = 0 THEN timer \/ (r # 0 /\ ~output)
                ELSE timer /\ r # 0
    /\ UNCHANGED << q, output, input, handler, vifq, fresh, sent, dropped >>

SetQueueLimit(l) ==
    /\ handler = "idle" /\ << q.queue_limit, l >> \in LimitChanges
    /\ q' = SetLimit(q, l)
    /\ UNCHANGED << rate, timer, output, input, handler, vifq, fresh, sent, dropped >>

Next ==
    \/ \E f \in Packet : HostWrites(f) \/ ForwardFrame(f)
    \/ OnPktOutput \/ OnPktOutputEnd
    \/ OnPktCapture \/ SendQueued \/ OnPktCaptureEnd
    \/ OnTxTimeout
    \/ \E r \in Rates : SetTxRateLimit(r)
    \/ \E l \in {c[2] : c \in LimitChanges} : SetQueueLimit(l)

Spec == Init /\ [][Next]_vars

\* The dispatcher serves every pending event (weak fairness of the handlers),
\* and a device that is tried again and again accepts a frame.
DeviceAccepts == sent' # sent

Fairness ==
    /\ WF_vars(OnPktOutput) /\ WF_vars(OnPktOutputEnd)
    /\ WF_vars(OnPktCapture) /\ WF_vars(SendQueued) /\ WF_vars(OnPktCaptureEnd)
    /\ WF_vars(OnTxTimeout)
    /\ SF_vars(SendQueued /\ DeviceAccepts)
    /\ SF_vars(OnTxTimeout /\ DeviceAccepts)

FairSpec == Spec /\ Fairness

-----------------------------------------------------------------------------
\* Properties

\* Type invariant, the first part of FramesAccounted; the queue's own
\* invariants hold inside the scheduler.
TypeOK ==
    /\ q \in QueueType /\ Consistent(q) /\ MarkedLastOut(q)
    /\ rate \in Rates
    /\ timer \in BOOLEAN /\ output \in BOOLEAN
    /\ input \in BOOLEAN /\ (input => HasVif)
    /\ handler \in {"idle", "OnPktOutput", "OnPktCapture"}
    /\ vifq \in Seq(Packet) /\ fresh \subseteq Packet
    /\ sent \subseteq Packet /\ dropped \subseteq Packet

\* The scheduler waits for the device in one way at a time: the timer and the
\* output notification are never armed together, and a stopped interface has
\* no timer (the ASSERTs at nrlsmf.cpp:450, 501, 511 and 5125).
WaitsOneWay == ~(timer /\ output) /\ (rate = 0 => ~timer)

\* No lost wake-up: while frames are queued and the interface is not stopped,
\* something that will call the scheduler again is armed.
NoLostWakeup ==
    handler = "idle" /\ q.list # << >> => timer \/ output \/ rate = 0

\* The virtual interface is never left unheard: its notification is on, or an
\* armed wake-up will poll it (the comment at nrlsmf.cpp:5352 relies on it).
\* The code keeps this as long as no "queue" command changes a limit of 0: one
\* that does lets the timer stop with the notification off (nrlsmf.cpp:666).
VifIsHeard ==
    handler = "idle" /\ HasVif => input \/ timer \/ output \/ rate = 0

\* OnPktOutput is never entered with a full queue (ASSERT at nrlsmf.cpp:4776).
\* The code keeps this as long as no "queue" command lowers the limit to what
\* is queued: the command (nrlsmf.cpp:2103) leaves the notification on.
OutputHasRoom ==
    handler = "idle" /\ input /\ vifq # << >> => ~IsQueuing(q) \/ ~IsFull(q)

\* A frame is at one place at a time and none disappears: it is in the vif,
\* in the queue, sent or counted as dropped.  This is about frames, which are
\* copied from buffer to buffer; SmfQueue is about the buffers.
Places == << fresh, {vifq[i] : i \in 1 .. Len(vifq)}, Queued(q), sent, dropped >>
FramesAccounted ==
    /\ TypeOK
    /\ \A f \in Packet : \E i \in 1 .. 5 :
        f \in Places[i] /\ \A j \in (1 .. 5) \ {i} : f \notin Places[j]

\* Every frame the host wrote or the queue holds is served, one way or the
\* other, unless the operator stops the interface.
EveryFrameServed ==
    \A f \in Packet :
        (f \in Places[2] \cup Places[3]) ~> (f \in sent \cup dropped \/ rate = 0)
=============================================================================
