# A verification development for nrlsmf

nrlsmf floods multicast packets through wireless networks (RFC 6621, Simplified
Multicast Forwarding): it captures frames, decides for every interface whether
to relay them, remembers them so that no copy is relayed twice, and writes them
out under rate limits and finite queues.  The modules here model the parts of
it where the order of events decides whether it works, check them with TLC on
small instances, and prove the core for all instances with TLAPS.

File names below are relative to `src/`: `common/` is `src/common`, `include/`
is `include`.

## 1. The system

| part | code | state | operations |
|---|---|---|---|
| Output queue | `common/smfQueue.cpp`, `include/smfQueue.h` | one list, `priority_index`, `queue_limit`, `queue_length` | `EnqueuePacket`, `DequeuePacket`, `PreviewPacket`, `SetQueueLimit` |
| Transmit scheduler | `common/nrlsmf.cpp` (`SendFrame` .. `OnTxTimeout`) | tx timer, output and input notification, tx rate, the queue | `SendFrame`, `OnPktOutput`, `OnPktCapture`, `OnTxTimeout`, commands `rate` and `queue` |
| Duplicate table | `common/smfDpd.cpp` (`SmfDpdTable`) | per flow a tree of ids, a list by age, `pkt_count`; item pools | `IsDuplicate`, `Prune`, `Destroy` |
| Duplicate window | `common/smfDpd.cpp` (`SmfDpdWindow`) | per flow a bit mask; flows by age | `IsDuplicate`, `Prune`, `Destroy` |
| Relay decision | `common/smf.cpp` (`ProcessPacket`) | interfaces, their associates and detectors; `relay_enabled`, `relay_selected` | one call per captured packet |
| Relay control | `common/smf.cpp`, `OnCommand`, `OnControlMsg` | selector and neighbor lists, `delay_relay_off_timer` | `forward`, `relay`, `delayoff`, `selectorMac`, `neighborMac` |
| Packet cache, hop-by-hop ARQ | `common/smfQueue.cpp` (`SmfCache`), `common/smf.cpp` | UMP sequence, cache, upstream history | `CachePacket`, NACK handler, `UpdateUpstreamHistory` |
| Elastic multicast | `common/mcastFib.cpp`, `include/mcastFib.h` | flow entries, active and idle list, memberships and their deadlines, upstream relays | `UpdateElasticRouting`, `HandleAck`, joins and leaves, the membership and prune timers |
| Flow table | `common/flowTable.cpp` | entries by flow description, the list of their prefix lengths | insert, remove, search, best match |
| Resequencing | `common/smfDpd.cpp` (`SmfSequenceMgr`), `common/smf.cpp` | a sequence per flow, hash stash | `IncrementSequence`, `ResequenceIPv6`, `ApplyHAV` |
| Groups, interface lifetime | `common/nrlsmf.cpp`, `common/smf.cpp` | groups, interfaces, associates, matchers | commands of groups, `remove`, interface events |
| Adaptive routing | `common/smartController.cpp` and others | learned path weights | only with `ADAPTIVE_ROUTING` |

**How they interact.**  The program is one thread: a protolib dispatcher calls
`OnPktCapture` when a device has frames (`NOTIFY_INPUT`) or may be written again
(`NOTIFY_OUTPUT`), `OnPktOutput` when the host's stack wrote to a virtual
interface, timers, and `OnControlMsg` for commands of a routing daemon.
`OnPktCapture` hands each frame to `HandleInboundPacket`, which calls
`Smf::ProcessPacket`; that asks the duplicate detector of every associated
interface and returns the interfaces to relay on; `SendFrame` writes the frame
on each, or queues it.  What a handler leaves armed (a timer, a notification)
is the only thing that makes the next one run.

**What is hard.**  No two handlers overlap, so the hazards are not data races
but *protocols between handlers*: five of them arm and disarm three wake-ups;
commands change limits, rates, relay state and lists between any two; the
network delivers copies of one packet in any order and number; entries age and
are evicted while copies are still on their way; and several structures keep
one fact twice (a list and its count, a tree and a list, a list and a pointer
into it).  Groups, interfaces, associates and matchers refer to each other by
address, and three kinds of deletion must keep that right.  `PROJECT.json` lists
the hazards line by line.

**What makes each part correct.**
The queue is a two-level FIFO, whose packets never share a buffer.  The scheduler always waits
for the device in exactly one way while it has work, and hears the host.  A
detector calls "duplicate" only what it has seen, knows at once what it was
asked about, and forgets no more than it says.  The relay decision relays a
packet at most once per interface, follows the relay algorithm, reaches every
node, and obeys the last command.  An elastic flow is acked upstream while
somebody wants it, is forwarded to whoever acks it, and is not acked for ever; a
membership lasts its whole term.  The flow table finds what matches, once, and the
best of it.  A
group that was configured without an error relays what it should until it is
changed, whatever else fails, comes or goes.

## 2. The modules

| module | models |
|---|---|
| `SmfQueueOps` | the queue as a value: what each method returns and leaves |
| `SmfQueue` | the queue, and the buffers its callers take, re-use, put back and lose, as a state machine |
| `PriorityFifo` | the abstract two-level FIFO that `smfQueue.cpp:41` promises |
| `SmfTx` | the transmit scheduler of one interface; uses `SmfQueueOps` |
| `SmfOutputProofs` | lemmas about the queue's methods, theorems about `SmfQueue` and `SmfTx` |
| `DuplicateFilter` | the abstract duplicate detector |
| `SmfDpdTable` | the table based detector, implements `DuplicateFilter` |
| `SmfDpdWindow` | the window based detector, implements `DuplicateFilter` |
| `SmfDpdTableProofs`, `SmfDpdWindowProofs` | theorems about the two detectors |
| `SmfFlood` | a network of relays whose detectors are duplicate filters |
| `SmfArq` | UMP numbers, packet cache, NACK and retransmission on one link |
| `SmfArqProofs` | theorems about `SmfArq` |
| `SmfFlowKeys` | flow descriptions: prefixes, and what a search for one finds |
| `SmfFlowTable` | a flow table with its list of prefix lengths |
| `SmfMembership` | the queue of elastic memberships and its timer |
| `Leases` | the abstract table of timed memberships |
| `SmfMembershipProofs` | theorems about `SmfMembership` |
| `SmfElastic` | flows, memberships, acking and forwarding of an elastic node; uses `SmfFlowKeys` |
| `SmfElasticProofs` | theorems about `SmfElastic` and `SmfFlowTable` |
| `SmfGroups` | interface groups, wildcards and interface lifetime |
| `SmfRelayProofs` | theorems about `SmfGroups` and `SmfFlood` |
| `SmfResequence` | resequencing, and what identifies a packet |
| `SmfResequenceProofs` | theorems about `SmfResequence` |
| `MC*` | instances for TLC, each with the `.cfg` files named after it |

Definitions named `X_Fault` (for instance `Dequeue_KeepsMark`) are a definition
`X` with a plausible bug.  Nothing uses them; putting one in the place of `X`
must make TLC report a certain property, which shows that the property can see
such a bug.  `PROJECT.json` pairs every property with one.

### SmfQueue

`queue.list[1]` is the ProtoList's *tail*, the next packet out; `Prepend` of the
code is `Append` here.  `Mark` is how many packets stand at or before the one
`priority_index` points to.  A packet's priority depends on its content alone
(`IsPriorityFrame`).  A packet is the content; the `SmfPacket` it lies in is its
`buffer`, which may be another one each time the packet is queued.

| code | model |
|---|---|
| `pkt_pool`; what `new` can still give | `pool`, `heap` |
| `SendFrame`, the branch that queues | `EnqueuePacket`: a buffer from `GetPacket`, back to the pool when refused |
| `EnqueuePacket` that bumps | `BumpedBuffer`, put into the pool by the queue itself |
| `OnPktCapture`, dequeue | `DequeueToSend`: nobody keeps the buffer |
| `OnTxTimeout`, dequeue after sending | `DequeueSent`; the buffer is in `hand` |
| the same, the virtual interface has a frame | `Replace`: the frame is read into that buffer and offered, the answer ignored |
| the same, it has none | `PutBack` |
| the `queue` command | `QueueCommand` |

### SmfTx

| code | model |
|---|---|
| `mech->GetTxTimer().IsActive()` | `timer` |
| `cap->OutputNotification()` | `output` |
| `vif->InputNotification()` | `input` |
| `mech->GetTxRateLimit()` | `rate` (-1, 0, positive) |
| `SendFrame` | `SendFrame(x, f)`, with the four outcomes blocked, sent, EAGAIN, other error |
| `OnPktOutput` | `OnPktOutput` (one turn), `OnPktOutputEnd` |
| `OnPktCapture(NOTIFY_OUTPUT)` | `OnPktCapture`, `SendQueued` (one turn), `OnPktCaptureEnd` |
| `OnTxTimeout` | `OnErrorTimeout`, `OnTxTimeoutQueued`, `OnTxTimeoutVif`, `OnTxTimeoutIdle` |
| commands | `SetTxRateLimit`, `SetQueueLimit` |

The two handlers that loop are one step per turn, because the host's stack (a
process of its own) may write between two turns; `handler` says which one is
running, and no other starts meanwhile.  Intervals are not modelled: an active
timer may fire in any state.  A failed `ASSERT` does not stop the model, as it
does not stop a release build: the asserted conditions are properties.

### SmfDpdTable

A flow's table keeps three things apart because the code does: the list that
can be reached from `head` (oldest first), whether `tail` is set, and the ids
the tree finds; and `pkt_count`, which only `IsDuplicate` updates.  Entries
carry their age in prune intervals.  Following a NULL pointer sets `crashed`,
after which nothing happens.  Prune visits the flows in one step; the state of
the pools within it does not change, so the step is equal to the loop.

### SmfDpdWindow

`Delta` is the signed distance as the code computes it in 32 bits, for numbers
of 8 to 32 bits; `Seen` and `Advance` are the answer and the effect of
`Flow::IsDuplicate`.  The sliding mask itself belongs to protolib: it is the
set of its bits and the last one set.

### SmfFlood

A copy in `air` is a frame on its way to one interface.  `Receive` is
`HandleInboundPacket` with `ProcessPacket`: `Checked` are the interfaces whose
detectors are asked, `Destinations` those it is relayed on, `Marked` the
detectors that know it afterwards.  What is abstracted:

* a copy that is lost stays in the air for ever, so safety holds with losses;
* the detectors are `DuplicateFilter`s with a bounded `Forget` for age and
  eviction; the runs `DpdTable` and `DpdWindow` show that the real ones do;
* every packet has an id, is multicast and is not tunnelled; groups are
  `cf`, `ecds` and `smpr` (no push or merge, none elastic);
* the selector and neighbor lists start as the control messages delivered
  before the flood set them.

### SmfArq

One upstream interface numbers its frames (`SendFrame`, `LoseControlFrames`),
keeps the reliable ones in the cache (`CachePacket`, `DequeuePacket`,
`RemovePackets`) and answers NACKs (`HandleNack`); the downstream interfaces
compare each number with the last (`SeqDelta`, `UpdatedHistory`) and ask for
what is missing (`Receive`).  The repair window is any cut between older and
newer frames.  `sent`, `got`, `asked`, `reset`, `resent` and `used` only serve
the properties.  Not modelled: an interface that changes while its cache is in
use, a frame without room for the option, and a number that comes round again
while its frame is cached (`MaxUsed` stays below one lap).  That data of the
unreliable class shares its number with the next reliable frame is modelled; so
a loss of the latter may go unnoticed, which no property forbids.

### SmfFlowKeys and SmfFlowTable

A description is a tuple of five fields, some of them open; its bits up to the
first open field are its key in a prefix tree.  `Fits`, `SubMatches` and
`BiMatches` are what the iterator of `flowTable.cpp` yields.  The tree itself is
protolib's (`Agree`).  `mask_list` is kept in 16-bit cells, longest first; an
insertion or removal shifts cells with `memmove`, to which the code gives a
number of cells where bytes are meant (`MoveBytes`): with two lengths that fit a
byte the moves happen to suffice, from three on they do not.  One action inserts
or removes one entry.

### SmfMembership

The state is that of `MembershipTable` and of the controller's timer; time
passes by `Pass`, one tick for all.  An EM-ACK either renews a membership or is
its first; the timer is set for the leader, deadlines wrap, and the queue is
sorted by the bare numbers.  It implements `Leases`: no membership ends before
its term unless it is revoked, and all that have run out end together, not later
than `MaxLate` ticks (the lateness of the timer itself).  A timer that is due
stays due when a handler sets it anew to fire at once: it is served next, and
lateness does not add up.

### SmfElastic

| code | model |
|---|---|
| `flow_table`, `Entry::acking_status`, forwarding status | `fib`, its `acking` and `forward` |
| `active_list`, `idle_list`, entry age | `active_list`, `idle_list`, `fresh` |
| `membership_table`, flags, idle count | `flags`, `idle_count` |
| `UpdateElasticRouting` with the controller's `Update` | `RecvPacket` |
| `HandleAck`, `AddManagedMembership`, `RemoveManagedMembership` | the same |
| `OnMembershipTimeout` of one membership | `Lapse` |
| `Entry::Age`, `PruneFlowList` | `GoesStale`, `PruneFlowList` |

Controller and forwarder meet through calls with a flow description that act on
all entries it matches; `FlowsOf` and `MembershipsOf` are those matches.  When a
packet is reported to the controller (`update`), how many were counted since the
last report (`n`) and whether an acking interval is over (`late`) are chosen
freely, within what the counters allow.  `acked` holds the EM-ACKs the last step
sent.  Left out: policies, `HYBRID` and `BLOCK`, `CopyStatus`, token bucket
rates, and the choice among relays by ETX.

### SmfGroups

The state is that of `iface_group_list`, `iface_list`, each interface's
associates, its input notification and resequence flag, `iface_matcher_list`,
and the devices the system has.  Operators take and return this state as a
record, since one command is a long sequence of updates each of which may fail:
what was done before stays done, as in the code.  Actions are the commands
(`Configure`, `RemoveNamed`, `RemovePush`, `RemoveEverywhere`, `RemoveMembers`)
and the events `IfaceUp` and `IfaceDown`.  A pointer to a deleted group is
`Freed`; the interfaces there are, and the devices the system has, come from one
set of indices (`Device`).  Where the code reads or compares one, or follows the NULL push source
of a relay or merge group, its behaviour is undefined and the model stops
(`crashed`).  Two matchers of one wildcard are kept in the order of their
commands.  Left out: relay types (any value does), tunnels (a merge group with
a flag), address changes, the firewall build, more than one interface after the
group in `remove`, and the elastic memberships of a new member.

### SmfResequence

| code | model |
|---|---|
| `ip4_seq_mgr`, `ip6_seq_mgr`: `flow_list` | `seq_mgr`, per version, with keys, next numbers and ages |
| `hash_stash`, the interfaces' detectors | `hash_stash`, `dpd`: sets of identities with ages |
| `idpd_enable`, hash algorithm | `mode` |
| `ProcessPacket` on an `rpush` source | `PushNumbered`, `PushAssisted`, `PushAsIs` |
| `ProcessPacket` on the MANET interface | `HearManet` |
| `OnPktIntercept`, outbound | `SendOwn4`, `SendOwn6` |
| `OnPruneTimeout` | the same, one prune interval |

A packet is what its identity is made of: addresses, the id of a fragment or
IPsec packet, the mark (IPv4 ID, SMF_DPD option) and its body.  `GetPktID` and
`PacketID` say what the detectors are asked about.  The detectors are exact sets, as
`DpdTable` shows.  `air` holds what neighbours still relay.  Two things are
assumed of the network: packets live no longer than a detector remembers
(`AirTime`), and fewer come in that time than there are numbers (`drawn`,
`RateAllows`).  One gateway, a single interface on each side, no early
TTL expiry; an internal hash (`ihash`) only lengthens identities.

## 3. The runs

| run | asks | bounds | states |
|---|---|---|---|
| Queue | is the queue a two-level FIFO, and is no buffer used for two things? | 2 priority packets, 3 others, 5 buffers, limits -1..3 | 3 335 |
| Tx | never two wake-ups, never none, every frame served? | 1 priority frame, 2 others; rates -1, 0, 1; limits -1..2, changed 1 to 2 and 2 to -1 | 5 934 |
| DpdTable | is the table a duplicate filter within its limit? | 2 flows, 3 ids of 2 bytes, 1 of 4, limit 2, age 1 | 153 000 |
| DpdWindow | is the window a duplicate filter across wraps and jumps? | window 4, ids of 8, 16 and 48 bits around the wrap and half the range away | 13 605 |
| Flood | once per interface, as commanded, and everywhere? | 5 nodes, 6 interfaces, all relay types, 1 packet, TTL 4, 1 forget | 40 800 |
| Arq | is the oldest evicted, each frame resent once, nothing asked for in vain? | 2 downstream, 32 numbers from 31 on, gaps of 2, 3 frames, cache of 2 | 888 000 |
| FlowTable | are the list of lengths and the searches exact? | the tables of a node: memberships of 2 groups and 2 flows on 2 interfaces; 3 flows with a policy for all | 307 |
| FlowTablePolicy | is the policy for all groups found next to one for a group? **No** | 3 flows, both policies | |
| Membership | does every membership last its term, and not longer? | 3 memberships, 12 ticks, term 3, timer up to 2 late | 34 124 |
| Elastic | is what is wanted acked and forwarded, and nothing else acked for ever? | 2 flows of one group, 1 interface, 1 relay, 2 packets end a membership | 6 321 |
| Groups | do configured groups keep working, and do deletions leave nothing behind? | 2 devices that a wildcard matches; cf, rpush, push, rmerge with wildcards | 156 415 |
| Resequence | is what is resequenced never taken for something else, and never sent back? | 1 host, 1 MANET node, 2 flows numbered per manager, numbers modulo 3, age 0, all modes | 425 271 |

**Why the bounds suffice.**  *Queue*: limits below, at and above the number of
priority packets, no limit and no queuing; five packets fill every one of them
with both kinds in front of the mark and behind it; five buffers let all five be
queued at once, and fewer are left once some were lost.  Buffers are symmetric:
no action tells one from another, and all that the run checks is safety.  *Tx*: three frames let one
be at the device, one in the queue and one in the virtual interface, or fill a
queue of two and bump; the only counts the handlers compare are "empty" and
"full".  The `queue` command raises limits only: what it does when it
lowers one or turns queuing on is a known divergence, below.  *DpdTable*: with
limit 2 a flow can be evicted, pruned to an empty list and refilled; the fourth
id has another length, so that evictions create pools; two flows share them.  *DpdWindow*: 8 bits is the smallest size the
code takes, the numbers are chosen on both sides of the wrap, inside the
window, beyond it and exactly half the range away.  *Flood*: the smallest
network in which two relays race to a third node, one of them under command
and the other under changing lists, behind a gateway with two interfaces; TTL 4
lets copies come back to where they were and still expire.  *Arq*: the first
number is the last before the wrap; three frames overflow the cache; a gap of
two is repaired, nine unheard control frames make a gap that is a new
beginning, and a late frame then comes from too far behind.  *FlowTable*: the
keys are all that the program inserts (flows, groups, wildcard, with and without
interface), two of a kind where counts matter; every subset is a table.
*Membership*: three memberships have a first, a middle and a last in the queue,
and the ticks wrap while all three are held.  *Elastic*: a second flow of the
group is what a leave or a lapse must not disturb; two packets are the
fewest that make a count differ from a flag; a second interface or relay
repeats what the first does, since flags and forwarding are kept per interface.
*Groups*: with two interfaces a group has a pair in each direction and one to
itself, and four groups of three modes contend for them; both are sources and
targets of push groups, from the template and by name.  *Resequence*: three
numbers wrap within a few packets; age 0 still makes a flow live through one
prune and end at the next; two flows share a manager's list (a host's and the
node's own) and two senders one flow (IPv6); a third packet alike exhausts the
assist values.

**Bounds in the specifications.**  `MaxForget` (how often a detector forgets),
`InitTtl`, `AgeMax`, `MaxSent`, `MaxAir` and `MaxUsed` (frames and numbers of
`SmfArq`), `TICKS` and `MaxLate`, and the finite sets of packets, frames, flows
and commands; nothing else is capped.

**Fairness.**  `Tx`, `Flood` and `Elastic` check liveness.  `SmfTx!Fairness` is
weak fairness of every handler whose event is pending, which is what protolib's
dispatcher gives, and strong fairness of "the device takes the frame": a
device tried again and again accepts one eventually.  Without the latter a
device that always answers EAGAIN is a legal behaviour.  Commands and writes of
the host are not fair.  `FairFlood` of `SmfFlood` is weak fairness of delivery: no
copy is lost for good.  It is used by `Coverage` only, which cannot hold
otherwise.  `SmfElastic!Fairness` asks no packet, EM-ACK or command to
come: a flow either has no packet for the timeout of its list and goes stale, or
has one, and then one is reported within `acking_interval_max`; and the prune
timer runs.

### What the failing run shows

* **FlowTablePolicy** (`flowTable.cpp:470`).  `memmove` moves half of the cells:
  with three prefix lengths in a table one is lost, and what stands under it is
  found no more.  For IPv6, whose lengths do not fit a byte, two are enough: when
  the longer leaves the list its high byte stays (with `AddrBits = 128` TLC finds
  `MaskListExact` violated in three steps).

### Known divergences without a run of their own

The models do here what the code does; the properties are stated so that they
hold nevertheless, or about the behaviours up to that point.

* `smfQueue.h:132`: `priority_index` is not initialised; the models start from
  zeroed memory.
* `nrlsmf.cpp:5131`: `OnPktCapture` dequeues a packet and gives its bytes to
  `SendFrame`, which copies them into another buffer if it has to queue them
  again (5247); "SendFrame() will re-enqueue frame", says the comment.  The
  dequeued `SmfPacket` is put nowhere: each packet sent upon an output
  notification costs one for good.
* `nrlsmf.cpp:542`: `OnTxTimeout` does not look at `EnqueuePacket`'s answer, so
  the buffer of a frame that is refused, as after the limit was lowered, is lost
  as well; `SendFrame` puts it back (5265).  What holds of the buffers, and is
  proved, is `BufferHeldOnce`: none is in two places.
* `nrlsmf.cpp:2103`: a `queue` command that lowers the limit to what is queued
  leaves the input notification on, and the next frame of the host ends a debug
  build at an ASSERT of `OnPktOutput` (4776): with limit 2 and one frame queued,
  the limit is set to 1.  `OutputHasRoom` holds under commands that do not lower
  the limit so far; the instance of `Tx` has no others.
* `nrlsmf.cpp:666`: a virtual interface put to sleep while its interface had no
  queue is not awakened once the `queue` command has given it one: the timer runs
  out, finds the interface queuing with nothing queued, and leaves the
  notification alone, on which the comment at 5352 relies.  `VifIsHeard`
  and `EveryFrameServed` are checked under commands that change no limit of 0.
* `smfDpd.cpp:433`: `Prune` does not lower `pkt_count`, so a flow that aged
  evicts from a table with room.
* `smfDpd.cpp:447`: `Prune` follows a NULL item pool if no eviction created it.
* `nrlsmf.cpp:935`: relaying starts switched on; `doc/nrlsmf.xml:612` says off.
* `mcastFib.cpp:2366`: a membership that lapses leaves its flow in full rate
  forwarding, against the comment above ("Stop forwarding, but keep acking").
* `flowTable.cpp:792` (also 798, 815, 821): `FindBestMatch` skips an entry whose
  class or protocol is neither open nor the description's, which "should never
  happen if iterator is doing its job".  It happens for a description that leaves
  them open: for a group searched in a table with a flow of it and the wildcard,
  the best match is the wildcard.  The
  searches of `smf.cpp` and `mcastFib.cpp` are for flows, which name both; then
  `SearchIsExact` says that every entry that matches is weighed.
* `smf.cpp:3268`: no EM-ACK can be built for the join of a group, whose
  description has no source; `AcksRightAway` exempts it.
* `smf.cpp:540`: a wildcard group whose last interface goes down is deleted, its
  matcher is not; the next interface that matches is placed through the freed
  group, where the model stops.
* `nrlsmf.cpp:3709` and `3675`: the error message about an associate of another
  group reads the push source, which is NULL in relay and merge groups.
* `smf.cpp:485`: an associate may outlive its group, when both its ends are
  members of another one.
* `nrlsmf.cpp:4035`: an interface removed from one group keeps its associations
  there while it is in another.
* `nrlsmf.cpp:3399`: a literal target named after a source wildcard does not
  reach the push groups of interfaces that are already up.
* `nrlsmf.cpp:3522`: what a wildcard matches is added as to a relay group, which
  a merge group always refuses.
* `nrlsmf.cpp:3389`: a push group made from a template that lists its source has
  no source, and relays nothing.
* `smf.cpp:1636`: a packet with a hash assist value is identified by that byte
  ("pktId already is hash value") under another flow than the hash.  A second
  packet of the flow with the same value is a duplicate, and a gateway sends on
  to its LAN what it pushed from there: two packets alike and one echo suffice.
* `smf.cpp:939`: the next assist value is written over the first byte of the
  packet, its version, and not into the option (`havOffset` is unused): a third
  packet alike cannot be told from the second, and one of the node's own leaves
  as an IPv6 packet no more.
* `smf.cpp:908`: with I-DPD off and no hash, resequencing IPv6 follows a NULL hash
  algorithm; `doc/nrlsmf.xml:296` only promises no duplicate detection.
* `smfDpd.cpp:819`: a flow numbered anew may draw a number that another node,
  whose prune timer runs at another time, still remembers.  `ResequencedIsNew`
  speaks of this node's detectors.

## 4. What is proved

Every theorem holds for all values of the constants that meet the named
assumptions of its module.  "Run" is the run that checks the same formula on an
instance.

| theorem | run | statement |
|---|---|---|
| `TypeCorrect` | Queue | `QueueSpec => []QueueTypeOK` |
| `BuffersAreHeldOnce` | Queue | no two queued packets share a buffer, none lies in one that is free or in hand; the count is the list's length |
| `MarkIsAlwaysLastOut` | Queue | the mark separates priority packets from the others |
| `PriorityYieldsOnlyToPriority` | Queue | a priority packet is refused only by a queue of them |
| `QueueNeverGrowsPastLimit` | Queue | no step lengthens the queue past its limit |
| `QueueImplementsPriorityFifo` | Queue | `SmfQueue` implements `PriorityFifo` |
| `SchedulerWaitsOneWay` | Tx | timer and output notification are never both armed |
| `SchedulerNeverStalls` | Tx | queued frames always have a wake-up armed |
| `EveryFrameAccounted` | Tx | every frame is at exactly one place |
| `VifNeverUnheard` | Tx | the host is listened to, or a wake-up will see to it, *if* no command turns queuing on |
| `OutputFindsRoom` | Tx | the host's frames are read when there is room, *if* no command leaves the queue full |
| `TablesAgree` | DpdTable | the tree holds exactly the ids of the list, within count and limit |
| `PruneForgetsStale` | DpdTable | `Prune` forgets the stale ids and no other |
| `TableImplementsFilter` | DpdTable | `SmfDpdTable` implements `DuplicateFilter` |
| `NoLapSurvives` | DpdWindow | no bit of an earlier lap survives in a window |
| `WindowForgetsOnlyOnJump` | DpdWindow | what lies within the window is forgotten only on a jump out of it |
| `PruneDropsStale` | DpdWindow | `Prune` drops exactly the stale flows |
| `WindowImplementsFilter` | DpdWindow | `SmfDpdWindow` implements `DuplicateFilter` |
| `GroupsStayTyped` | Groups | exactly the interfaces in groups exist, a source is a member of its group |
| `CompleteGroupsWork` | Groups | a group whose last update succeeded works as configured |
| `ResequencersDoNotRelay` | Groups | no interface that resequences relays to itself |
| `EachInterfaceOnce` | Flood | no interface relays a packet twice but one that forgot it |
| `RelayObeys` | Flood | relay state and switch-off timer agree with the last command |
| `SmprRule` | Flood | S-MPR relays what it first heard from a selector |
| `OldestPktIsOldest` | Arq | a full cache gives up its oldest frame |
| `OneRetransmission` | Arq | no frame is resent more than once |
| `AsksNothingTwice` | Arq | nothing is asked for twice, or once it came, *if* at most half of the numbers are used |
| `QueueHasLeader` | Membership | no membership is queued twice, and the timer runs while there is one to lead |
| `MembershipImplementsLeases` | Membership | `SmfMembership` implements `Leases` |
| `EntriesAreListed` | Elastic | every entry is in one of the two lists, once |
| `AckedFlowIsForwarded` | Elastic | a flow is forwarded to whoever keeps acking it |
| `WantedFlowIsAcked` | Elastic | a flow somebody wants is acked upstream |
| `AckedAtOnce` | Elastic | a flow that starts to be acked has an EM-ACK passed on in the same step |
| `FewLengthsListed` | FlowTable | the list of lengths is exact, *if* there are at most two, each below 256 |
| `FewLengthsFound` | FlowTable | a search returns what matches, each once, and the heaviest of what is weighed, under the same condition |
| `ResequencedPacketsAreNew` | Resequence | what is resequenced is never taken for what was sent before |
| `NothingIsSentBack` | Resequence | what came from the LAN does not return there |

**The assumptions.**  Most say only what kind of thing a constant is
(`PriorityAssumption`, `LimitsAssumption`, `RatesAssumption`, `CountAssumption`,
`WindowAssumption`, `ListAssumption`, ...) or that a value standing for "none" is
none of the values it is told from (`NoneAssumption`, `NoFlowAssumption`,
`NoneNotNumber`).  Those with content:

* `PacketAssumption` (`SmfDpdWindow`): a sequence number fits its field.
* `DeviceAssumption` (`SmfGroups`): a device's index is not 0, the index of none.
  `PatternAssumption`: no wildcard in use is a prefix of another, so that a device
  matches one at most.  `ConfigAssumption`: a command names at least one interface.
* `HearsAssumption`, `AssocAssumption` (`SmfFlood`): a node does not hear its own
  transmissions, and associates interfaces of its own only.
* `SeqAssumption`, `DeltaAssumption` (`SmfArq`): numbers wrap at an even `SEQ`
  (65536 in the code), and the largest gap repaired is small against it.
  `BoundAssumption` keeps the model below one lap of numbers.
* `TickAssumption` (`SmfMembership`): a term, with the timer late, is less than
  half of the ticks (2^32 in the code).
* `FlowAssumption` (`SmfElastic`): a flow's description leaves only the
  interface open, a group's gives the destination alone, an interface or relay
  is never the value that means "open".  `AddrAssumption`: addresses have 32 or
  128 bits.
* No named assumption but a guard of `HandleAck` (`SmfElastic`): an EM-ACK comes for
  a flow that had a packet within the timeout of its list, since a neighbor sends
  one only in answer to packets.  The code does not check it (`mcastFib.cpp:2182`):
  an EM-ACK for a flow that went stale or has no entry is outside of the model, and
  of the runs and theorems of `SmfElastic`.
* `KeyAssumption` (`SmfFlowTable`): a table has finitely many keys, and a key with
  no destination has no source: memberships and flows always have a destination,
  a policy gives it or is the wildcard.
* `AirTimeAssumption` (`SmfResequence`): a packet is delivered before a node
  forgets it.  `SourceAssumption`: the MANET hears the hosts of this LAN through
  this node alone; two gateways would give one flow the same numbers.
  `HostAssumption`: no host of the LAN numbers some IPv6 packets of a flow and
  leaves others to be numbered here, for the numbers would meet
  (`smf.cpp:1007` keeps a number it finds).  That fewer packets of a flow come in
  the time a table remembers than there are numbers is a guard, `RateAllows`.

**Some theorems have a hypothesis of their own**, because the code needs it.
`VifNeverUnheard` assumes `QueuingStaysOff`: a command that gives an interface a
queue finds the notification off with nothing queued, and nothing turns it on
again (`nrlsmf.cpp:666`).  `OutputFindsRoom` assumes `LimitLeavesRoom`: after a
command that lowers the limit to what is queued, the next frame of the host
meets a full queue (`nrlsmf.cpp:2103`).  Both are action formulas,
`Spec /\ [][...]_vars => []Inv`.  The instance of `Tx`, whose commands only raise
limits, satisfies both.  `AsksNothingTwice` assumes
`MaxUsed < SEQ \div 2`: beyond half a lap a late frame is ahead of the last one
heard as 16-bit numbers go, and the history follows it.
`FewLengthsListed` and `FewLengthsFound` assume `FewLengths`: the keys of a table
have at most two prefix lengths, and each fits a byte.  The tables of an IPv4 node
whose policies name no group meet it (run `FlowTable`); the failing run is one
that does not.

**The argument for the queue.**  None of the invariants is inductive alone: a
dequeue keeps the count right only if the list and the count agree, keeps the
mark right only if no packet is linked twice, and an enqueue may fill the buffer
it got only because no queued packet lies in a buffer of the pool or the heap.
The inductive invariant is their conjunction.  Lemmas state for each method what it makes of a
consistent queue whose mark is right (`EnqueueOK`, `DequeueOK`, `SetLimitOK`);
the refinement then follows case by case: an accepted priority packet is
`PutHigh`, with or without a bump, another is `PutLow`, a dequeue is `Take`.

**The argument for the scheduler.**  `WaitsOneWay` needs only that `SendFrame`
arms a wake-up when none is armed.  `NoLostWakeup` speaks of idle states, but
inside `OnPktCapture` frames are queued while nothing is armed yet; `WakeupInv`
says that outside it queued frames imply a blocked interface, that it never
runs on a stopped one, and that a stopped one has no timer.  The loop is left
only once the queue is empty or output is blocked, which is where the two meet.
`FrameInv` adds that the places of a frame are disjoint and make up all frames,
which the queue's own consistency carries through a bump.  `HeardInv` ties the
input notification to the wake-ups: it is off only on a blocked interface, and
one that queues has something queued, so that the wake-up will come to turn it
on.  `RoomInv` ties it to the limit.

**The argument for the detectors.**  `TablesOK` says of each flow's table that no
id is listed twice, that ages fall from head to tail, and that the tree holds
the ids of the list, unless the list has lost its head (`RemoveHead` leaves the
tail set, `smfDpd.cpp:421`).  Order by age is what makes pruning from the head
exact: the stale entries are the first so many (`InitialSegment`).  For the window, `Good` says that the last
number is set and every bit lies less than `window_size` behind it; since the
window is at most half of the numbers, `Delta` tells ahead from behind, and
whatever a slide leaves is within the window of the new last number
(`AdvanceGood`).  `ListInv` orders the flows by age.  In both refinements the
set of known packets is a function of the state; a step that accepts is
`Accept`, a step that prunes or destroys is `Forget`, and the answer of
`IsDuplicate` is right because the tree, or the window, is.

**The argument for groups.**  `IInv` says of the record that updates pass on what
must hold after each of them, the failed ones included, so that it survives a
command that stops anywhere.  `GroupsWork` alone is not inductive: it needs that
an associate belongs to one group for good (`Taken` makes an update stop and
never take over, `MadeIsFree`), that a deletion marks all that points to the
deleted groups and removes exactly the interfaces that are in no group any more,
and that the source of a push group is the device the group is named after, so
that a template can have none (`TemplateHasNoSource`) and a group that was
completed does not change its source.  Removals are all instances of `Shrinks`:
groups go or lose members other than their source, and what is left works
(`ShrinksOK`, `EndOK`).  What configures only makes groups and adds members
(`Grows`), and a new member takes `complete` back, which `CompletedOK` gives
again once every pair was visited.  `NoRelay` holds because the check of the
resequence flag and the check of the self-association guard each other
(`AssociatedOK`).  Every loop over interfaces, groups or matchers is a recursive
function; `RunExists` shows by induction over the steps (`StepByStep`) that it
has a value, `GrowsAllAlong` and `ConsistentAllAlong` carry the invariant
through it.

**The argument for the flood.**  `TransmittedIsKnown` counts: an interface has
relayed a packet at most as often as its detector forgot it, plus once if it
knows it; a packet of its own node never.  It is inductive because whatever is
in `Destinations` was asked about, found unknown, and is in `Marked`.
`FirstIsRecorded` does the same for what an S-MPR interface heard first.

**The argument for the ARQ.**  A number is known by its `Turn`, how many were used
before it; turns do not wrap.  `ArqInv` says that turns in the cache rise with
the order of the frames, so that the next number found after the oldest, going
round, is the least of the rest (`NextOldestIsLeast`); and that a frame in the
cache was not resent, since it leaves the cache when it is.  `AskInv` says that
a neighbor that did not start over has got nothing from ahead of its history
and asked for nothing but what lies before it.

**The argument for the memberships.**  The queue is sorted by deadlines that wrap,
so the invariant speaks of the order in which the code reads it: `TableOK` says
that from the leader on, and round from the end to the front, what is left of
the memberships does not fall, and that the deadlines of all lie within one term
ahead and `MaxLate` behind.  Two deadlines so close compare alike as numbers and
by what is left unless the ticks wrapped between them (`LeftsDiffer`), which is
why inserting by the bare number finds the right place on either side of the
wrap (`EnteredOK`).  A removal, of the leader, the last or any other, and the
removal of all that lapsed leave part of the order read (`SomeLeaveOK`).  The
second half of `MemberInv`, that the timer fires no later than the leader
lapses, needs all of `SetTimer`: a timer that is due stays due when it is set
for a leader that lapsed too.  The refinement maps each membership to what is
left of its deadline; `OnMembershipTimeout` is `Expire`, or a stutter where the
timer fires before the leader lapses (after `HandleFirstAck`, whose timer runs
for the interval it had last).

**The argument for elastic forwarding.**  Controller and forwarder meet through
descriptions, so the proof begins with which descriptions match
(`FlowsMatched`, `MembershipsMatched`): a flow matches itself, its group and its
memberships; a group, its flows and all their memberships; and a flow *on an
interface* no entry at all, which is why a lapse changes no forwarding.  Hence
what the iterators find for a flow is all that wants it (`WantedIsMembers`).
`AckedIsForwarded` is not inductive: an entry that was pruned and made anew
forwards nowhere, and would violate it if an EM-ACK membership had outlived it.
`ElasticIsFresh` excludes that: such a membership exists only while the flow has
packets, and `PruneOK` shows that pruning takes only flows that have none, which
needs that the two lists hold each entry once (`ListsCover`).  `MemberIsAcked`
then holds step by step: a packet sets the status to what matches, joins ack
what they match, and the other steps make no flow wanted.

**The argument for the flow table.**  With at most two lengths the list is empty,
has one cell, or has the longer before the shorter (`ShortList`), and by
`BytesListed` no cell holds more than a byte, so that moving one byte moves the
cell (`MoveOne`); `LengthEntered` and `LengthLeft` go through the places a length
is put in and taken from.  That an exact list makes the search exact
(`ExactListExactSearch`) holds for any table and any number of lengths.  The
first pass returns the entries that agree with the whole prefix of the
description, even where the code skips it (`PassesAre`); an entry that matches
and does not has a shorter prefix, whose length the list holds behind the
description's own (`ShorterLengths`).  Later passes have shorter prefixes
(`PassesDescend`), which keeps them disjoint; and a longer prefix weighs at least
as much as a shorter one (`WeightFollowsDepth`), so the first pass in which an entry is
weighed has the heaviest (`BestIsHeaviest`).  That there is a best match whenever
an entry is weighed (`BestExists`) takes a least pass and a greatest weight, which
the library's well-foundedness of the naturals gives (`LeastNatural`).

**The argument for resequencing.**  `ResequencedIsNew` says that the next number of
a flow is none the detector still knows, so the invariant has to say which those
are.  `drawn` records the numbers drawn; `Counted` says that the records of a
flow are of the numbers just before the one it gives next, without a gap and
the younger the later.  There are then as many numbers as records between the
next number and the oldest record, so by `RateAllows` the next number is not
recorded (`CountedDraw`).  Pruning takes the oldest records, which leaves no gap
(`CountedPrune`), and a flow is forgotten only with all its records, since it is
never older than they are and the list is pruned from its least recently used
end (`PruneFlowsOK`): a flow that starts at any number meets none of its own.
`NumbersRecorded` ties the detectors to the records, `StashMatches` ties them to
the stash: what was given a hash here is in both, and equally old, so what the
stash does not know is new.  What remains is which identities can be confused
at all: numbers of two flows, a number and a hash, or a LAN packet and a foreign
one never (`NumberIdentity`, `NumberIsNoHash`, `ForeignSource`, ...).
`NothingComesBack` needs `AirKnown`, which adds to it that a packet in the air
is no older than its entry in the table of `lan`.

**Only model-checked.**  Liveness (`EveryFrameServed`, `Coverage`, `AcksStop`)
is out of the prover's reach.  That
`SmfFlood` may use a `DuplicateFilter` for each detector is by the shape of its
actions; the composition is not a theorem.

## 5. Plan

1. Done: the queue, the scheduler, both detectors, the flood, `SmfArq`, the flow
   table, memberships, elastic forwarding, groups, resequencing; theorems that
   state every invariant the passing runs check.
2. Proofs: that `SmfFlood` over the detectors themselves implements `SmfFlood`
   over `DuplicateFilter`.
3. `SmfElastic` with policies and advertisements, then between a few nodes;
   `SmfArq` across a change of the interface and a lap of numbers.
4. `SmfResequence` with two gateways on one LAN, and with the other detector.

## 6. What is not modelled, and why

Allocation failures (the code answers with an error everywhere alike); message
and command parsing; logging; statistics counters; hashing (an id that may
collide); the firewall, tap and tunnel paths, which end in the same relay
decision; `smfDupTree` and `smfWindow`, which the program no longer links; the
adaptive routing build, whose learned floating point weights TLC cannot
enumerate; the OPNET port and the test tools.  `PROJECT.json` gives the reason
for each component, and for each hazard without a property.

Most lines of the repository are the vendored simulator models under
`src/opnet` (two versions of the same OPNET files) and stand-alone tools; the
map covers the program's own logic in `common/` and `include/`, of which the
largest part left is option parsing and the set-up of devices in `nrlsmf.cpp`.
