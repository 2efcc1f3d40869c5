------------------------------- MODULE SmfArq -------------------------------
(***************************************************************************)
(* Reliable forwarding between neighbors (the "reliable" command of the    *)
(* elastic multicast build): an upstream interface numbers every frame it  *)
(* multicasts with a UMP option and keeps the latest in a packet cache     *)
(* (class SmfCache); a downstream interface keeps the last number it heard *)
(* from each upstream (UpstreamHistory), infers losses from gaps and asks  *)
(* for them with a NACK; the upstream resends what it still has, once.     *)
(*                                                                         *)
(* One upstream interface and any number of downstream ones.  Frames and   *)
(* NACKs arrive in any order or not at all.  Each frame has an identity,   *)
(* the order of sending, that only the properties speak of.  Time is       *)
(* abstracted: the repair window may cut anywhere.                         *)
(***************************************************************************)
EXTENDS Integers, Sequences, FiniteSets

CONSTANTS
    Downstream,       \* the downstream interfaces
    SEQ,              \* how many UMP numbers there are (2^16)
    REPAIR_DELTA_MAX, \* the longest gap that is repaired
    CacheLimit,       \* frames in the cache
    StartSeq,         \* where the number stands when reliable forwarding begins
    MaxSent,          \* frames sent (a bound)
    MaxAir,           \* frames on their way when one is sent (a bound)
    MaxUsed,          \* numbers used up (a bound): no lap is completed
    Lost,             \* how many control frames in a row nobody hears
    None              \* no packet, no history

ASSUME SeqAssumption == SEQ \in Nat /\ SEQ > 0 /\ SEQ % 2 = 0
ASSUME DeltaAssumption == REPAIR_DELTA_MAX \in Nat /\ 8 * REPAIR_DELTA_MAX < SEQ
ASSUME LimitAssumption == CacheLimit \in Nat \ {0}
ASSUME StartAssumption == StartSeq \in 0 .. SEQ - 1
ASSUME BoundAssumption == MaxSent \in Nat /\ MaxAir \in Nat /\ MaxUsed \in 0 .. SEQ - 1 /\ Lost \subseteq Nat
ASSUME NoneNotNumber == None \notin Nat

VARIABLES
    ump_sequence, \* the number of the next frame
    cache,        \* the packet cache
    history,      \* per downstream interface: the last number heard, or None
    air,          \* frames on their way
    nacks,        \* NACKs on their way
    \* and what the properties speak of:
    used,         \* how many numbers were used up
    sent,         \* the sequence of what was sent: the number of each frame
    got,          \* per downstream interface: the frames it received
    asked,        \* per downstream interface: the numbers it asked for
    reset,        \* whether it forgot, or went back to a number far behind
    resent        \* per frame: the times it was sent again

upstream == << ump_sequence, cache, used, sent, resent >>
vars == << ump_sequence, cache, history, air, nacks, used, sent, got, asked, reset, resent >>

Number == 0 .. SEQ - 1
Frame == 1 .. MaxSent
Kind == {"data", "unreliable", "control"}

-----------------------------------------------------------------------------
\* SmfCache: a tree of frames by number, and oldest_pkt

Cache(tree, oldest, length) == [tree |-> tree, oldest |-> oldest, length |-> length]

Without(tree, seqs) == [i \in DOMAIN tree \ seqs |-> tree[i]]

\* The tree's iterator from number i on, starting over at its end.
NextOldest(seqs, i) ==
    IF seqs = {} THEN None
    ELSE LET later == {s \in seqs : s > i}
             rest == IF later # {} THEN later ELSE seqs
         IN CHOOSE s \in rest : \A t \in rest : s <= t

\* A definition named X_Fault is X with a plausible bug, used nowhere: it is
\* put in the place of X to see a property catch the bug.
DequeuePacket_NoWrap(c) ==
    LET tree == Without(c.tree, {c.oldest})
        later == {s \in DOMAIN tree : s > c.oldest}
    IN Cache(tree, IF later = {} THEN None ELSE CHOOSE s \in later : \A t \in later : s <= t,
             c.length - 1)

\* DequeuePacket removes the oldest.
DequeuePacket(c) ==
    Cache(Without(c.tree, {c.oldest}), NextOldest(DOMAIN c.tree \ {c.oldest}, c.oldest),
          c.length - 1)

\* RemovePacket of all of seqs, which the cache holds, one after the other.
RemovePackets(c, seqs) ==
    Cache(Without(c.tree, seqs),
          IF c.oldest \in seqs THEN NextOldest(DOMAIN c.tree \ seqs, c.oldest) ELSE c.oldest,
          c.length - Cardinality(seqs))

\* A tree does not take a second frame of the same number.
EnqueuePacket(c, seq, f) ==
    Cache([i \in DOMAIN c.tree \cup {seq} |-> IF i \in DOMAIN c.tree THEN c.tree[i] ELSE f],
          IF c.oldest = None THEN seq ELSE c.oldest,
          c.length + 1)

CachePacket(c, seq, f) ==
    EnqueuePacket(IF c.length < CacheLimit THEN c ELSE DequeuePacket(c), seq, f)

-----------------------------------------------------------------------------

Init ==
    /\ ump_sequence = StartSeq
    /\ cache = Cache(<< >>, None, 0)
    /\ history = [d \in Downstream |-> None]
    /\ air = {} /\ nacks = {}
    /\ used = 0 /\ sent = << >>
    /\ got = [d \in Downstream |-> {}]
    /\ asked = [d \in Downstream |-> {}]
    /\ reset = [d \in Downstream |-> FALSE]
    /\ resent = [f \in Frame |-> 0]

-----------------------------------------------------------------------------
\* The upstream interface

\* SetUMPOption: a frame uses up the number it is given, unless it is data of
\* the "unreliable TOS" that already has the option.
Steps(kind) == IF kind = "unreliable" THEN {0, 1} ELSE {1}

\* A frame is numbered, cached if it is to be reliable (data and EM_ACKs are,
\* advertisements are not), and sent.
SendFrame(kind, step) ==
    LET f == Len(sent) + 1
    IN /\ f \in Frame /\ used + step <= MaxUsed
       /\ Cardinality(air) + Cardinality(Downstream) <= MaxAir
       /\ cache' = IF kind = "data" THEN CachePacket(cache, ump_sequence, f) ELSE cache
       /\ ump_sequence' = (ump_sequence + step) % SEQ
       /\ used' = used + step
       /\ sent' = Append(sent, ump_sequence)
       /\ air' = air \cup {[frame |-> f, kind |-> kind, again |-> FALSE, to |-> d] : d \in Downstream}
       /\ UNCHANGED << history, nacks, got, asked, reset, resent >>

\* So many control frames that nobody hears.
LoseControlFrames(n) ==
    /\ used + n <= MaxUsed
    /\ ump_sequence' = (ump_sequence + n) % SEQ
    /\ used' = used + n
    /\ UNCHANGED << cache, history, air, nacks, sent, got, asked, reset, resent >>

HandleNack_Keeps(n, oldest) ==
    LET found == DOMAIN cache.tree \cap n.seqs
        again == {cache.tree[s] : s \in found} \cap {f \in Frame : f >= oldest}
    IN /\ nacks' = nacks \ {n}
       /\ resent' = [f \in Frame |-> IF f \in again THEN resent[f] + 1 ELSE resent[f]]
       /\ air' = air \cup [frame : again, kind : {"data"}, again : {TRUE}, to : Downstream]
       /\ UNCHANGED << ump_sequence, cache, history, used, sent, got, asked, reset >>

\* The frames asked for that still are in the cache leave it; those inside the
\* repair window, not older than oldest, are sent again to all.
HandleNack(n, oldest) ==
    LET found == DOMAIN cache.tree \cap n.seqs
        again == {cache.tree[s] : s \in found} \cap {f \in Frame : f >= oldest}
    IN /\ nacks' = nacks \ {n}
       /\ cache' = RemovePackets(cache, found)
       /\ resent' = [f \in Frame |-> IF f \in again THEN resent[f] + 1 ELSE resent[f]]
       /\ air' = air \cup [frame : again, kind : {"data"}, again : {TRUE}, to : Downstream]
       /\ UNCHANGED << ump_sequence, history, used, sent, got, asked, reset >>

-----------------------------------------------------------------------------
\* A downstream interface

\* The distance as a signed 16-bit number.
Signed(n) == LET low == n % SEQ IN IF low < SEQ \div 2 THEN low ELSE low - SEQ

\* Too far ahead or behind is a new beginning.
SeqDelta(last, seq) ==
    LET delta == Signed(seq - last)
    IN IF delta > 2 * REPAIR_DELTA_MAX \/ delta < -4 * REPAIR_DELTA_MAX THEN 0
       ELSE IF delta > REPAIR_DELTA_MAX THEN REPAIR_DELTA_MAX ELSE delta

LastHeard(d, seq) == IF history[d] = None THEN seq ELSE history[d]

NackCount(d, seq) ==
    LET delta == SeqDelta(LastHeard(d, seq), seq) IN IF delta > 1 THEN delta - 1 ELSE 0

NackRange(seq, count) == {(seq - k) % SEQ : k \in 1 .. count}

UpdatedHistory_Always(d, seq) == seq

UpdatedHistory(d, seq) ==
    IF SeqDelta(LastHeard(d, seq), seq) >= 0 THEN seq ELSE LastHeard(d, seq)

\* UpdateUpstreamHistory and, for a frame that is worth it, SendNack: control
\* frames always are, data if it is forwarded or new to a flow of interest.
Receive(c, nackable) ==
    LET d == c.to
        seq == sent[c.frame]
        asks == IF nackable \/ c.kind = "control"
                THEN NackRange(seq, NackCount(d, seq)) ELSE {}
    IN /\ air' = air \ {c}
       /\ history' = [history EXCEPT ![d] = UpdatedHistory(d, seq)]
       /\ nacks' = IF asks = {} THEN nacks ELSE nacks \cup {[from |-> d, seqs |-> asks]}
       /\ got' = [got EXCEPT ![d] = @ \cup {c.frame}]
       /\ asked' = [asked EXCEPT ![d] = @ \cup asks]
       /\ reset' = [reset EXCEPT ![d] =
                        @ \/ Signed(seq - LastHeard(d, seq)) < -4 * REPAIR_DELTA_MAX]
       /\ UNCHANGED upstream

Lose(c) ==
    /\ air' = air \ {c}
    /\ UNCHANGED << upstream, history, nacks, got, asked, reset >>

LoseNack(n) ==
    /\ nacks' = nacks \ {n}
    /\ UNCHANGED << upstream, history, air, got, asked, reset >>

\* PruneUpstreamHistory: nothing was heard for 30 seconds, or 30 idle packets.
PruneUpstreamHistory(d) ==
    /\ history[d] # None
    /\ history' = [history EXCEPT ![d] = None]
    /\ reset' = [reset EXCEPT ![d] = TRUE]
    /\ UNCHANGED << upstream, air, nacks, got, asked >>

-----------------------------------------------------------------------------
Next ==
    \/ \E kind \in Kind : \E step \in Steps(kind) : SendFrame(kind, step)
    \/ \E n \in Lost : LoseControlFrames(n)
    \/ \E n \in nacks, oldest \in 1 .. MaxSent + 1 : HandleNack(n, oldest)
    \/ \E c \in air, nackable \in BOOLEAN : Receive(c, nackable)
    \/ \E c \in air : Lose(c)
    \/ \E n \in nacks : LoseNack(n)
    \/ \E d \in Downstream : PruneUpstreamHistory(d)

Spec == Init /\ [][Next]_vars

-----------------------------------------------------------------------------
\* Properties

\* Type invariant.
TypeOK ==
    /\ ump_sequence \in Number /\ used \in 0 .. MaxUsed
    /\ DOMAIN cache.tree \subseteq Number /\ \A s \in DOMAIN cache.tree : cache.tree[s] \in Frame
    /\ cache.oldest \in Number \cup {None} /\ cache.length \in 0 .. CacheLimit
    /\ history \in [Downstream -> Number \cup {None}]
    /\ air \subseteq [frame : Frame, kind : Kind, again : BOOLEAN, to : Downstream]
    /\ nacks \subseteq [from : Downstream, seqs : SUBSET Number]
    /\ sent \in Seq(Number) /\ Len(sent) <= MaxSent
    /\ got \in [Downstream -> SUBSET Frame] /\ asked \in [Downstream -> SUBSET Number]
    /\ reset \in [Downstream -> BOOLEAN] /\ resent \in [Frame -> Nat]

\* The count SmfCache keeps is that of its tree, and oldest_pkt is what its
\* name says, the frame cached first (smfQueue.h:189 "removes/returns oldest"),
\* although it is found by number, numbers wrap, and repairs leave gaps.
OldestIsOldest ==
    /\ TypeOK
    /\ cache.length = Cardinality(DOMAIN cache.tree)
    /\ IF DOMAIN cache.tree = {} THEN cache.oldest = None
       ELSE /\ cache.oldest \in DOMAIN cache.tree
            /\ \A s \in DOMAIN cache.tree : cache.tree[cache.oldest] <= cache.tree[s]

\* "The current very simple ARQ only allows one retransmision per packet"
\* (smf.cpp:1234), however many neighbors ask for it, and when.
ResentOnce == \A f \in Frame : resent[f] <= 1

\* A downstream interface asks for no frame it already has, and for none twice,
\* although it remembers one number only and frames come late or again; unless
\* it forgot the upstream, silent for long, or heard a number so far behind that
\* it took it for a new beginning.
AsksOnlyForMissed ==
    [][\A d \in Downstream :
          LET new == UNION {n.seqs : n \in {m \in nacks' \ nacks : m.from = d}}
          IN ~reset[d] => /\ new \cap asked[d] = {}
                          /\ \A f \in got[d] : sent[f] \notin new]_vars
=============================================================================
