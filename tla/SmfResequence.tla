--------------------------- MODULE SmfResequence ---------------------------
(***************************************************************************)
(* Resequencing: the numbers a node gives to packets of others (rpush,     *)
(* rmerge) and to its own (resequence on) so that the network can tell     *)
(* them apart, and the identity duplicate detection takes from a packet.   *)
(*                                                                         *)
(* The node is a gateway: it resequences what it hears on lan and pushes   *)
(* it to manet, where it also relays (cf), and pushes manet to lan.  What  *)
(* it sends on manet is relayed by neighbours and comes back to it for a   *)
(* while.  mode is how the commands idpd, hash and ihash are set:          *)
(*   "idpd"    idpd on, no hash (ihash would append one to every id)       *)
(*   "hybrid"  idpd on, hash: H-DPD for what carries no number of its own  *)
(*   "hash"    idpd off, hash: H-DPD for everything                        *)
(*                                                                         *)
(* The tables are what SmfDpdTable implements: identities, remembered for  *)
(* AgeMax prune intervals and more.  Hashes do not collide.                *)
(***************************************************************************)
EXTENDS Integers, Sequences, FiniteSets

CONSTANTS
    Address,
    Body,          \* what a packet carries
    LanPackets,    \* what the hosts of the LAN send
    ManetPackets,  \* what other nodes of the MANET send
    OwnPackets,    \* what this node sends
    Modes,
    SeqMod,        \* numbers: 2^16 in the code
    AgeMax,        \* update_age_max, in prune intervals
    AirTime        \* prune intervals for which a packet is still relayed

ASSUME SeqModAssumption == SeqMod \in Nat \ {0, 1}
ASSUME AgeAssumption == AgeMax \in Nat

\* The network delivers a packet before a node forgets it.
ASSUME AirTimeAssumption == AirTime \in 0 .. AgeMax + 1

Version == {4, 6}

\* Packets.  own is the id of a fragment or the number of a sealed IPsec packet,
\* mark the IPv4 ID or the IPv6 SMF_DPD option.  A field that is absent is None.
None == << >>

Packet ==
    [version : Version, src : Address, dst : Address,
     own : {None} \cup ({"frag", "sec"} \X Nat),
     mark : {None} \cup ({"seq", "hav"} \X Nat), body : Body]

ASSUME PacketsAssumption == LanPackets \cup ManetPackets \cup OwnPackets \subseteq Packet
ASSUME ModesAssumption == Modes \subseteq {"idpd", "hybrid", "hash"}

\* This node is the gateway of its LAN: the MANET hears the LAN's hosts through
\* it alone.
ASSUME SourceAssumption ==
    \A p \in LanPackets, r \in ManetPackets \cup OwnPackets : p.src # r.src

\* No host of the LAN numbers some IPv6 packets of a flow and not others.
ASSUME HostAssumption ==
    \A p, r \in LanPackets :
        /\ p.version = 6 /\ p.own = None /\ p.mark = None
        /\ r.version = 6 /\ r.src = p.src /\ r.dst = p.dst /\ r.mark # None
        => r.mark[1] # "seq"

VARIABLES
    mode,
    seq_mgr,      \* per IP version: the flows numbered, least recently used first
    hash_stash,   \* hashes given to packets here
    dpd,          \* per interface: the identities seen
    air,          \* packets from lan that manet still relays
    drawn         \* numbers drawn lately, to bound the rate at which packets come

vars == << mode, seq_mgr, hash_stash, dpd, air, drawn >>

Number == 0 .. SeqMod - 1
Iface == {"lan", "manet"}

-----------------------------------------------------------------------------
\* What a packet says of itself

Plain(p) == p.own = None
Sealed(p) == p.own # None /\ p.own[1] = "sec"
HasHAV(p) == p.mark # None /\ p.mark[1] = "hav"

\* Everything but what changes on the way; the version byte is not hashed.
Hash(p) ==
    IF p.version = 4 THEN << "hash", p.own, p.mark, p.body >>
    ELSE << "hash", p.dst, p.own, p.mark, p.body >>

Identity(flow, id) == [flow |-> flow, id |-> id]
FlowOf(p) == << p.version, p.src, p.dst >>

\* The IPv6 SMF_DPD option comes first; in IPv4 the fragment and IPsec do.
GetPktID(p) ==
    CASE Plain(p) \/ (p.version = 6 /\ p.mark # None) -> Identity(FlowOf(p), p.mark)
      [] Sealed(p) /\ (p.version = 4 \/ p.mark = None) -> Identity(<< "sec", p.version, p.src, p.dst >>, p.own)
      [] OTHER -> Identity(FlowOf(p), p.own)

HashID(p) == Identity(IF p.version = 4 THEN FlowOf(p) ELSE << p.src >>, Hash(p))

\* What the identity is followed by in the hybrid mode.
WithHash(p) == [GetPktID(p) EXCEPT !.id = << @, Hash(p) >>]

\* The identity of a packet that was not resequenced.  Of one that carries a
\* hash assist value it is that value, not the hash.
PacketID(p) ==
    CASE p.version = 6 /\ HasHAV(p) -> GetPktID(p)
      [] mode = "idpd" -> GetPktID(p)
      [] mode = "hybrid" /\ (p.version = 4 \/ (p.mark = None /\ ~Plain(p))) -> WithHash(p)
      [] OTHER -> HashID(p)

\* I-DPD can do nothing about an IPv6 packet that says nothing of itself.
Unmarked(p) == mode = "idpd" /\ GetPktID(p).id = None

-----------------------------------------------------------------------------
\* Tables

Holds(t, identity) == \E e \in t : e.flow = identity.flow /\ e.id = identity.id

\* IsDuplicate remembers what it has not seen.
Remember(t, identity) ==
    IF Holds(t, identity) THEN t
    ELSE t \cup {[flow |-> identity.flow, id |-> identity.id, age |-> 0]}

\* What is older than AgeMax goes, then current_update_time advances.
Prune(t) == {[e EXCEPT !.age = @ + 1] : e \in {d \in t : d.age <= AgeMax}}

-----------------------------------------------------------------------------
\* SmfSequenceMgr

Places(list, key) == {n \in DOMAIN list : list[n].key = key}

\* The numbers a flow may be given: its next, or, new, any (rand).
NextNumbers(list, key) ==
    IF Places(list, key) = {} THEN Number ELSE {list[n].next : n \in Places(list, key)}

Others(list, key) ==
    IF Places(list, key) = {} THEN list
    ELSE LET place == CHOOSE n \in Places(list, key) : TRUE
         IN SubSeq(list, 1, place - 1) \o SubSeq(list, place + 1, Len(list))

\* The flow that was given n moves to the tail.
IncrementSequence(list, key, n) ==
    Append(Others(list, key), [key |-> key, next |-> (n + 1) % SeqMod, age |-> 0])

\* A definition named X_Fault is X with a plausible bug, used nowhere: it is
\* put in the place of X to see a property catch the bug.
PruneFlows_Early(list) ==
    LET kept == SelectSeq(list, LAMBDA f : f.age < AgeMax)
    IN [n \in DOMAIN kept |-> [kept[n] EXCEPT !.age = @ + 1]]

\* Prune stops at the first flow that is not stale.
PruneFlows(list) ==
    LET stale == {n \in DOMAIN list : \A i \in 1 .. n : list[i].age > AgeMax}
        kept == SubSeq(list, Cardinality(stale) + 1, Len(list))
    IN [n \in DOMAIN kept |-> [kept[n] EXCEPT !.age = @ + 1]]

\* The keys: IPv6 and this node's IPv4 packets are numbered per destination.
KeyOf(p) == IF p.version = 4 THEN << p.src, p.dst >> ELSE << p.dst >>
LocalKey(p) == << p.dst >>

Lately(version, key) == {d \in drawn : d.version = version /\ d.key = key}

\* Fewer packets come in the time a table remembers than there are numbers.
RateAllows(version, key, n) == Cardinality(Lately(version, key)) + n < SeqMod

\* Flow key is given the number n.
Draw(version, key, n) ==
    /\ RateAllows(version, key, 1)
    /\ n \in NextNumbers(seq_mgr[version], key)
    /\ seq_mgr' = [seq_mgr EXCEPT ![version] = IncrementSequence(@, key, n)]
    /\ drawn' = drawn \cup {[version |-> version, key |-> key, value |-> n, age |-> 0]}

-----------------------------------------------------------------------------
\* Resequencing a packet

\* Whether it is given a number: IPv4 whatever ID it has, IPv6 if unmarked.
Numbered(p) ==
    IF p.version = 4 THEN mode # "hash" /\ Plain(p)
    ELSE mode = "idpd" /\ GetPktID(p).id = None

\* Whether it is given a hash assist value if need be.
Assisted(p) ==
    p.version = 6 /\ CASE mode = "idpd" -> FALSE
                       [] mode = "hybrid" -> p.mark # None \/ Plain(p)
                       [] mode = "hash" -> p.mark # None \/ ~Sealed(p)

InsertOptionDPD(p, mark) == [p EXCEPT !.mark = mark]

\* Hash until the stash does not know the hash.  The first time inserts an
\* option with the value 0; further values are written over the version, not
\* into the option, so that the hash stays as it is and the loop gives up.
ApplyHAV(p) ==
    LET q == InsertOptionDPD(p, << "hav", 0 >>)
    IN IF ~Holds(hash_stash, HashID(p)) THEN p
       ELSE IF ~Holds(hash_stash, HashID(q)) THEN q
       ELSE [q EXCEPT !.version = 0]

-----------------------------------------------------------------------------
Init ==
    /\ mode \in Modes
    /\ seq_mgr = [v \in Version |-> << >>]
    /\ hash_stash = {}
    /\ dpd = [i \in Iface |-> {}]
    /\ air = {}
    /\ drawn = {}

\* p as it was heard, before resequencing.
MarkedAs_Heard(p, q) == PacketID(p)

\* The identity of p after resequencing made q of it.
MarkedAs(p, q) == IF Assisted(p) THEN HashID(q) ELSE PacketID(q)

\* ProcessPacket on lan, with p resequenced to q: the duplicate check of manet,
\* and the mark in the table of lan, so that q does not come back there.
Push(p, q) ==
    LET identity == MarkedAs(p, q)
    IN /\ dpd' = [i \in Iface |-> Remember(dpd[i], identity)]
       /\ air' = IF Holds(dpd["manet"], identity) THEN air
                 ELSE air \cup {[pkt |-> q, age |-> 0]}

PushNumbered(p) ==
    /\ Numbered(p)
    /\ \E n \in Number :
        /\ Draw(p.version, KeyOf(p), n)
        /\ Push(p, InsertOptionDPD(p, << "seq", n >>))
    /\ UNCHANGED << mode, hash_stash >>

PushAssisted(p) ==
    /\ Assisted(p)
    /\ hash_stash' = Remember(hash_stash, HashID(ApplyHAV(p)))
    /\ Push(p, ApplyHAV(p))
    /\ UNCHANGED << mode, seq_mgr, drawn >>

\* What identifies itself is left as it is.
PushAsIs(p) ==
    /\ ~Numbered(p) /\ ~Assisted(p)
    /\ Push(p, p)
    /\ UNCHANGED << mode, seq_mgr, hash_stash, drawn >>

\* ProcessPacket on manet: relayed there and pushed to lan where it is new.
HearManet(p) ==
    /\ ~Unmarked(p)
    /\ dpd' = [i \in Iface |-> Remember(dpd[i], PacketID(p))]
    /\ UNCHANGED << mode, seq_mgr, hash_stash, air, drawn >>

\* OnPktIntercept, outbound: a packet of this node's own.  It leaves through
\* the kernel, and is ignored when heard again.  IPv4 does not use the number
\* 0, which some systems replace.
SendOwn4(p) ==
    /\ p.version = 4
    /\ \/ \E n \in Number \ {0} : Draw(4, LocalKey(p), n)
       \/ /\ 0 \in NextNumbers(seq_mgr[4], LocalKey(p))
          /\ RateAllows(4, LocalKey(p), 2)
          /\ seq_mgr' = [seq_mgr EXCEPT ![4] = IncrementSequence(@, LocalKey(p), 1)]
          /\ drawn' = drawn \cup {[version |-> 4, key |-> LocalKey(p), value |-> n, age |-> 0] : n \in {0, 1}}
    /\ UNCHANGED << mode, hash_stash, dpd, air >>

SendOwn6(p) ==
    /\ p.version = 6
    /\ \/ /\ Numbered(p)
          /\ \E n \in Number : Draw(6, LocalKey(p), n)
          /\ UNCHANGED hash_stash
       \/ /\ Assisted(p)
          /\ hash_stash' = Remember(hash_stash, HashID(ApplyHAV(p)))
          /\ UNCHANGED << seq_mgr, drawn >>
    /\ UNCHANGED << mode, dpd, air >>

OnPruneTimeout ==
    /\ seq_mgr' = [v \in Version |-> PruneFlows(seq_mgr[v])]
    /\ hash_stash' = Prune(hash_stash)
    /\ dpd' = [i \in Iface |-> Prune(dpd[i])]
    /\ drawn' = Prune(drawn)
    /\ air' = {[a EXCEPT !.age = @ + 1] : a \in {b \in air : b.age < AirTime}}
    /\ UNCHANGED mode

Next ==
    \/ \E p \in LanPackets : PushNumbered(p) \/ PushAssisted(p) \/ PushAsIs(p)
    \/ \E p \in ManetPackets \cup {a.pkt : a \in air} : HearManet(p)
    \/ \E p \in OwnPackets : SendOwn4(p) \/ SendOwn6(p)
    \/ OnPruneTimeout

Spec == Init /\ [][Next]_vars

-----------------------------------------------------------------------------
\* Type invariant, the first part of ResequencedIsNew.
TypeOK ==
    /\ mode \in Modes
    /\ \A v \in Version : \A n \in DOMAIN seq_mgr[v] :
        /\ seq_mgr[v][n].next \in Number /\ seq_mgr[v][n].age \in 0 .. AgeMax + 1
        /\ \A i \in DOMAIN seq_mgr[v] : seq_mgr[v][i].key = seq_mgr[v][n].key => i = n
    /\ \A e \in hash_stash \cup dpd["lan"] \cup dpd["manet"] \cup drawn : e.age \in 0 .. AgeMax + 1
    /\ \A a \in air : a.age \in 0 .. AirTime

\* What the node resequences is never taken for a packet it has sent: not when
\* the numbers go round, not when a flow was forgotten and starts anywhere,
\* not when packets repeat.  Save a third packet alike in the hash modes, on
\* which ApplyHAV gives up.
ResequencedIsNew ==
    /\ TypeOK
    /\ \A p \in LanPackets :
        /\ Numbered(p) => \A n \in NextNumbers(seq_mgr[p.version], KeyOf(p)) :
            ~Holds(dpd["manet"], PacketID(InsertOptionDPD(p, << "seq", n >>)))
        /\ Assisted(p) /\ ApplyHAV(p).version = 6 =>
            ~Holds(dpd["manet"], HashID(ApplyHAV(p)))

\* A packet that manet relays is known to lan, where it came from, and is not
\* sent there again; save one with a hash assist value.
NothingComesBack ==
    \A a \in air : ~HasHAV(a.pkt) => Holds(dpd["lan"], PacketID(a.pkt))
=============================================================================
