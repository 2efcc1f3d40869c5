------------------------------ MODULE SmfFlood ------------------------------
(***************************************************************************)
(* A multicast packet flooding a network of nrlsmf nodes: the relay        *)
(* decision of Smf::ProcessPacket, the duplicate tables it consults and    *)
(* the commands that change a node's part in the flood while it runs.      *)
(*                                                                         *)
(* Nodes and interfaces are joined by radio links, one frame making a copy *)
(* for every interface in range; copies arrive in any order, and a copy    *)
(* that is lost stays in the air for good.                                 *)
(* Each interface's duplicate filter is the one of module DuplicateFilter, *)
(* reduced to the packets of one flow: it knows what it has checked, until *)
(* age or eviction makes it forget.  Every packet carries an id (RFC 6621  *)
(* I-DPD or a hash), is multicast and has a routable source.  Interfaces   *)
(* are in relay groups (cf, ecds, smpr), not in push or merge groups; no   *)
(* two interfaces of one node hear each other, and no group is elastic.    *)
(***************************************************************************)
EXTENDS Integers, FiniteSets

CONSTANTS
    Node, Iface, Packet,
    NodeOf,         \* the node an interface belongs to
    Hears,          \* the pairs << from, to >> of interfaces in range
    RelayType,      \* of the associates, pairs << source, destination >>
    Layered,        \* interfaces with a distribution mechanism of their own
    Origin,         \* the interface a packet enters the network by
    InitTtl,        \* the TTL it enters with
    Commanded,      \* nodes that get "forward", "relay" and "delayoff" commands
    InitSelectors, InitNeighbors, \* the lists the nodes were told first ...
    Updated,        \* ... and the nodes that are told
    Selectors, Neighbors,         \* any of these later
    Forgetful,      \* interfaces whose table is too small to last
    MaxForget       \* how often each of them may forget a packet (a bound)

Assoc == DOMAIN RelayType

ASSUME NodeAssumption == NodeOf \in [Iface -> Node]
ASSUME HearsAssumption ==
    /\ Hears \subseteq Iface \X Iface
    /\ \A l \in Hears : NodeOf[l[1]] # NodeOf[l[2]]
ASSUME AssocAssumption ==
    /\ Assoc \subseteq {a \in Iface \X Iface : NodeOf[a[1]] = NodeOf[a[2]]}
    /\ RelayType \in [Assoc -> {"CF", "E_CDS", "S_MPR"}]
ASSUME OriginAssumption == Origin \in [Packet -> Iface] /\ InitTtl \in 1 .. 255
ASSUME ListAssumption ==
    /\ InitSelectors \in [Node -> SUBSET Iface] /\ Selectors \subseteq SUBSET Iface
    /\ InitNeighbors \in [Node -> SUBSET Iface] /\ Neighbors \subseteq SUBSET Iface
ASSUME ForgetAssumption == Forgetful \subseteq Iface /\ MaxForget \in Nat

VARIABLES
    relay_enabled, relay_selected, \* per node
    delay_relay_off_timer,         \* per node: active or not
    delayed,                       \* per node: delay_time # 0
    selector_list, neighbor_list,  \* per node: sets of MAC addresses, here interfaces
    dpd,        \* per interface: the packets its duplicate detector knows
    air,        \* copies on their way
    \* and what the properties speak of:
    originated, \* packets that entered the network
    heard,      \* per node: the packets it received
    first,      \* per interface and packet: who the first copy came from
    tx,         \* per interface and packet: the times it was forwarded
    forgot,     \* per interface and packet: the times it was forgotten
    command     \* per node: the last "relay" command

switches == << relay_enabled, relay_selected, delay_relay_off_timer, delayed, command >>
lists == << selector_list, neighbor_list >>
history == << originated, heard, first, tx, forgot >>
floodVars == << switches, lists, dpd, air, history >>

Copy == [pkt : Packet, from : Iface, to : Iface, ttl : 1 .. InitTtl]

Counts == [Iface -> [Packet -> Nat]]

\* OnStartup enables the relay and selects it.
FloodInit ==
    /\ relay_enabled = [n \in Node |-> TRUE]
    /\ relay_selected = [n \in Node |-> TRUE]
    /\ delay_relay_off_timer = [n \in Node |-> FALSE]
    /\ delayed = [n \in Node |-> FALSE]
    /\ selector_list = InitSelectors /\ neighbor_list = InitNeighbors
    /\ dpd = [i \in Iface |-> {}]
    /\ air = {} /\ originated = {}
    /\ heard = [n \in Node |-> {}]
    /\ first = [i \in Iface |-> [p \in Packet |-> "none"]]
    /\ tx = [i \in Iface |-> [p \in Packet |-> 0]]
    /\ forgot = [i \in Iface |-> [p \in Packet |-> 0]]
    /\ command = [n \in Node |-> "none"]

-----------------------------------------------------------------------------
\* ProcessPacket.  A definition named X_Fault is X with a plausible bug, used
\* nowhere: it is put in the place of X to see a property catch the bug.

\* ifaceForward: would node n relay a frame from mac for an associate of type t?
Relays(n, t, mac) ==
    /\ relay_enabled[n]
    /\ \/ t = "CF"
       \/ t = "E_CDS" /\ relay_selected[n]
       \/ t = "S_MPR" /\ mac \in selector_list[n]

Checked_RelaysOnly(c) ==
    {j \in Iface : /\ << c.to, j >> \in Assoc
                   /\ Relays(NodeOf[j], RelayType[<< c.to, j >>], c.from)}

\* The interfaces whose duplicate detector is asked about copy c: those it may
\* be relayed on and, to remember what symmetric neighbors sent, its own.
Checked(c) ==
    {j \in Iface :
        /\ << c.to, j >> \in Assoc
        /\ \/ Relays(NodeOf[j], RelayType[<< c.to, j >>], c.from)
           \/ /\ j = c.to /\ RelayType[<< c.to, j >>] = "S_MPR"
              /\ c.from \in neighbor_list[NodeOf[j]]}

Destinations_NeverBack(c) ==
    {j \in Checked(c) :
        /\ Relays(NodeOf[j], RelayType[<< c.to, j >>], c.from)
        /\ c.pkt \notin dpd[j]
        /\ j # c.to
        /\ c.ttl > 1}

\* dstIfArray: the interfaces copy c is relayed on.
Destinations(c) ==
    {j \in Checked(c) :
        /\ Relays(NodeOf[j], RelayType[<< c.to, j >>], c.from)
        /\ c.pkt \notin dpd[j]
        /\ ~(c.to \in Layered /\ j = c.to)
        /\ c.ttl > 1}

Marked_SourceTable(c) == {j \in Iface : j = c.to /\ Checked(c) # {}}

\* The detectors that know the packet afterwards, whatever its TTL.
Marked(c) == Checked(c) \cup {j \in Layered : j = c.to}

Transmissions(p, ifaces, ttl) ==
    {[pkt |-> p, from |-> l[1], to |-> l[2], ttl |-> ttl] :
        l \in {k \in Hears : k[1] \in ifaces}}

FirstFrom(c) ==
    LET n == NodeOf[c.to]
    IN  IF first[c.to][c.pkt] # "none" THEN first[c.to][c.pkt]
        ELSE IF c.from \in selector_list[n] THEN "selector"
        ELSE IF c.from \in neighbor_list[n] THEN "neighbor" ELSE "none"

\* HandleInboundPacket and ProcessPacket.  A node ignores what it sent itself.
Receive(c) ==
    /\ \/ /\ NodeOf[Origin[c.pkt]] = NodeOf[c.to]
          /\ air' = air \ {c}
          /\ UNCHANGED << dpd, tx >>
       \/ /\ NodeOf[Origin[c.pkt]] # NodeOf[c.to]
          /\ air' = (air \ {c}) \cup Transmissions(c.pkt, Destinations(c), c.ttl - 1)
          /\ dpd' = [j \in Iface |-> dpd[j] \cup {p \in {c.pkt} : j \in Marked(c)}]
          /\ tx' = [j \in Iface |-> [tx[j] EXCEPT ![c.pkt] =
                                         IF j \in Destinations(c) THEN @ + 1 ELSE @]]
    /\ heard' = [heard EXCEPT ![NodeOf[c.to]] = @ \cup {c.pkt}]
    /\ first' = [first EXCEPT ![c.to][c.pkt] = FirstFrom(c)]
    /\ UNCHANGED << switches, lists, originated, forgot >>

-----------------------------------------------------------------------------
\* The host's stack

Originate(p) ==
    /\ p \notin originated
    /\ originated' = originated \cup {p}
    /\ heard' = [heard EXCEPT ![NodeOf[Origin[p]]] = @ \cup {p}]
    /\ air' = air \cup Transmissions(p, {Origin[p]}, InitTtl)
    /\ UNCHANGED << switches, lists, dpd, first, tx, forgot >>

-----------------------------------------------------------------------------
\* Timers and commands

\* OnPruneTimeout ages an entry out, or an eviction takes it.
Forget(i, p) ==
    /\ p \in dpd[i] /\ forgot[i][p] < MaxForget
    /\ dpd' = [dpd EXCEPT ![i] = @ \ {p}]
    /\ forgot' = [forgot EXCEPT ![i][p] = @ + 1]
    /\ UNCHANGED << switches, lists, air, originated, heard, first, tx >>

SetRelayEnabled(n, state) ==
    /\ relay_enabled' = [relay_enabled EXCEPT ![n] = state]
    /\ UNCHANGED << relay_selected, delay_relay_off_timer, delayed, command,
                    lists, dpd, air, history >>

SelectRelay_KeepsTimer(n) ==
    /\ relay_selected' = [relay_selected EXCEPT ![n] = TRUE]
    /\ command' = [command EXCEPT ![n] = "on"]
    /\ UNCHANGED << relay_enabled, delay_relay_off_timer, delayed, lists, dpd, air, history >>

\* SetRelaySelected(true)
SelectRelay(n) ==
    /\ delay_relay_off_timer' = [delay_relay_off_timer EXCEPT ![n] = FALSE]
    /\ relay_selected' = [relay_selected EXCEPT ![n] = TRUE]
    /\ command' = [command EXCEPT ![n] = "on"]
    /\ UNCHANGED << relay_enabled, delayed, lists, dpd, air, history >>

\* SetRelaySelected(false)
DeselectRelay(n) ==
    /\ \/ /\ ~delayed[n]
          /\ relay_selected' = [relay_selected EXCEPT ![n] = FALSE]
          /\ UNCHANGED delay_relay_off_timer
       \/ /\ delayed[n]
          /\ delay_relay_off_timer' = [delay_relay_off_timer EXCEPT ![n] = TRUE]
          /\ UNCHANGED relay_selected
    /\ command' = [command EXCEPT ![n] = "off"]
    /\ UNCHANGED << relay_enabled, delayed, lists, dpd, air, history >>

SetDelayTime(n, d) ==
    /\ delayed' = [delayed EXCEPT ![n] = d]
    /\ UNCHANGED << relay_enabled, relay_selected, delay_relay_off_timer, command,
                    lists, dpd, air, history >>

OnDelayRelayOffTimeout(n) ==
    /\ delay_relay_off_timer[n]
    /\ delay_relay_off_timer' = [delay_relay_off_timer EXCEPT ![n] = FALSE]
    /\ relay_selected' = [relay_selected EXCEPT ![n] = FALSE]
    /\ UNCHANGED << relay_enabled, delayed, command, lists, dpd, air, history >>

SetSelectorList(n, macs) ==
    /\ selector_list' = [selector_list EXCEPT ![n] = macs]
    /\ UNCHANGED << switches, neighbor_list, dpd, air, originated, heard, first, tx, forgot >>

SetNeighborList(n, macs) ==
    /\ neighbor_list' = [neighbor_list EXCEPT ![n] = macs]
    /\ UNCHANGED << switches, selector_list, dpd, air, originated, heard, first, tx, forgot >>

-----------------------------------------------------------------------------
Deliver == \E c \in air : Receive(c)

Timeout == \E n \in Commanded : OnDelayRelayOffTimeout(n)

Command ==
    \/ \E n \in Commanded :
        \/ SelectRelay(n) \/ DeselectRelay(n)
        \/ \E b \in BOOLEAN : SetRelayEnabled(n, b) \/ SetDelayTime(n, b)
    \/ \E n \in Updated :
        \/ \E macs \in Selectors : SetSelectorList(n, macs)
        \/ \E macs \in Neighbors : SetNeighborList(n, macs)

FloodNext ==
    \/ Deliver
    \/ Timeout
    \/ Command
    \/ \E p \in Packet : Originate(p)
    \/ \E i \in Forgetful, p \in Packet : Forget(i, p)

FloodSpec == FloodInit /\ [][FloodNext]_floodVars

\* No copy is lost: only Coverage asks for it.
FairFlood == FloodSpec /\ WF_floodVars(Deliver)

-----------------------------------------------------------------------------
\* Type invariant.
FloodTypeOK ==
    /\ relay_enabled \in [Node -> BOOLEAN] /\ relay_selected \in [Node -> BOOLEAN]
    /\ delay_relay_off_timer \in [Node -> BOOLEAN] /\ delayed \in [Node -> BOOLEAN]
    /\ command \in [Node -> {"none", "on", "off"}]
    /\ selector_list \in [Node -> SUBSET Iface] /\ neighbor_list \in [Node -> SUBSET Iface]
    /\ dpd \in [Iface -> SUBSET Packet]
    /\ air \subseteq Copy
    /\ originated \subseteq Packet /\ heard \in [Node -> SUBSET Packet]
    /\ first \in [Iface -> [Packet -> {"none", "selector", "neighbor"}]]
    /\ tx \in Counts /\ forgot \in Counts

\* However copies and commands interleave, an interface forwards a packet at
\* most once as long as its detector does not forget it, and the node the
\* packet comes from never does (ProcessPacket asks the detector of each
\* destination in turn, not that of the source).
TransmitsOnce ==
    /\ FloodTypeOK
    /\ \A i \in Iface, p \in Packet :
        tx[i][p] <= IF NodeOf[i] = NodeOf[Origin[p]] THEN 0 ELSE 1 + forgot[i][p]

\* RFC 6621's S-MPR rule: relay a packet only if the first copy heard came from
\* a selector.  The code keeps no record of who was first; it relies on having
\* marked the table for copies of other neighbors that it did not relay.
FirstFromSelector ==
    \A i \in Iface, p \in Packet :
        /\ {a \in Assoc : a[2] = i} = {<< i, i >>} /\ RelayType[<< i, i >>] = "S_MPR"
        /\ tx[i][p] > 0 /\ forgot[i][p] = 0
        => first[i][p] = "selector"

\* A pending switch-off never survives "relay on", and "relay off" is either
\* pending or done, whatever "delayoff" is set to in between.
RelayAsCommanded ==
    \A n \in Node :
        IF command[n] = "off" THEN relay_selected[n] => delay_relay_off_timer[n]
        ELSE relay_selected[n] /\ ~delay_relay_off_timer[n]

\* The flood reaches every node whichever copies come first and however the
\* relays of Commanded switch meanwhile, if no copy is lost.  The topology and
\* the lists must be such that the other relays cover it.
Coverage ==
    \A p \in Packet : p \in originated ~> \A n \in Node : p \in heard[n]
=============================================================================
