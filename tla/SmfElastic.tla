----------------------------- MODULE SmfElastic -----------------------------
(***************************************************************************)
(* Elastic multicast at one node: flows, memberships, acking, forwarding   *)
(* (UpdateElasticRouting and SendAck of class Smf, classes MulticastFIB,   *)
(* ElasticMulticastForwarder and ElasticMulticastController).              *)
(*                                                                         *)
(* The flow table has an entry for each flow seen: is it acked upstream,   *)
(* on which interfaces is it forwarded at full rate, who relays it to us.  *)
(* The membership table says who wants it: MANAGED memberships come from   *)
(* the command line and IGMP and name a group, ELASTIC ones from EM-ACKs   *)
(* downstream and name a flow; both name an interface.  The two tables     *)
(* meet only through calls that carry a flow description, which changes    *)
(* whatever it matches.                                                    *)
(*                                                                         *)
(* The flows are IPv4, and there are no policies and no advertisements     *)
(* (forwarding status HYBRID or BLOCK).  Deadlines of ELASTIC memberships  *)
(* are in SmfMembership, here one may lapse at any time.                   *)
(***************************************************************************)
EXTENDS SmfFlowKeys, Sequences, FiniteSets, SequencesExt

CONSTANTS
    Flow,                         \* keys of flows: all but the interface
    Group,                        \* keys of groups: the destination alone
    Iface,                        \* interfaces of the elastic group
    Relay,                        \* neighbors that relay flows to us
    Local,                        \* the source of the packets we send ourselves
    DEFAULT_IDLE_COUNT_THRESHOLD  \* packets without an EM-ACK that end a membership

ASSUME FlowAssumption ==
    /\ \A f \in Flow : f = On(f, Open) /\ \A j \in 1 .. 4 : f[j] # Open
    /\ \A g \in Group : g = << g[1], Open, Open, Open, Open >> /\ g[1] # Open
    /\ Open \notin Iface \cup Relay
    /\ DEFAULT_IDLE_COUNT_THRESHOLD \in Nat \ {0}

VARIABLES
    fib,                    \* flow_table: the entry of each flow seen
    active_list, idle_list, \* its flows, the last refreshed first
    fresh,                  \* those refreshed within the timeout of their list
    flags,                  \* per membership: its flags; {}: no membership
    idle_count,             \* per ELASTIC membership: packets since its last EM-ACK
    acked                   \* EM-ACKs the last step sent, as << flow, relay >>

vars == << fib, active_list, idle_list, fresh, flags, idle_count, acked >>

Entries == DOMAIN fib
Active == ToSet(active_list)
Membership == {On(k, i) : k \in Flow \cup Group, i \in Iface}
Key == Flow \cup Group \cup Membership
Held(fl) == {m \in Membership : fl[m] # {}}

\* Which flows, and which memberships, the iterators find for a description.
FlowsOf == [d \in Key |-> SubMatches(d, Flow)]
MembershipsOf == [d \in Key |-> BiMatches(d, Membership)]

-----------------------------------------------------------------------------
\* Entries.  A relay is "unknown", "counting" the packets since the last
\* EM-ACK to it, or "due" one with its next packet (Preset).

Entry == [acking : BOOLEAN, forward : SUBSET Iface, relays : [Relay -> {"unknown", "counting", "due"}]]

NewEntry == [acking |-> FALSE, forward |-> {}, relays |-> [r \in Relay |-> "unknown"]]

Known(e) == {r \in Relay : e.relays[r] # "unknown"}

SetAckingStatus(e, status) ==
    [e EXCEPT !.acking = status,
              !.relays = [r \in Relay |-> IF e.acking /\ ~status /\ r \in Known(e) THEN "due" ELSE @[r]]]

\* GetBestUpstreamRelay forgets the relays that were not heard for a while.
\* Which were, and which of these is best, depends on the channel: u.
Upstreams(e, recent) ==
    {u \in [heard : SUBSET Known(e), best : Known(e) \cup {Open}] :
        /\ u.heard # {} => recent
        /\ IF u.heard = {} THEN u.best = Open ELSE u.best \in u.heard}

BestUpstreamRelay(e, u) ==
    [e EXCEPT !.relays = [r \in Relay |-> IF r \in u.heard THEN @[r] ELSE "unknown"]]

\* An entry that starts to be acked has an EM-ACK sent right away.
Preempt(e, u) ==
    IF e.acking THEN e
    ELSE LET known == BestUpstreamRelay(e, u)
         IN IF u.best = Open THEN known ELSE [known EXCEPT !.relays[u.best] = "counting"]

-----------------------------------------------------------------------------
\* The forwarder: what its calls do to the entries that d matches.  None of
\* these is removed, all being in one of the lists.

SetAcking(entries, d, status, up) ==
    [f \in DOMAIN entries |->
        IF f \notin FlowsOf[d] THEN entries[f]
        ELSE SetAckingStatus(IF status THEN Preempt(entries[f], up[f]) ELSE entries[f], status)]

SetForwarding(entries, d, i, forward, status, up) ==
    LET set == SetAcking(entries, d, status, up)
    IN [f \in DOMAIN entries |->
           IF f \notin FlowsOf[d] THEN set[f]
           ELSE [set[f] EXCEPT !.forward = IF forward THEN @ \cup {i} ELSE @ \ {i}]]

\* A definition named X_Fault is X with a plausible bug, used nowhere: it is
\* put in the place of X to see a property catch the bug.

\* The EM-ACKs such a call sends: none if d names no source.
PreemptiveAcks_Set(entries, d, status, up) == \* asks whether the flow is acked when it already is
    {<< f, up[f].best >> : f \in {g \in FlowsOf[d] \cap DOMAIN entries :
        status /\ d[2] # Open /\ ~SetAcking(entries, d, status, up)[g].acking /\ up[g].best # Open}}

PreemptiveAcks(entries, d, status, up) ==
    {<< f, up[f].best >> : f \in {g \in FlowsOf[d] \cap DOMAIN entries :
        status /\ d[2] # Open /\ ~entries[g].acking /\ up[g].best # Open}}

-----------------------------------------------------------------------------
Init ==
    /\ fib = [f \in {} |-> NewEntry]
    /\ active_list = << >>
    /\ idle_list = << >>
    /\ fresh = {}
    /\ flags = [m \in Membership |-> {}]
    /\ idle_count = [m \in Membership |-> 0]
    /\ acked = {}

Refresh_KeepsIdle(f) == \* a reactivated flow is not taken out of idle_list
    /\ active_list' = << f >> \o RemoveFirst(active_list, f)
    /\ fresh' = fresh \cup {f}
    /\ UNCHANGED idle_list

\* The flow is refreshed, or activated, and goes to the head of active_list.
Refresh(f) ==
    /\ active_list' = << f >> \o RemoveFirst(active_list, f)
    /\ idle_list' = RemoveFirst(idle_list, f)
    /\ fresh' = fresh \cup {f}

\* The relay of a packet, in entry e: an entry that is acked acks it if it is
\* new, if it is due, and if late: packets or time enough went by, or it is an
\* advertisement.
AckPending(e, r, late) == r \in Relay /\ e.acking /\ (e.relays[r] # "counting" \/ late)

Heard(e, r, late) ==
    IF r \in Relay /\ (AckPending(e, r, late) \/ r \notin Known(e)) THEN [e EXCEPT !.relays[r] = "counting"] ELSE e

Members_Below(d, fl) == Held(fl) \cap SubMatches(d, Membership) \* a flow does not match its group

\* The memberships an iterator of the controller visits for description d.
Members(d, fl) == Held(fl) \cap MembershipsOf[d]

Acked_OnlyOn(f, left, acking) == acking \/ Members(f, left) # {} \* never switched off

\* The flow stays acked, or starts to be, if it matches a membership.
Acked(f, left, acking) == Members(f, left) # {}

\* Controller: n more packets of f.  The ELASTIC memberships of it that have
\* gone DEFAULT_IDLE_COUNT_THRESHOLD packets without an EM-ACK end.
Update(f, n, entries, acks, up) ==
    LET elastic == {m \in Members(f, flags) : "ELASTIC" \in flags[m]}
        ended == {m \in elastic : idle_count[m] + n >= DEFAULT_IDLE_COUNT_THRESHOLD}
        left == [m \in Membership |-> IF m \in ended THEN flags[m] \ {"ELASTIC"} ELSE flags[m]]
        stopped == [entries EXCEPT ![f].forward = @ \ {m[5] : m \in ended}]
        status == Acked(f, left, entries[f].acking)
    IN /\ flags' = left
       /\ idle_count' = [m \in Membership |->
                            IF m \in ended THEN 0 ELSE IF m \in elastic THEN idle_count[m] + n ELSE idle_count[m]]
       /\ fib' = IF status = entries[f].acking THEN stopped ELSE SetAcking(stopped, f, status, up)
       /\ acked' = acks \cup PreemptiveAcks(stopped, f, status, up)

-----------------------------------------------------------------------------
\* UpdateElasticRouting: a packet or an advertisement of f from r, not a
\* duplicate.  The controller is told of a new or reactivated flow, and when
\* packets or time enough went by (a minute is enough).
RecvPacket(f, r, n, update, late) ==
    LET old == IF f \in Entries THEN fib[f] ELSE NewEntry
        entry == Heard(old, r, late)
        entries == [g \in Entries \cup {f} |-> IF g = f THEN entry ELSE fib[g]]
        acks == IF AckPending(old, r, late) THEN {<< f, r >>} ELSE {}
    IN /\ f \notin Active \cap fresh => update
       /\ late => r \in Relay
       /\ Refresh(f)
       /\ IF update THEN \E u \in Upstreams(entry, TRUE) :
                            /\ r \in Relay => r \in u.heard
                            /\ Update(f, n, entries, acks, [g \in Flow |-> u])
          ELSE n = 0 /\ fib' = entries /\ acked' = acks /\ UNCHANGED << flags, idle_count >>

HandleAck_NewOnly(f, i) == \* the forwarder is told of new memberships only
    LET m == On(f, i)
    IN /\ f \in Active \cap fresh
       /\ flags' = [flags EXCEPT ![m] = @ \cup {"ELASTIC"}]
       /\ idle_count' = [idle_count EXCEPT ![m] = 0]
       /\ IF flags[m] # {} THEN fib' = fib /\ acked' = {}
          ELSE \E u \in Upstreams(fib[f], TRUE) :
                  /\ fib' = SetForwarding(fib, f, i, TRUE, TRUE, [g \in Flow |-> u])
                  /\ acked' = PreemptiveAcks(fib, f, TRUE, [g \in Flow |-> u])
       /\ UNCHANGED << active_list, idle_list, fresh >>

\* An EM-ACK of f arrives on i: somebody there answers a packet of f, which
\* is not long ago.
HandleAck(f, i) ==
    LET m == On(f, i)
    IN /\ f \in Active \cap fresh
       /\ flags' = [flags EXCEPT ![m] = @ \cup {"ELASTIC"}]
       /\ idle_count' = [idle_count EXCEPT ![m] = 0]
       /\ IF "ELASTIC" \in flags[m] THEN fib' = fib /\ acked' = {}
          ELSE \E u \in Upstreams(fib[f], TRUE) :
                  /\ fib' = SetForwarding(fib, f, i, TRUE, TRUE, [g \in Flow |-> u])
                  /\ acked' = PreemptiveAcks(fib, f, TRUE, [g \in Flow |-> u])
       /\ UNCHANGED << active_list, idle_list, fresh >>

\* A join of g on i (HandleIGMP, command line).
AddManagedMembership(g, i) ==
    LET m == On(g, i)
        joined == [flags EXCEPT ![m] = @ \cup {"MANAGED"}]
        members == Members(m, joined)
        none == [heard |-> {}, best |-> Open]
    IN /\ flags' = [k \in Membership |->
                       IF k \in members /\ k[5] = i THEN joined[k] \cup {"MANAGED"} ELSE flags[k]]
       /\ IF flags[m] # {} THEN fib' = fib /\ acked' = {}
          ELSE \E up \in [Flow -> UNION {Upstreams(fib[f], f \in Active \cap fresh) : f \in Entries} \cup {none}] :
                  /\ \A f \in Entries : up[f] \in Upstreams(fib[f], f \in Active \cap fresh)
                  /\ \A f \in Flow \ Entries : up[f] = none
                  /\ fib' = SetAcking(fib, m, TRUE, up)
                  /\ acked' = PreemptiveAcks(fib, m, TRUE, up)
       /\ UNCHANGED << active_list, idle_list, fresh, idle_count >>

\* A leave of g on i: what g matches there is MANAGED no more.
RemoveManagedMembership(g, i) ==
    LET members == Members(g, flags)
        left == [k \in Membership |->
                    IF k \in members /\ k[5] = i THEN flags[k] \ {"MANAGED"} ELSE flags[k]]
        none == members # {} /\ Members(g, left) = {}
    IN /\ flags' = left
       /\ fib' = IF none THEN SetAcking(fib, g, FALSE, [f \in Flow |-> Open]) ELSE fib
       /\ acked' = {}
       /\ UNCHANGED << active_list, idle_list, fresh, idle_count >>

\* OnMembershipTimeout: an ELASTIC membership lapses.  The forwarder is called
\* with the description of the membership, which names the interface.
Lapse(f, i) ==
    LET m == On(f, i)
        left == [flags EXCEPT ![m] = @ \ {"ELASTIC"}]
        status == left[m] # {} \/ Members(m, left) # {}
    IN /\ "ELASTIC" \in flags[m]
       /\ flags' = left
       /\ idle_count' = [idle_count EXCEPT ![m] = 0]
       /\ \E u \in Upstreams(fib[f], f \in Active \cap fresh) :
             /\ fib' = SetForwarding(fib, m, i, FALSE, status, [g \in Flow |-> u])
             /\ acked' = PreemptiveAcks(fib, m, status, [g \in Flow |-> u])
       /\ UNCHANGED << active_list, idle_list, fresh >>

-----------------------------------------------------------------------------
\* A minute (two, in idle_list) without a packet of f.  EM-ACKs of f ended
\* before: they answer packets, and their memberships last 30 seconds.
GoesStale(f) ==
    /\ f \in fresh
    /\ \A i \in Iface : "ELASTIC" \notin flags[On(f, i)]
    /\ \A list \in {active_list, idle_list} : \A j, k \in DOMAIN list :
          list[j] = f /\ j < k => list[k] \notin fresh
    /\ fresh' = fresh \ {f}
    /\ UNCHANGED << fib, active_list, idle_list, flags, idle_count, acked >>

\* How many of a list are left if it is pruned from its end.
Kept(list) == CHOOSE n \in 0 .. Len(list) : /\ \A j \in n + 1 .. Len(list) : list[j] \notin fresh
                                            /\ n > 0 => list[n] \in fresh

PruneFlowList ==
    LET active == Kept(active_list)
        idle == Kept(idle_list)
        demoted == SubSeq(active_list, active + 1, Len(active_list))
        kept == SubSeq(idle_list, 1, idle)
    IN /\ active < Len(active_list) \/ idle < Len(idle_list)
       /\ active_list' = SubSeq(active_list, 1, active)
       /\ idle_list' = demoted \o kept
       /\ fresh' = fresh \cup ToSet(demoted)
       /\ fib' = [f \in Active \cup ToSet(kept) |-> fib[f]]
       /\ acked' = {}
       /\ UNCHANGED << flags, idle_count >>

Next ==
    \/ \E f \in Flow :
          \/ \E r \in Relay \cup {Local}, n \in 0 .. DEFAULT_IDLE_COUNT_THRESHOLD, update, late \in BOOLEAN :
                RecvPacket(f, r, n, update, late)
          \/ \E i \in Iface : HandleAck(f, i) \/ Lapse(f, i)
          \/ GoesStale(f)
    \/ \E g \in Group, i \in Iface : AddManagedMembership(g, i) \/ RemoveManagedMembership(g, i)
    \/ PruneFlowList

\* A packet of f the controller is told of.
Reported(f) ==
    \E r \in Relay \cup {Local}, n \in 0 .. DEFAULT_IDLE_COUNT_THRESHOLD, late \in BOOLEAN :
        RecvPacket(f, r, n, TRUE, late)

\* A flow has no packet for a minute, or it has one and the controller is told
\* once in 30 seconds (acking_interval_max).  The prune timer always runs.
Fairness ==
    /\ \A f \in Flow : WF_vars(f \in fresh /\ (GoesStale(f) \/ Reported(f)))
    /\ WF_vars(PruneFlowList)

Spec == Init /\ [][Next]_vars /\ Fairness

-----------------------------------------------------------------------------
\* Every entry is in one list, once, and memberships count packets below the
\* threshold.
TypeOK ==
    /\ fib \in [Entries -> Entry]
    /\ Entries \subseteq Flow
    /\ active_list \in Seq(Entries) /\ idle_list \in Seq(Entries)
    /\ \A f \in Entries : Cardinality({j \in DOMAIN active_list : active_list[j] = f})
                          + Cardinality({j \in DOMAIN idle_list : idle_list[j] = f}) = 1
    /\ fresh \subseteq Entries
    /\ flags \in [Membership -> SUBSET {"MANAGED", "ELASTIC"}]
    /\ idle_count \in [Membership -> 0 .. DEFAULT_IDLE_COUNT_THRESHOLD - 1]
    /\ acked \subseteq Flow \X Relay

\* While a neighbor keeps a membership of a flow alive with EM-ACKs the flow
\* is forwarded to it, whatever joins, leaves and timeouts did to the same
\* membership, and to others, before: its first EM-ACK alone turns it on.
AckedIsForwarded ==
    \A f \in Entries, i \in Iface : "ELASTIC" \in flags[On(f, i)] => i \in fib[f].forward

\* There is a membership of the flow, or of its group.
Wanted(f) ==
    \E i \in Iface : flags[On(f, i)] # {} \/ \E g \in Group : g[1] = f[1] /\ flags[On(g, i)] # {}

\* A flow somebody wants is acked upstream, also if it was joined before its
\* first packet, idle for a while, or wanted by one of its members only when
\* another leaves: what matching finds for a flow is all that wants it.
MemberIsAcked ==
    \A f \in Entries : Wanted(f) => fib[f].acking

\* A flow nobody wants is not acked upstream forever.
AcksStop ==
    \A f \in Flow : f \in Entries /\ fib[f].acking /\ ~Wanted(f)
                    ~> f \notin Entries \/ ~fib[f].acking \/ Wanted(f)

\* A flow that starts to be acked, by the first EM-ACK from downstream or by a
\* packet that finds a membership, has an EM-ACK passed on at once if one of
\* its relays was heard lately: the others were forgotten in the same step.  A
\* join of its group is different: its EM-ACK is not built (SendAck).
AcksRightAway ==
    [][\A f \in DOMAIN fib' :
          \/ f \in Entries /\ fib[f].acking
          \/ fib'[f].acking /\ Known(fib'[f]) # {} => \E r \in Relay : << f, r >> \in acked'
          \/ \E g \in Group, i \in Iface : flags[On(g, i)] = {} /\ flags'[On(g, i)] # {}]_vars
=============================================================================
