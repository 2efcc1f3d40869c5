----------------------------- MODULE SmfGroups ------------------------------
(***************************************************************************)
(* Interface groups: which interfaces they have, which of these relay to   *)
(* which others, and how interfaces, groups and the matchers that wait for *)
(* new interfaces come and go (GetInterfaceGroup .. RemoveMatchers and     *)
(* MonitorEventHandler of class SmfApp, AddInterfaceGroup ..               *)
(* DeleteInterface of class Smf).                                          *)
(*                                                                         *)
(* A command runs through many small updates, any of which may fail; what  *)
(* was done before stays done.  Associations and matchers refer to groups  *)
(* by address: Freed stands for the address of a group that was deleted.   *)
(* Reading through it, or through NULL, ends the program.                  *)
(*                                                                         *)
(* A device exists while it is up, and the program learns at once when it  *)
(* comes or goes.  Left out: relay types, tunnels, the firewall build, and *)
(* what elastic groups tell the controller.                                *)
(***************************************************************************)
EXTENDS Integers, Sequences, FiniteSets, SequencesExt

CONSTANTS
    Device,    \* the indices of devices; 0 is none
    Pattern,  \* wildcard names, like ppp#
    Match,    \* per pattern: the devices it matches
    Config,   \* the commands that configure groups
    None,     \* the NULL pointer; no name
    Freed     \* a group that was deleted

ASSUME DeviceAssumption == Device \subseteq Nat \ {0} /\ IsFiniteSet(Device)
ASSUME PatternAssumption ==
    /\ Pattern \cap Device = {}
    /\ Match \in [Pattern -> SUBSET Device]
    /\ \A p, r \in Pattern : p # r => Match[p] \cap Match[r] = {}
ASSUME NoneAssumption == None \notin Device \cup Pattern
ASSUME ConfigAssumption ==
    \A c \in Config : /\ c.mode \in {"RELAY", "PUSH", "MERGE"} /\ c.rseq \in BOOLEAN
                      /\ c.list \in Seq(Device \cup Pattern) /\ c.list # << >>

VARIABLES
    devices,     \* those that are up
    groups,      \* iface_group_list: the groups, by name
    ifaces,      \* iface_list: the interfaces that exist
    assoc,       \* per pair << source, target >> that has an Associate: its group
    input,       \* interfaces whose ProtoCap notifies input
    resequence,  \* interfaces that resequence
    matchers,    \* iface_matcher_list
    crashed      \* NULL or a deleted group was followed

vars == << devices, groups, ifaces, assoc, input, resequence, matchers, crashed >>

Mode == {"RELAY", "PUSH", "MERGE"}

\* A push group is named after its base and its source, or the source's
\* pattern if it is the template of the groups of matching sources.
Name == {c.base : c \in Config} \X (Device \cup Pattern \cup {None})

\* complete, for the properties only: its last update succeeded.
Group == [mode : Mode, rseq : BOOLEAN, template : BOOLEAN, members : SUBSET Device,
          source : Device \cup {None}, complete : BOOLEAN]

Matcher == [prefix : Pattern, group : Name \cup {Freed}, source : BOOLEAN]

-----------------------------------------------------------------------------
\* The state as a record, that calls take and return; ok is their result

Smf == [devices |-> devices, groups |-> groups, ifaces |-> ifaces, assoc |-> assoc, input |-> input,
        resequence |-> resequence, matchers |-> matchers, crashed |-> FALSE, ok |-> TRUE]

Become(s) ==
    /\ ~ crashed
    /\ devices' = s.devices
    /\ crashed' = s.crashed
    /\ IF s.crashed THEN UNCHANGED << groups, ifaces, assoc, input, resequence, matchers >>
       ELSE /\ groups' = s.groups /\ ifaces' = s.ifaces /\ assoc' = s.assoc /\ input' = s.input
            /\ resequence' = s.resequence /\ matchers' = s.matchers

Fail(s) == [s EXCEPT !.ok = FALSE]
Crash(s) == [s EXCEPT !.ok = FALSE, !.crashed = TRUE]

\* Op for one after the other, whatever it returns.
Each(s, Op(_, _), seq) ==
    LET Ignoring(t) == [t EXCEPT !.ok = ~ t.crashed]
        after[k \in 0 .. Len(seq)] ==
            IF k = 0 THEN s
            ELSE LET t == after[k - 1] IN IF t.crashed THEN t ELSE Ignoring(Op(t, seq[k]))
    IN  after[Len(seq)]

\* A finite set of numbers in their order, and the cells of a list that it numbers.
ByIndex(is) ==
    CHOOSE seq \in [1 .. Cardinality(is) -> is] : \A k, n \in DOMAIN seq : k < n => seq[k] < seq[n]

Cells(list, is) == [k \in 1 .. Cardinality(is) |-> list[ByIndex(is)[k]]]

\* The groups whose names begin like g.
Prefixed(s, g) ==
    {h \in DOMAIN s.groups : h[1] = g[1] /\ \/ h[2] = g[2]
                                            \/ g[2] = None
                                            \/ g[2] \in Pattern /\ h[2] \in Match[g[2]]}

-----------------------------------------------------------------------------
\* Deletion

InGroup(s) == UNION {s.groups[g].members : g \in DOMAIN s.groups}

\* DeleteInterface for each of I: their associations go with them.
Deleted(s, I) ==
    [s EXCEPT !.ifaces = @ \ I, !.input = @ \ I, !.resequence = @ \ I,
              !.assoc = Restrict(@, {p \in DOMAIN @ : p[1] \notin I /\ p[2] \notin I})]

FreeGroups(s, G) ==
    LET Mark(g) == IF g \in G THEN Freed ELSE g
    IN  [s EXCEPT !.groups = Restrict(@, DOMAIN @ \ G),
                  !.assoc = [p \in DOMAIN @ |-> Mark(@[p])],
                  !.matchers = [k \in DOMAIN @ |-> [@[k] EXCEPT !.group = Mark(s.matchers[k].group)]]]

\* Smf::DeleteInterfaceGroup for each of G.
DeleteGroups(s, G) ==
    LET t == FreeGroups(s, G)
    IN  Deleted(t, InGroup(s) \ InGroup(t))

DropInterface_KeepsTargets(s, i) == \* the push groups of i keep their members
    LET t == [s EXCEPT !.groups = [g \in DOMAIN @ |-> [@[g] EXCEPT !.members = @ \ {i}]]]
        u == FreeGroups(t, {g \in DOMAIN t.groups : ~ t.groups[g].template /\ t.groups[g].members = {}})
    IN  IF i \notin s.ifaces THEN s ELSE Deleted(u, {i} \cup (InGroup(s) \ InGroup(u)))

\* Smf::RemoveInterface: out of all groups; a push group ends with its source.
DropInterface(s, i) ==
    LET Rest(grp) == IF ~ grp.template /\ grp.source = i THEN {} ELSE grp.members \ {i}
        touched == {g \in DOMAIN s.groups : i \in s.groups[g].members}
        t == [s EXCEPT !.groups = [g \in DOMAIN @ |-> IF g \in touched THEN [@[g] EXCEPT !.members = Rest(s.groups[g])]
                                                      ELSE @[g]]]
        u == FreeGroups(t, {g \in touched : ~ t.groups[g].template /\ t.groups[g].members = {}})
    IN  IF i \notin s.ifaces THEN s ELSE Deleted(u, {i} \cup (InGroup(s) \ InGroup(u)))

RemoveMatchers(s, G) ==
    IF \E k \in DOMAIN s.matchers : s.matchers[k].group = Freed THEN Crash(s)
    ELSE [s EXCEPT !.matchers = Cells(@, {k \in DOMAIN @ : @[k].group \notin G})]

\* A group is deleted by name, with its matchers.
RemoveGroups(s, G) ==
    LET t == RemoveMatchers(s, G)
    IN  IF G = {} THEN Fail(s) ELSE IF t.crashed THEN t ELSE DeleteGroups(t, G)

-----------------------------------------------------------------------------
\* Associations

\* From each interface to those it relays to: all in a relay group, all
\* others in a merge group; in a push group only the source relays.
Sources(grp) == IF grp.mode = "PUSH" THEN {grp.source} \cap Device ELSE grp.members

Pairs(grp) == {p \in Sources(grp) \X grp.members : grp.mode = "RELAY" \/ p[1] # p[2]}

Refuses_RelayAnyway(s, grp, i) == \* a relay group takes interfaces that resequence
    grp.mode # "RELAY" /\ grp.rseq /\ << i, i >> \in DOMAIN s.assoc

\* Resequencing is for interfaces that do not relay to themselves.
Refuses(s, grp, i) ==
    IF grp.mode = "RELAY" THEN i \in s.resequence ELSE grp.rseq /\ << i, i >> \in DOMAIN s.assoc

Before(p, r) == p[1] < r[1] \/ (p[1] = r[1] /\ p[2] < r[2])

Taken_WarnsOnly(s, g, p) == \* an associate of another group is passed over
    FALSE

\* An associate that refers to another group, alive or not.
Taken(s, g, p) == p \in DOMAIN s.assoc /\ s.assoc[p] # g

\* The pairs are visited in order, each interface first checked (at << i, 0 >>),
\* up to the first that refuses or whose associate is another group's.
Stops(s, g) ==
    LET grp == s.groups[g]
    IN  {p \in Pairs(grp) : Taken(s, g, p)} \cup {<< i, 0 >> : i \in {j \in Sources(grp) : Refuses(s, grp, j)}}

Reached(s, g, p) == \A r \in Stops(s, g) : Before(p, r)

Made(s, g) == {p \in Pairs(s.groups[g]) : Reached(s, g, p)}

Examined(s, g) == {i \in Sources(s.groups[g]) : s.groups[g].mode # "RELAY" /\ Reached(s, g, << i, 0 >>)}

Associated(s, g) ==
    [s EXCEPT !.assoc = [p \in DOMAIN @ \cup Made(s, g) |-> IF p \in Made(s, g) THEN g ELSE @[p]],
              !.resequence = IF s.groups[g].rseq THEN @ \cup Examined(s, g) ELSE @ \ Examined(s, g)]

\* Nothing stopped it: whoever relays to somebody is heard.
Completed(s, g) ==
    [s EXCEPT !.groups[g].complete = TRUE,
              !.input = @ \cup {i \in s.groups[g].members : \E p \in DOMAIN s.assoc : p[1] = i}]

\* The error message about an associate of another group reads the push
\* source, which relay and merge groups have not, and asks that group.
UpdateGroupAssociations(s, g) ==
    LET grp == s.groups[g]
        t == Associated(s, g)
        first == CHOOSE p \in Stops(s, g) : \A r \in Stops(s, g) \ {p} : Before(p, r)
    IN  IF grp.mode = "PUSH" /\ grp.source = None THEN s
        ELSE IF Stops(s, g) = {} THEN Completed(t, g)
        ELSE IF Taken(s, g, first) /\ (grp.mode # "PUSH" \/ s.assoc[first] = Freed) THEN Crash(t)
        ELSE Fail(t)

-----------------------------------------------------------------------------
\* Configuration

AddInterfaceToGroup(s, g, i, isSource) ==
    LET new == i \notin s.groups[g].members
        t == [s EXCEPT !.groups[g].members = @ \cup {i}, !.groups[g].complete = FALSE,
                       !.groups[g].source = IF new /\ isSource /\ s.groups[g].mode = "PUSH" THEN i ELSE @]
    IN  IF t.groups[g].template THEN t ELSE UpdateGroupAssociations(t, g)

\* A literal name: GetInterface makes the interface if the device exists.
AddName(s, g, i, isSource) ==
    IF i \notin s.devices THEN Fail(s)
    ELSE AddInterfaceToGroup([s EXCEPT !.ifaces = @ \cup {i}, !.ok = TRUE], g, i, isSource)

\* A group that a source matcher makes starts with the members of its template.
GetInterfaceGroup(s, g, mode, rseq, template) ==
    LET new == [mode |-> mode, rseq |-> rseq, template |-> g[2] \in Pattern, source |-> None, complete |-> FALSE,
                members |-> IF template = None THEN {} ELSE s.groups[template].members]
    IN  IF g \notin DOMAIN s.groups THEN [s EXCEPT !.groups = [h \in DOMAIN @ \cup {g} |-> IF h = g THEN new ELSE @[h]]]
        ELSE IF s.groups[g].mode = mode /\ s.groups[g].rseq = rseq THEN s ELSE Fail(s)

\* ParseInterfaceList for a list of one interface.
ParseOne(s, g, mode, rseq, template, i) ==
    LET t == GetInterfaceGroup([s EXCEPT !.ok = TRUE], g, mode, rseq, template)
    IN  IF t.ok THEN AddName(t, g, i, TRUE) ELSE t

\* All that matches but push is taken for relaying without resequencing.
MatchInterface(s, m, i) ==
    IF m.group = Freed THEN Crash(s)
    ELSE IF m.source
         THEN ParseOne(s, << m.group[1], i >>, "PUSH", s.groups[m.group].rseq, m.group, i)
    ELSE IF s.groups[m.group].mode = "PUSH"
         THEN Each(s, LAMBDA t, g : AddName(t, g, i, FALSE), SetToSeq(Prefixed(s, m.group)))
    ELSE ParseOne(s, m.group, "RELAY", FALSE, None, i)

MatchExistingInterfaces(s, m) ==
    Each(s, LAMBDA t, i : MatchInterface(t, m, i), ByIndex(Match[m.prefix] \cap s.devices))

\* A wildcard is looked for among the matchers, each of which names its group.
ParseInterfaceName(s, g, x, isSource) ==
    LET m == [prefix |-> x, group |-> g, source |-> isSource /\ s.groups[g].mode = "PUSH"]
        k == SelectInSeq(s.matchers, LAMBDA n : n = m \/ (n.prefix = x /\ n.group = Freed))
    IN  IF x \notin Pattern THEN AddName(s, g, x, isSource)
        ELSE IF k = 0 THEN MatchExistingInterfaces([s EXCEPT !.matchers = Append(@, m)], m)
        ELSE IF s.matchers[k] = m THEN MatchExistingInterfaces(s, m)
        ELSE Crash(s)

\* The first interface that cannot be added ends the command; what was done stays.
ParseInterfaceList(s, c) ==
    LET g == << c.base, IF c.mode = "PUSH" THEN c.list[1] ELSE None >>
        after[k \in 0 .. Len(c.list)] ==
            IF k = 0 THEN GetInterfaceGroup(s, g, c.mode, c.rseq, None)
            ELSE LET t == after[k - 1] IN IF t.ok THEN ParseInterfaceName(t, g, c.list[k], k = 1) ELSE t
    IN  after[Len(c.list)]

-----------------------------------------------------------------------------
\* Removal of interfaces from a group, or from all if g is None

RemoveMember(s, g, i) ==
    LET t == [s EXCEPT !.groups[g].members = @ \ {i}]
        u == IF i \in InGroup(t) THEN t ELSE Deleted(t, {i})
    IN  IF g = None THEN DropInterface(s, i)
        ELSE IF g \notin DOMAIN s.groups \/ i \notin s.groups[g].members THEN s
        ELSE IF ~ s.groups[g].template /\ s.groups[g].source = i THEN DeleteGroups(s, {g})
        ELSE IF u.groups[g].members = {} THEN DeleteGroups(u, {g}) ELSE u

\* A wildcard ends the matchers first; a source matcher takes all its groups along.
RemoveInterface(s, g, x) ==
    LET Mine(m) == m.prefix = x /\ g \in {None, m.group}
        k == SelectInSeq(s.matchers, LAMBDA m : Mine(m) /\ m.source)
        last == IF k = 0 THEN Len(s.matchers) ELSE k - 1
        t == [s EXCEPT !.matchers = Cells(@, {n \in DOMAIN @ : n > last \/ ~ Mine(@[n])})]
    IN  IF x \notin Pattern THEN IF x \in s.devices THEN RemoveMember(s, g, x) ELSE Fail(s)
        ELSE IF \E m \in ToSet(s.matchers) : m.prefix = x /\ m.group = Freed THEN Crash(s)
        ELSE IF k # 0 THEN RemoveGroups(t, Prefixed(t, s.matchers[k].group))
        ELSE Each(t, LAMBDA u, i : RemoveMember(u, g, i), Reverse(ByIndex(Match[x] \cap t.devices)))

-----------------------------------------------------------------------------
\* Commands and events

Init ==
    /\ devices \in SUBSET Device
    /\ groups = << >> /\ ifaces = {} /\ assoc = << >> /\ input = {} /\ resequence = {}
    /\ matchers = << >>
    /\ crashed = FALSE

\* add, or a command named after a mode or a relay type.
Configure(c) == Become(ParseInterfaceList(Smf, c))

\* remove <group>, or remove <group>,<source> for a push group.  What
\* is the name of no group is taken for an interface of all groups.
RemoveNamed(g) ==
    LET G == IF g \in DOMAIN groups THEN {g} ELSE Prefixed(Smf, g)
    IN  Become(IF G # {} THEN RemoveGroups(Smf, G)
               ELSE IF g[2] \in Device THEN RemoveInterface(Smf, None, g[2])
               ELSE Fail(Smf))

\* remove <source pattern> of a push group: its template and all that match.
RemovePush(g) == g[2] \in Pattern /\ Become(RemoveGroups(Smf, Prefixed(Smf, g)))

\* remove <interface>
RemoveEverywhere(x) == Become(RemoveInterface(Smf, None, x))

\* remove <group>,<interface>, in all matching groups for a source pattern.
RemoveMembers(g, x) ==
    /\ g \in DOMAIN groups
    /\ Become(Each(Smf, LAMBDA s, h : RemoveInterface(s, h, x),
                   SetToSeq(IF g[2] \in Pattern THEN Prefixed(Smf, g) ELSE {g})))

\* MonitorEventHandler: a device comes up; if its interface is not known
\* (it cannot be: it went with the device), all matchers try to place it.
IfaceUp(i) ==
    /\ i \notin devices
    /\ LET s == [Smf EXCEPT !.devices = @ \cup {i}]
       IN  Become(Each(s, LAMBDA t, m : MatchInterface(t, m, i),
                       Cells(matchers, {k \in DOMAIN matchers : i \in Match[matchers[k].prefix]})))

\* ... or goes down, and its interface with it.
IfaceDown(i) ==
    /\ i \in devices
    /\ Become(DropInterface([Smf EXCEPT !.devices = @ \ {i}], i))

Next ==
    \/ \E c \in Config : Configure(c)
    \/ \E g \in Name : RemoveNamed(g) \/ RemovePush(g)
    \/ \E x \in Device \cup Pattern : RemoveEverywhere(x)
    \/ \E g \in Name, x \in Device \cup Pattern : RemoveMembers(g, x)
    \/ \E i \in Device : IfaceUp(i) \/ IfaceDown(i)

Spec == Init /\ [][Next]_vars

-----------------------------------------------------------------------------
\* Properties

\* TypeOK: besides the types, what the deletions in three places must leave:
\* exactly the interfaces that are in some group exist, associations connect
\* them, and the source of a push group, a bare pointer, is one of its members.
TypeOK ==
    /\ devices \in SUBSET Device
    /\ DOMAIN groups \subseteq Name
    /\ \A g \in DOMAIN groups : groups[g] \in Group /\ groups[g].source \in groups[g].members \cup {None}
    /\ ifaces = InGroup(Smf)
    /\ DOMAIN assoc \subseteq ifaces \X ifaces
    /\ \A p \in DOMAIN assoc : assoc[p] \in DOMAIN groups \cup {Freed}
    /\ input \subseteq ifaces /\ resequence \subseteq ifaces
    /\ ToSet(matchers) \subseteq Matcher
    /\ crashed \in BOOLEAN

\* What a push, merge or relay group is for, stated without UpdateGroupAssociations:
\* whom a member sends to.
SendsTo(grp, i, j) ==
    CASE grp.mode = "RELAY" -> TRUE
      [] grp.mode = "MERGE" -> i # j
      [] grp.mode = "PUSH" -> i = grp.source /\ i # j

\* GroupsWork: once a group's last update succeeded it works as configured,
\* whatever happens to other groups or to single interfaces later: each member
\* is associated with those it sends to, on this group's behalf, and is heard.
GroupsWork ==
    \A g \in DOMAIN groups : groups[g].complete =>
        \A i, j \in groups[g].members : SendsTo(groups[g], i, j) =>
            i \in input /\ << i, j >> \in DOMAIN assoc /\ assoc[<< i, j >>] = g

\* ResequencedIsNoRelay: an interface that renumbers what it receives never
\* relays to itself (nrlsmf.cpp:3594, 3650, 3693): its own packets would come
\* back under new numbers, as no duplicates, for ever.
ResequencedIsNoRelay == \A i \in resequence : << i, i >> \notin DOMAIN assoc
=============================================================================
