-------------------------- MODULE SmfElasticProofs --------------------------
(***************************************************************************)
(* Proofs about SmfElastic for any flows, groups, interfaces and relays,   *)
(* and any idle count; and about SmfFlowTable, the table that its entries  *)
(* and its memberships stand in, for any keys of at most two lengths.      *)
(*                                                                         *)
(* The flow table and the membership table meet through descriptions that  *)
(* match.  So first: which entries, and which memberships, the four kinds  *)
(* of descriptions match that the program calls with.  That a table finds  *)
(* what matches is the last part.                                          *)
(***************************************************************************)
EXTENDS SmfElastic, SmfFlowTable, FiniteSetTheorems, SequenceTheorems, WellFoundedInduction, TLAPS

-----------------------------------------------------------------------------
\* Descriptions

\* The prefix of a key with n leading fields reaches n fields.
LEMMA PrefixReaches ==
    \A n \in 0 .. 5 : \A j \in 1 .. 5 : Bits[j] < Bits[n + 1] <=> j <= n
BY AddrAssumption DEF Bits

\* A key whose first n fields are set, and the next is not.
LEMMA DepthIs ==
    ASSUME NEW k, NEW n \in 0 .. 5, \A j \in 1 .. n : k[j] # Open, n < 5 => k[n + 1] = Open
    PROVE  Depth(k) = n
<1> DEFINE P(m) == (\A j \in 1 .. m : k[j] # Open) /\ (m < 5 => k[m + 1] = Open)
<1>1. Depth(k) \in 0 .. 5 /\ P(Depth(k))
  <2>1. n \in 0 .. 5 /\ P(n)
    OBVIOUS
  <2>2. Depth(k) = CHOOSE m \in 0 .. 5 : P(m)
    BY DEF Depth
  <2> HIDE DEF P
  <2> QED
    BY <2>1, <2>2
<1>2. ASSUME NEW m \in 0 .. 5, P(m) PROVE m = n
  <2>1. ~(m < n)
    <3>1. ASSUME m < n PROVE FALSE
      <4>1. m + 1 \in 1 .. n /\ m < 5
        BY <3>1
      <4> QED
        BY <1>2, <4>1
    <3> QED
      BY <3>1
  <2>2. ~(n < m)
    <3>1. ASSUME n < m PROVE FALSE
      <4>1. n + 1 \in 1 .. m /\ n < 5
        BY <3>1
      <4> QED
        BY <1>2, <4>1
    <3> QED
      BY <3>1
  <2> QED
    BY <2>1, <2>2
<1> HIDE DEF P
<1> QED
  BY <1>1, <1>2

LEMMA AgreeOn ==
    ASSUME NEW k, NEW d, NEW n \in 0 .. 5
    PROVE  Agree(k, d, Bits[n + 1]) <=> \A j \in 1 .. n : k[j] = d[j]
<1>1. \A j \in 1 .. n : j \in 1 .. 5 /\ j <= n
  OBVIOUS
<1>2. \A j \in 1 .. 5 : j <= n => j \in 1 .. n
  OBVIOUS
<1> QED
  BY <1>1, <1>2, PrefixReaches DEF Agree

\* The fields of the keys.
LEMMA FlowFields ==
    ASSUME NEW f \in Flow
    PROVE  /\ f[1] # Open /\ f[2] # Open /\ f[3] # Open /\ f[4] # Open /\ f[5] = Open
           /\ f = << f[1], f[2], f[3], f[4], Open >>
<1>1. f = << f[1], f[2], f[3], f[4], Open >> /\ \A j \in 1 .. 4 : f[j] # Open
  BY FlowAssumption DEF On
<1>2. f[5] = Open
  BY <1>1
<1> QED
  BY <1>1, <1>2

LEMMA GroupFields ==
    ASSUME NEW g \in Group
    PROVE  g[1] # Open /\ g[2] = Open /\ g[3] = Open /\ g[4] = Open /\ g[5] = Open
<1>1. g = << g[1], Open, Open, Open, Open >> /\ g[1] # Open
  BY FlowAssumption
<1> QED
  BY <1>1

LEMMA OnFields ==
    ASSUME NEW k, NEW i
    PROVE  LET m == On(k, i) IN m[1] = k[1] /\ m[2] = k[2] /\ m[3] = k[3] /\ m[4] = k[4] /\ m[5] = i
BY DEF On

LEMMA Sizes ==
    /\ \A f \in Flow : PrefixSize(f) = Bits[5]
    /\ \A g \in Group : PrefixSize(g) = Bits[2]
    /\ \A f \in Flow, i \in Iface : PrefixSize(On(f, i)) = Bits[6]
    /\ \A g \in Group, i \in Iface : PrefixSize(On(g, i)) = Bits[2]
<1>1. ASSUME NEW f \in Flow PROVE Depth(f) = 4
  BY FlowFields, DepthIs
<1>2. ASSUME NEW g \in Group PROVE Depth(g) = 1
  BY GroupFields, DepthIs
<1>3. ASSUME NEW f \in Flow, NEW i \in Iface PROVE Depth(On(f, i)) = 5
  <2>1. i # Open
    BY FlowAssumption
  <2> QED
    BY <2>1, FlowFields, OnFields, DepthIs
<1>4. ASSUME NEW g \in Group, NEW i \in Iface PROVE Depth(On(g, i)) = 1
  BY GroupFields, OnFields, DepthIs
<1> QED
  BY <1>1, <1>2, <1>3, <1>4 DEF PrefixSize

\* Flows are told apart by four fields, memberships by one more.
LEMMA SameFlow ==
    ASSUME NEW f \in Flow, NEW k \in Flow, \A j \in 1 .. 4 : k[j] = f[j]
    PROVE  k = f
<1>1. k[1] = f[1] /\ k[2] = f[2] /\ k[3] = f[3] /\ k[4] = f[4]
  OBVIOUS
<1> QED
  BY <1>1, FlowFields

LEMMA SameMembership ==
    /\ \A f, k \in Flow, i, j \in Iface : On(f, i) = On(k, j) => f = k /\ i = j
    /\ \A f \in Flow, g \in Group, i, j \in Iface : On(f, i) # On(g, j)
    /\ \A g, h \in Group, i, j \in Iface : On(g, i) = On(h, j) => g = h /\ i = j
<1>1. ASSUME NEW f \in Flow, NEW k \in Flow, NEW i \in Iface, NEW j \in Iface, On(f, i) = On(k, j)
      PROVE  f = k /\ i = j
  <2>1. f[1] = k[1] /\ f[2] = k[2] /\ f[3] = k[3] /\ f[4] = k[4] /\ i = j
    BY <1>1, OnFields
  <2> QED
    BY <2>1, FlowFields
<1>2. ASSUME NEW f \in Flow, NEW g \in Group, NEW i \in Iface, NEW j \in Iface
      PROVE  On(f, i) # On(g, j)
  <2>1. On(f, i)[2] # On(g, j)[2]
    BY FlowFields, GroupFields, OnFields
  <2> QED
    BY <2>1
<1>3. ASSUME NEW g \in Group, NEW h \in Group, NEW i \in Iface, NEW j \in Iface, On(g, i) = On(h, j)
      PROVE  g = h /\ i = j
  <2>1. g[1] = h[1] /\ i = j
    BY <1>3, OnFields
  <2> QED
    BY <2>1, FlowAssumption
<1> QED
  BY <1>1, <1>2, <1>3

LEMMA Keys ==
    /\ \A f \in Flow, i \in Iface : f \in Key /\ On(f, i) \in Membership /\ On(f, i) \in Key
    /\ \A g \in Group, i \in Iface : g \in Key /\ On(g, i) \in Membership /\ On(g, i) \in Key
    /\ \A m \in Membership : \E k \in Flow \cup Group, i \in Iface : m = On(k, i)
BY DEF Key, Membership

\* A flow matches itself; a group, on an interface or not, its flows; and a
\* flow on an interface none, since the entries name no interface.
LEMMA FlowsMatched ==
    /\ \A f \in Flow : FlowsOf[f] = {f}
    /\ \A g \in Group : FlowsOf[g] = {f \in Flow : f[1] = g[1]}
    /\ \A g \in Group, i \in Iface : FlowsOf[On(g, i)] = {f \in Flow : f[1] = g[1]}
    /\ \A f \in Flow, i \in Iface : FlowsOf[On(f, i)] = {}
<1>1. \A d \in Key : FlowsOf[d] = {k \in Flow : Fits(k, d, FALSE) /\ Agree(k, d, PrefixSize(d))}
  BY DEF FlowsOf, SubMatches
<1>2. ASSUME NEW f \in Flow PROVE FlowsOf[f] = {f}
  <2>1. \A k \in Flow : Agree(k, f, PrefixSize(f)) <=> \A j \in 1 .. 4 : k[j] = f[j]
    BY Sizes, AgreeOn
  <2>2. \A k \in Flow : Agree(k, f, PrefixSize(f)) <=> k = f
    BY <2>1, SameFlow
  <2>3. Fits(f, f, FALSE)
    BY FlowFields DEF Fits
  <2> QED
    BY <1>1, <2>2, <2>3, Keys DEF Key
<1>3. ASSUME NEW g \in Group, NEW k \in Flow PROVE Fits(k, g, FALSE) /\ (Agree(k, g, PrefixSize(g)) <=> k[1] = g[1])
  <2>1. Agree(k, g, PrefixSize(g)) <=> \A j \in 1 .. 1 : k[j] = g[j]
    BY Sizes, AgreeOn
  <2> QED
    BY <2>1, GroupFields DEF Fits
<1>4. ASSUME NEW g \in Group, NEW i \in Iface, NEW k \in Flow
      PROVE  Fits(k, On(g, i), FALSE) /\ (Agree(k, On(g, i), PrefixSize(On(g, i))) <=> k[1] = g[1])
  <2>1. Agree(k, On(g, i), PrefixSize(On(g, i))) <=> \A j \in 1 .. 1 : k[j] = On(g, i)[j]
    BY Sizes, AgreeOn
  <2> QED
    BY <2>1, GroupFields, OnFields DEF Fits
<1>5. ASSUME NEW f \in Flow, NEW i \in Iface, NEW k \in Flow
      PROVE  ~Agree(k, On(f, i), PrefixSize(On(f, i)))
  <2>1. Agree(k, On(f, i), PrefixSize(On(f, i))) <=> \A j \in 1 .. 5 : k[j] = On(f, i)[j]
    BY Sizes, AgreeOn
  <2>2. k[5] # On(f, i)[5]
    BY FlowFields, OnFields, FlowAssumption
  <2> QED
    BY <2>1, <2>2
<1>6. ASSUME NEW g \in Group PROVE FlowsOf[g] = {f \in Flow : f[1] = g[1]}
  BY <1>1, <1>3 DEF Key
<1>7. ASSUME NEW g \in Group, NEW i \in Iface PROVE FlowsOf[On(g, i)] = {f \in Flow : f[1] = g[1]}
  BY <1>1, <1>4, Keys
<1>8. ASSUME NEW f \in Flow, NEW i \in Iface PROVE FlowsOf[On(f, i)] = {}
  BY <1>1, <1>5, Keys
<1> QED
  BY <1>2, <1>6, <1>7, <1>8

\* What wants a flow, or has anything to do with a group.
LEMMA MembershipsMatched ==
    /\ \A f \in Flow, i \in Iface : On(f, i) \in MembershipsOf[f]
    /\ \A f \in Flow, g \in Group, i \in Iface : g[1] = f[1] => On(g, i) \in MembershipsOf[f]
    /\ \A f \in Flow : \A m \in MembershipsOf[f] :
          \E i \in Iface : m = On(f, i) \/ \E g \in Group : g[1] = f[1] /\ m = On(g, i)
    /\ \A g \in Group, m \in Membership : m[1] = g[1] => m \in MembershipsOf[g]
    /\ \A g \in Group, i \in Iface : On(g, i) \in MembershipsOf[On(g, i)]
<1>1. ASSUME NEW d \in Key
      PROVE  /\ MembershipsOf[d] \subseteq Membership
             /\ \A k \in Membership : k \in MembershipsOf[d] <=>
                   Fits(k, d, TRUE) /\ (Agree(k, d, PrefixSize(d)) \/ Agree(k, d, PrefixSize(k)))
  BY DEF MembershipsOf, BiMatches
<1>2. ASSUME NEW f \in Flow, NEW i \in Iface PROVE On(f, i) \in MembershipsOf[f]
  <2>1. Agree(On(f, i), f, PrefixSize(f)) <=> \A j \in 1 .. 4 : On(f, i)[j] = f[j]
    BY Sizes, AgreeOn
  <2>2. Agree(On(f, i), f, PrefixSize(f))
    BY <2>1, OnFields
  <2>3. Fits(On(f, i), f, TRUE)
    BY OnFields, FlowFields DEF Fits
  <2> QED
    BY <1>1, <2>2, <2>3, Keys
<1>3. ASSUME NEW f \in Flow, NEW g \in Group, NEW i \in Iface
      PROVE  /\ Fits(On(g, i), f, TRUE)
             /\ Agree(On(g, i), f, PrefixSize(On(g, i))) <=> g[1] = f[1]
             /\ ~Agree(On(g, i), f, PrefixSize(f))
  <2>1. Agree(On(g, i), f, PrefixSize(On(g, i))) <=> \A j \in 1 .. 1 : On(g, i)[j] = f[j]
    BY Sizes, AgreeOn
  <2>2. Agree(On(g, i), f, PrefixSize(f)) <=> \A j \in 1 .. 4 : On(g, i)[j] = f[j]
    BY Sizes, AgreeOn
  <2>3. On(g, i)[2] # f[2] /\ 2 \in 1 .. 4
    BY OnFields, FlowFields, GroupFields
  <2> QED
    BY <2>1, <2>2, <2>3, OnFields, FlowFields, GroupFields DEF Fits
<1>4. ASSUME NEW f \in Flow, NEW k \in Flow, NEW i \in Iface, On(k, i) \in MembershipsOf[f]
      PROVE  k = f
  <2>1. Agree(On(k, i), f, PrefixSize(f)) <=> \A j \in 1 .. 4 : On(k, i)[j] = f[j]
    BY Sizes, AgreeOn
  <2>2. Agree(On(k, i), f, PrefixSize(On(k, i))) <=> \A j \in 1 .. 5 : On(k, i)[j] = f[j]
    BY Sizes, AgreeOn
  <2>3. Agree(On(k, i), f, PrefixSize(f)) \/ Agree(On(k, i), f, PrefixSize(On(k, i)))
    BY <1>1, <1>4, Keys
  <2>4. \A j \in 1 .. 4 : On(k, i)[j] = f[j] /\ j \in 1 .. 5
    BY <2>1, <2>2, <2>3
  <2>5. \A j \in 1 .. 4 : k[j] = f[j]
    <3>1. k[1] = f[1] /\ k[2] = f[2] /\ k[3] = f[3] /\ k[4] = f[4]
      BY <2>4, OnFields
    <3> QED
      BY <3>1
  <2> QED
    BY <2>5, SameFlow
<1>5. ASSUME NEW f \in Flow, NEW m \in MembershipsOf[f]
      PROVE  \E i \in Iface : m = On(f, i) \/ \E g \in Group : g[1] = f[1] /\ m = On(g, i)
  <2>1. m \in Membership /\ (Agree(m, f, PrefixSize(f)) \/ Agree(m, f, PrefixSize(m)))
    BY <1>1 DEF Key
  <2>2. PICK k \in Flow \cup Group, i \in Iface : m = On(k, i)
    BY <2>1, Keys
  <2>3. CASE k \in Flow
    BY <1>4, <2>2, <2>3
  <2>4. CASE k \in Group
    BY <1>3, <2>1, <2>2, <2>4
  <2> QED
    BY <2>3, <2>4
<1>6. ASSUME NEW g \in Group, NEW m \in Membership, m[1] = g[1] PROVE m \in MembershipsOf[g]
  <2>1. Agree(m, g, PrefixSize(g)) <=> \A j \in 1 .. 1 : m[j] = g[j]
    BY Sizes, AgreeOn
  <2>2. Fits(m, g, TRUE)
    BY GroupFields DEF Fits
  <2>3. Agree(m, g, PrefixSize(g)) /\ g \in Key
    BY <1>6, <2>1 DEF Key
  <2> QED
    BY <1>1, <2>2, <2>3
<1>7. ASSUME NEW g \in Group, NEW i \in Iface PROVE On(g, i) \in MembershipsOf[On(g, i)]
  <2>1. Agree(On(g, i), On(g, i), PrefixSize(On(g, i)))
    BY DEF Agree
  <2>2. Fits(On(g, i), On(g, i), TRUE)
    BY DEF Fits
  <2> QED
    BY <1>1, <2>1, <2>2, Keys
<1>8. ASSUME NEW f \in Flow, NEW g \in Group, NEW i \in Iface, g[1] = f[1] PROVE On(g, i) \in MembershipsOf[f]
  <2>1. On(g, i) \in Membership /\ f \in Key
    BY Keys
  <2> QED
    BY <1>1, <1>3, <1>8, <2>1
<1> QED
  BY <1>2, <1>5, <1>6, <1>7, <1>8

-----------------------------------------------------------------------------
\* Entries

GoodUpstream(u) ==
    u.heard \subseteq Relay /\ IF u.best = Open THEN u.heard = {} ELSE u.best \in u.heard

LEMMA UpstreamsAreGood ==
    ASSUME NEW e, NEW recent, NEW u \in Upstreams(e, recent)
    PROVE  GoodUpstream(u)
<1>1. u.heard \subseteq Known(e) /\ IF u.heard = {} THEN u.best = Open ELSE u.best \in u.heard
  BY DEF Upstreams
<1>2. Known(e) \subseteq Relay /\ Open \notin Relay
  BY FlowAssumption DEF Known
<1> QED
  BY <1>1, <1>2 DEF GoodUpstream

LEMMA NewEntryType == NewEntry \in Entry /\ ~NewEntry.acking /\ NewEntry.forward = {}
BY DEF NewEntry, Entry

LEMMA StatusEffect ==
    ASSUME NEW e \in Entry, NEW status \in BOOLEAN
    PROVE  LET x == SetAckingStatus(e, status) IN
           /\ x \in Entry /\ x.acking = status /\ x.forward = e.forward
           /\ status => Known(x) = Known(e)
<1> DEFINE relays == [r \in Relay |-> IF e.acking /\ ~status /\ r \in Known(e) THEN "due" ELSE e.relays[r]]
           x == SetAckingStatus(e, status)
<1>1. relays \in [Relay -> {"unknown", "counting", "due"}]
  BY DEF Entry
<1>2. x = [e EXCEPT !.acking = status, !.relays = relays]
  BY DEF SetAckingStatus
<1>3. status => \A r \in Relay : relays[r] = e.relays[r]
  OBVIOUS
<1> HIDE DEF relays, x
<1>4. x \in Entry /\ x.acking = status /\ x.forward = e.forward /\ x.relays = relays
  BY <1>1, <1>2 DEF Entry
<1> QED
  BY <1>3, <1>4 DEF Known, x

LEMMA PreemptEffect ==
    ASSUME NEW e \in Entry, NEW u, GoodUpstream(u)
    PROVE  LET x == Preempt(e, u) IN
           /\ x \in Entry /\ x.acking = e.acking /\ x.forward = e.forward
           /\ ~e.acking /\ Known(x) # {} => u.best # Open
<1> DEFINE relays == [r \in Relay |-> IF r \in u.heard THEN e.relays[r] ELSE "unknown"]
           y == BestUpstreamRelay(e, u)
           x == Preempt(e, u)
<1>1. relays \in [Relay -> {"unknown", "counting", "due"}]
  BY DEF Entry
<1>2. y = [e EXCEPT !.relays = relays]
  BY DEF BestUpstreamRelay
<1>3. u.heard = {} => \A r \in Relay : relays[r] = "unknown"
  OBVIOUS
<1> HIDE DEF relays
<1>4. y \in Entry /\ y.acking = e.acking /\ y.forward = e.forward /\ y.relays = relays
  BY <1>1, <1>2 DEF Entry
<1> HIDE DEF y, x
<1>5. CASE e.acking
  <2>1. x = e
    BY <1>5 DEF Preempt, x
  <2> QED
    BY <1>5, <2>1 DEF x
<1>6. CASE ~e.acking /\ u.best = Open
  <2>1. x = y
    BY <1>6 DEF Preempt, x, y
  <2>2. Known(x) = {}
    BY <1>3, <1>4, <1>6, <2>1 DEF GoodUpstream, Known
  <2> QED
    BY <1>4, <2>1, <2>2 DEF x
<1>7. CASE ~e.acking /\ u.best # Open
  <2>1. x = [y EXCEPT !.relays[u.best] = "counting"] /\ u.best \in Relay
    BY <1>7 DEF Preempt, x, y, GoodUpstream
  <2>2. x \in Entry /\ x.acking = y.acking /\ x.forward = y.forward
    BY <1>4, <2>1 DEF Entry
  <2> QED
    BY <1>4, <1>7, <2>2 DEF x
<1> QED
  BY <1>5, <1>6, <1>7

\* An entry that starts to be acked, and then x, has a relay for the EM-ACK if
\* it knows any.
Heeded(e, x, u) == e.acking \/ Known(x) = {} \/ u.best # Open

\* The calls by their status, which the solver does not take as an argument.
StartAcking(entries, d, up) == SetAcking(entries, d, TRUE, up)
StopAcking(entries, d, up) == SetAcking(entries, d, FALSE, up)
StartForwarding(entries, d, i, up) == SetForwarding(entries, d, i, TRUE, TRUE, up)

LEMMA StartAckingEffect ==
    ASSUME NEW entries, \A f \in DOMAIN entries : entries[f] \in Entry, NEW d, NEW up,
           \A f \in FlowsOf[d] \cap DOMAIN entries : GoodUpstream(up[f]),
           NEW x, x = StartAcking(entries, d, up)
    PROVE  /\ DOMAIN x = DOMAIN entries /\ x = [f \in DOMAIN x |-> x[f]]
           /\ \A f \in DOMAIN entries :
                 /\ x[f] \in Entry /\ x[f].forward = entries[f].forward
                 /\ f \notin FlowsOf[d] => x[f] = entries[f]
                 /\ f \in FlowsOf[d] => x[f].acking
                 /\ f \in FlowsOf[d] => Heeded(entries[f], x[f], up[f])
<1>1. /\ DOMAIN x = DOMAIN entries /\ x = [f \in DOMAIN x |-> x[f]]
      /\ \A f \in DOMAIN entries :
            x[f] = IF f \notin FlowsOf[d] THEN entries[f] ELSE SetAckingStatus(Preempt(entries[f], up[f]), TRUE)
  BY DEF StartAcking, SetAcking
<1>2. ASSUME NEW f \in DOMAIN entries, f \in FlowsOf[d]
      PROVE  /\ x[f] \in Entry /\ x[f].forward = entries[f].forward /\ x[f].acking
             /\ Heeded(entries[f], x[f], up[f])
  <2> DEFINE y == Preempt(entries[f], up[f])
  <2>1. /\ y \in Entry /\ y.forward = entries[f].forward
        /\ ~entries[f].acking /\ Known(y) # {} => up[f].best # Open
    BY <1>2, PreemptEffect
  <2>2. x[f] = SetAckingStatus(y, TRUE)
    BY <1>1, <1>2
  <2> HIDE DEF y
  <2> DEFINE z == SetAckingStatus(y, TRUE)
  <2>3. z \in Entry /\ z.acking = TRUE /\ z.forward = y.forward /\ Known(z) = Known(y)
    BY <2>1, StatusEffect
  <2>4. x[f] = z
    BY <2>2
  <2> HIDE DEF z
  <2> QED
    BY <2>1, <2>3, <2>4 DEF Heeded
<1> QED
  BY <1>1, <1>2

LEMMA StopAckingEffect ==
    ASSUME NEW entries, \A f \in DOMAIN entries : entries[f] \in Entry, NEW d, NEW up,
           NEW x, x = StopAcking(entries, d, up)
    PROVE  /\ DOMAIN x = DOMAIN entries /\ x = [f \in DOMAIN x |-> x[f]]
           /\ \A f \in DOMAIN entries :
                 /\ x[f] \in Entry /\ x[f].forward = entries[f].forward
                 /\ f \notin FlowsOf[d] => x[f] = entries[f]
                 /\ f \in FlowsOf[d] => ~x[f].acking
<1>1. /\ DOMAIN x = DOMAIN entries /\ x = [f \in DOMAIN x |-> x[f]]
      /\ \A f \in DOMAIN entries :
            x[f] = IF f \notin FlowsOf[d] THEN entries[f] ELSE SetAckingStatus(entries[f], FALSE)
  BY DEF StopAcking, SetAcking
<1>2. ASSUME NEW f \in DOMAIN entries
      PROVE  LET z == SetAckingStatus(entries[f], FALSE)
             IN z \in Entry /\ z.acking = FALSE /\ z.forward = entries[f].forward
  BY StatusEffect
<1> QED
  BY <1>1, <1>2

\* What StartForwarding does to the entries: x is what it leaves of them.
ForwardingStarted(x, entries, d, i, up) ==
    /\ DOMAIN x = DOMAIN entries /\ x = [f \in DOMAIN x |-> x[f]]
    /\ \A f \in DOMAIN entries :
          /\ x[f] \in Entry
          /\ f \notin FlowsOf[d] => x[f] = entries[f]
          /\ f \in FlowsOf[d] => x[f].forward = entries[f].forward \cup {i} /\ x[f].acking
          /\ f \in FlowsOf[d] => Heeded(entries[f], x[f], up[f])

LEMMA StartForwardingEffect ==
    ASSUME NEW entries, \A f \in DOMAIN entries : entries[f] \in Entry, NEW d, NEW up,
           \A f \in FlowsOf[d] \cap DOMAIN entries : GoodUpstream(up[f]),
           NEW i \in Iface,
           NEW x, x = StartForwarding(entries, d, i, up)
    PROVE  ForwardingStarted(x, entries, d, i, up)
<1>0. PICK y : y = StartAcking(entries, d, up)
  OBVIOUS
<1>1. /\ DOMAIN y = DOMAIN entries
      /\ \A f \in DOMAIN entries :
            /\ y[f] \in Entry /\ y[f].forward = entries[f].forward
            /\ f \notin FlowsOf[d] => y[f] = entries[f]
            /\ f \in FlowsOf[d] => y[f].acking
            /\ f \in FlowsOf[d] => Heeded(entries[f], y[f], up[f])
  <2>1. \A f \in DOMAIN entries : entries[f] \in Entry
    OBVIOUS
  <2>2. \A f \in FlowsOf[d] \cap DOMAIN entries : GoodUpstream(up[f])
    OBVIOUS
  <2>3. y = StartAcking(entries, d, up)
    BY <1>0
  <2>4. DOMAIN y = DOMAIN entries
    BY ONLY <2>1, <2>2, <2>3, StartAckingEffect
  <2>5. \A f \in DOMAIN entries : y[f] \in Entry /\ y[f].forward = entries[f].forward
    BY ONLY <2>1, <2>2, <2>3, StartAckingEffect
  <2>6. \A f \in DOMAIN entries : f \notin FlowsOf[d] => y[f] = entries[f]
    BY ONLY <2>1, <2>2, <2>3, StartAckingEffect
  <2>7. \A f \in DOMAIN entries : f \in FlowsOf[d] => y[f].acking
    BY ONLY <2>1, <2>2, <2>3, StartAckingEffect
  <2>8. \A f \in DOMAIN entries : f \in FlowsOf[d] => Heeded(entries[f], y[f], up[f])
    BY ONLY <2>1, <2>2, <2>3, StartAckingEffect
  <2> QED
    BY <2>4, <2>5, <2>6, <2>7, <2>8
<1>2. /\ DOMAIN x = DOMAIN entries /\ x = [f \in DOMAIN x |-> x[f]]
      /\ \A f \in DOMAIN entries :
            x[f] = IF f \notin FlowsOf[d] THEN y[f] ELSE [y[f] EXCEPT !.forward = @ \cup {i}]
  BY <1>0 DEF StartForwarding, StartAcking, SetForwarding
<1>3. ASSUME NEW f \in DOMAIN entries, f \in FlowsOf[d]
      PROVE  /\ x[f] \in Entry /\ x[f].forward = entries[f].forward \cup {i}
             /\ x[f].acking = y[f].acking /\ Known(x[f]) = Known(y[f])
  <2>1. PICK e, z : e = y[f] /\ z = x[f]
    OBVIOUS
  <2>2. e \in Entry /\ e.forward = entries[f].forward /\ z = [e EXCEPT !.forward = e.forward \cup {i}]
    BY <1>1, <1>2, <1>3, <2>1
  <2>3. z \in Entry /\ z.forward = e.forward \cup {i} /\ z.acking = e.acking /\ z.relays = e.relays
    BY <2>2 DEF Entry
  <2> QED
    BY <2>1, <2>2, <2>3 DEF Known
<1>4. /\ DOMAIN x = DOMAIN entries /\ x = [f \in DOMAIN x |-> x[f]]
      /\ \A f \in DOMAIN entries :
            /\ x[f] \in Entry
            /\ f \notin FlowsOf[d] => x[f] = entries[f]
            /\ f \in FlowsOf[d] => x[f].forward = entries[f].forward \cup {i} /\ x[f].acking
            /\ f \in FlowsOf[d] => Heeded(entries[f], x[f], up[f])
  BY <1>1, <1>2, <1>3 DEF Heeded
<1> QED
  BY <1>4 DEF ForwardingStarted

-----------------------------------------------------------------------------
\* Lists without repetition

Elements(list) == {list[j] : j \in 1 .. Len(list)}

Distinct(list) ==
    list \in Seq(Flow) /\ \A j, k \in 1 .. Len(list) : list[j] = list[k] => j = k

LEMMA ElementsIsToSet ==
    ASSUME NEW S, NEW list \in Seq(S)
    PROVE  ToSet(list) = Elements(list) /\ DOMAIN list = 1 .. Len(list) /\ Len(list) \in Nat
BY LenProperties DEF ToSet, Elements

LEMMA PartOfList ==
    ASSUME NEW list, Distinct(list), NEW m \in Int, NEW n \in Int, m >= 1, n <= Len(list)
    PROVE  LET part == SubSeq(list, m, n)
           IN Distinct(part) /\ Elements(part) = {list[j] : j \in m .. n}
<1> DEFINE part == SubSeq(list, m, n)
           len == Len(list)
           size == IF m <= n THEN n - m + 1 ELSE 0
<1>1. len \in Nat /\ \A j \in 1 .. len : list[j] \in Flow
  BY LenProperties DEF Distinct
<1>2. \A j \in m .. n : j \in 1 .. len /\ list[j] \in Flow
  BY <1>1
<1>3. /\ part \in Seq(Flow) /\ Len(part) = size
      /\ \A j \in 1 .. n - m + 1 : part[j] = list[m + j - 1]
  BY <1>2, SubSeqProperties
<1> HIDE DEF part
<1>4. size \in Nat /\ \A j \in 1 .. size : j \in 1 .. n - m + 1 /\ m + j - 1 \in m .. n /\ part[j] = list[m + j - 1]
  BY <1>3
<1>5. ASSUME NEW j \in 1 .. size, NEW k \in 1 .. size, part[j] = part[k] PROVE j = k
  <2>1. m + j - 1 \in 1 .. len /\ m + k - 1 \in 1 .. len /\ list[m + j - 1] = list[m + k - 1]
    BY <1>2, <1>4, <1>5
  <2>2. m + j - 1 = m + k - 1
    BY <2>1 DEF Distinct
  <2> QED
    BY <2>2
<1>6. ASSUME NEW j \in m .. n PROVE \E k \in 1 .. size : list[j] = part[k]
  <2>1. j - m + 1 \in 1 .. size /\ m + (j - m + 1) - 1 = j
    OBVIOUS
  <2> QED
    BY <1>4, <2>1
<1>7. Elements(part) = {list[j] : j \in m .. n}
  <2>1. Elements(part) = {part[j] : j \in 1 .. size}
    BY <1>3 DEF Elements
  <2> HIDE DEF size
  <2>2. ASSUME NEW e \in Elements(part) PROVE e \in {list[j] : j \in m .. n}
    <3>1. PICK j \in 1 .. size : e = part[j]
      BY <2>1
    <3>2. e = list[m + j - 1] /\ m + j - 1 \in m .. n
      BY <1>4, <3>1
    <3> QED
      BY <3>2
  <2>3. ASSUME NEW e \in {list[j] : j \in m .. n} PROVE e \in Elements(part)
    <3>1. PICK j \in m .. n : e = list[j]
      OBVIOUS
    <3>2. PICK k \in 1 .. size : list[j] = part[k]
      BY <1>6
    <3> QED
      BY <2>1, <3>1, <3>2
  <2> QED
    BY <2>2, <2>3
<1>8. Distinct(part)
  BY <1>3, <1>5 DEF Distinct
<1> QED
  BY <1>7, <1>8 DEF part

LEMMA ListsJoined ==
    ASSUME NEW s, Distinct(s), NEW t, Distinct(t), Elements(s) \cap Elements(t) = {}
    PROVE  Distinct(s \o t) /\ Elements(s \o t) = Elements(s) \cup Elements(t)
<1> DEFINE u == s \o t
           a == Len(s)
           b == Len(t)
<1>1. a \in Nat /\ b \in Nat /\ s \in Seq(Flow) /\ t \in Seq(Flow)
  BY LenProperties DEF Distinct
<1>2. /\ u \in Seq(Flow) /\ Len(u) = a + b
      /\ \A j \in 1 .. a + b : u[j] = IF j <= a THEN s[j] ELSE t[j - a]
  BY <1>1, ConcatProperties
<1> HIDE DEF u
<1>3. \A j \in 1 .. a + b : IF j <= a THEN j \in 1 .. a /\ u[j] = s[j] ELSE j - a \in 1 .. b /\ u[j] = t[j - a]
  BY <1>1, <1>2
<1>4. \A j \in 1 .. a : j \in 1 .. a + b /\ u[j] = s[j]
  BY <1>1, <1>2
<1>5. \A j \in 1 .. b : a + j \in 1 .. a + b /\ u[a + j] = t[j]
  <2> SUFFICES ASSUME NEW j \in 1 .. b PROVE a + j \in 1 .. a + b /\ u[a + j] = t[j]
    OBVIOUS
  <2>1. a + j \in 1 .. a + b /\ ~(a + j <= a) /\ (a + j) - a = j
    BY <1>1
  <2> QED
    BY <1>3, <2>1
<1>6. \A j \in 1 .. a : s[j] \in Elements(s)
  BY DEF Elements
<1>7. \A j \in 1 .. b : t[j] \in Elements(t)
  BY DEF Elements
<1>8. ASSUME NEW j \in 1 .. a + b, NEW k \in 1 .. a + b, u[j] = u[k] PROVE j = k
  <2>1. CASE j <= a /\ k <= a
    BY <1>3, <1>8, <2>1 DEF Distinct
  <2>2. CASE ~(j <= a) /\ ~(k <= a)
    <3>1. j - a \in 1 .. b /\ k - a \in 1 .. b /\ t[j - a] = t[k - a]
      BY <1>3, <1>8, <2>2
    <3>2. j - a = k - a
      BY <3>1 DEF Distinct
    <3> QED
      BY <1>1, <3>2
  <2>3. CASE j <= a /\ ~(k <= a)
    BY <1>3, <1>6, <1>7, <1>8, <2>3
  <2>4. CASE ~(j <= a) /\ k <= a
    BY <1>3, <1>6, <1>7, <1>8, <2>4
  <2> QED
    BY <2>1, <2>2, <2>3, <2>4
<1>9. Distinct(u)
  BY <1>2, <1>8 DEF Distinct
<1>10. Elements(u) = {u[j] : j \in 1 .. a + b}
  BY <1>2 DEF Elements
<1>11. Elements(s) = {s[j] : j \in 1 .. a} /\ Elements(t) = {t[j] : j \in 1 .. b}
  BY DEF Elements
<1> HIDE DEF a, b
<1>12. Elements(u) = Elements(s) \cup Elements(t)
  BY <1>3, <1>4, <1>5, <1>10, <1>11
<1> QED
  BY <1>9, <1>12 DEF u

LEMMA OneElement ==
    ASSUME NEW f \in Flow
    PROVE  Distinct(<< f >>) /\ Elements(<< f >>) = {f}
BY DEF Distinct, Elements

LEMMA NoElement == Distinct(<< >>) /\ Elements(<< >>) = {}
BY DEF Distinct, Elements

\* What is left of a list without f.
LEMMA RemovedFromList ==
    ASSUME NEW list, Distinct(list), NEW f
    PROVE  Distinct(RemoveFirst(list, f)) /\ Elements(RemoveFirst(list, f)) = Elements(list) \ {f}
<1> DEFINE len == Len(list)
<1>1. len \in Nat /\ list \in Seq(Flow)
  BY LenProperties DEF Distinct
<1>2. CASE ~\E j \in 1 .. len : list[j] = f
  <2>1. RemoveFirst(list, f) = list
    BY <1>2 DEF RemoveFirst
  <2> QED
    BY <1>2, <2>1 DEF Elements
<1>3. CASE \E j \in 1 .. len : list[j] = f
  <2>1. PICK at \in 1 .. len : list[at] = f
    BY <1>3
  <2>2. {j \in 1 .. len : list[j] = f} = {at}
    BY <2>1 DEF Distinct
  <2>3. SelectInSeq(list, LAMBDA v : v = f) = at
    <3>1. Min({at}) = at
      BY DEF Min
    <3> QED
      BY <2>2, <3>1 DEF SelectInSeq
  <2>4. RemoveFirst(list, f) = SubSeq(list, 1, at - 1) \o SubSeq(list, at + 1, len)
    BY <1>3, <2>3 DEF RemoveFirst, RemoveAt
  <2> DEFINE s == SubSeq(list, 1, at - 1)
             t == SubSeq(list, at + 1, len)
  <2>5. Distinct(s) /\ Elements(s) = {list[j] : j \in 1 .. at - 1}
    BY <1>1, PartOfList
  <2>6. Distinct(t) /\ Elements(t) = {list[j] : j \in at + 1 .. len}
    BY <1>1, PartOfList
  <2>7. RemoveFirst(list, f) = s \o t
    BY <2>4
  <2> HIDE DEF s, t
  <2>8. Elements(s) \cap Elements(t) = {}
    BY <1>1, <2>5, <2>6 DEF Distinct
  <2>9. Elements(list) \ {f} = Elements(s) \cup Elements(t)
    <3>1. Elements(list) = {list[j] : j \in 1 .. len}
      BY DEF Elements
    <3>2. \A j \in 1 .. len : list[j] # f => j \in 1 .. at - 1 \/ j \in at + 1 .. len
      BY <2>1
    <3>3. \A j \in 1 .. at - 1 : j \in 1 .. len /\ list[j] # f
      BY <1>1, <2>1 DEF Distinct
    <3>4. \A j \in at + 1 .. len : j \in 1 .. len /\ list[j] # f
      BY <1>1, <2>1 DEF Distinct
    <3> QED
      BY <2>5, <2>6, <3>1, <3>2, <3>3, <3>4
  <2> QED
    BY <2>5, <2>6, <2>7, <2>8, <2>9, ListsJoined
<1> QED
  BY <1>2, <1>3

\* A set of positions that holds all positions before each of its own is the
\* first so many.
LEMMA InitialSegment ==
    ASSUME NEW len \in Nat, NEW P, P \subseteq 1 .. len,
           \A n \in P : 1 .. n \subseteq P
    PROVE  Cardinality(P) \in 0 .. len /\ P = 1 .. Cardinality(P)
<1> DEFINE g == Cardinality(P)
<1>1. IsFiniteSet(1 .. len) /\ Cardinality(1 .. len) = len
  BY FS_Interval
<1>2. IsFiniteSet(P) /\ g <= len /\ g \in Nat
  BY <1>1, FS_Subset, FS_CardinalityType
<1>3. IsFiniteSet(1 .. g) /\ Cardinality(1 .. g) = g
  BY <1>2, FS_Interval
<1> HIDE DEF g
<1>4. ASSUME NEW n \in P PROVE n \in 1 .. g
  <2>1. n \in Nat /\ n >= 1 /\ 1 .. n \in SUBSET P
    BY <1>4
  <2>2. Cardinality(1 .. n) = n
    BY <2>1, FS_Interval
  <2>3. n <= g
    BY <1>2, <2>1, <2>2, FS_Subset DEF g
  <2> QED
    BY <1>2, <2>1, <2>3
<1>5. P = 1 .. g
  BY <1>3, <1>4, FS_Subset DEF g
<1> QED
  BY <1>2, <1>5 DEF g

\* Pruning leaves the flows up to the last fresh one.
LEMMA KeptIsFresh ==
    ASSUME NEW list, Distinct(list)
    PROVE  /\ Kept(list) \in 0 .. Len(list)
           /\ \A j \in Kept(list) + 1 .. Len(list) : list[j] \notin fresh
<1> DEFINE len == Len(list)
           P == {j \in 1 .. len : \E k \in j .. len : list[k] \in fresh}
           Q(n) == (\A j \in n + 1 .. len : list[j] \notin fresh) /\ (n > 0 => list[n] \in fresh)
<1>1. len \in Nat
  BY LenProperties DEF Distinct
<1>2. PICK n \in 0 .. len : P = 1 .. n
  <2>1. P \subseteq 1 .. len
    OBVIOUS
  <2>2. \A j \in P : 1 .. j \subseteq P
    BY <1>1
  <2> HIDE DEF P
  <2> QED
    BY <1>1, <2>1, <2>2, InitialSegment
<1>3. \A j \in n + 1 .. len : list[j] \notin fresh
  <2>1. ASSUME NEW j \in n + 1 .. len, list[j] \in fresh PROVE FALSE
    <3>1. j \in P
      BY <1>1, <2>1
    <3> HIDE DEF P
    <3> QED
      BY <1>1, <1>2, <2>1, <3>1
  <2> QED
    BY <2>1
<1>4. n > 0 => list[n] \in fresh
  <2>1. ASSUME n > 0 PROVE list[n] \in fresh
    <3>1. n \in P
      BY <1>2, <2>1
    <3>2. PICK k \in n .. len : list[k] \in fresh
      BY <3>1
    <3>3. k = n
      BY <1>1, <1>3, <3>2
    <3> QED
      BY <3>2, <3>3
  <2> QED
    BY <2>1
<1>5. \E m \in 0 .. len : Q(m)
  BY <1>3, <1>4
<1>6. Kept(list) = CHOOSE m \in 0 .. len : Q(m)
  BY DEF Kept
<1> HIDE DEF Q
<1>7. Kept(list) \in 0 .. len /\ Q(Kept(list))
  BY <1>5, <1>6
<1> QED
  BY <1>7 DEF Q

-----------------------------------------------------------------------------
\* The invariant

EntriesTyped ==
    /\ Entries \subseteq Flow
    /\ fib = [f \in Entries |-> fib[f]]
    /\ \A f \in Entries : fib[f] \in Entry

\* Every entry is in one of the lists, once.
ListsCover ==
    /\ Distinct(active_list) /\ Distinct(idle_list)
    /\ Elements(active_list) \cap Elements(idle_list) = {}
    /\ Elements(active_list) \cup Elements(idle_list) = Entries
    /\ fresh \subseteq Entries

FlagsTyped == flags \in [Membership -> SUBSET {"MANAGED", "ELASTIC"}]

CountsTyped == idle_count \in [Membership -> 0 .. DEFAULT_IDLE_COUNT_THRESHOLD - 1]

\* Only flows have ELASTIC memberships, and only while they have packets: the
\* entry of such a flow is not pruned.
ElasticIsFresh ==
    \A i \in Iface :
        /\ \A g \in Group : "ELASTIC" \notin flags[On(g, i)]
        /\ \A f \in Flow : "ELASTIC" \in flags[On(f, i)] => f \in fresh

ElasticInv ==
    /\ EntriesTyped /\ ListsCover
    /\ FlagsTyped /\ CountsTyped /\ acked \subseteq Flow \X Relay
    /\ ElasticIsFresh /\ AckedIsForwarded /\ MemberIsAcked

\* What the matching of descriptions comes to: a flow has members if somebody
\* wants it.
WantedIn(f, fl) ==
    \E i \in Iface : fl[On(f, i)] # {} \/ \E g \in Group : g[1] = f[1] /\ fl[On(g, i)] # {}

LEMMA WantedIsMembers ==
    ASSUME NEW f \in Flow, NEW fl
    PROVE  WantedIn(f, fl) <=> Members(f, fl) # {}
<1>1. \A m \in Members(f, fl) : m \in MembershipsOf[f] /\ fl[m] # {}
  BY DEF Members, Held
<1>2. ASSUME NEW m, m \in MembershipsOf[f], m \in Membership, fl[m] # {} PROVE Members(f, fl) # {}
  BY <1>2 DEF Members, Held
<1>3. ASSUME WantedIn(f, fl) PROVE Members(f, fl) # {}
  <2>1. PICK i \in Iface : fl[On(f, i)] # {} \/ \E g \in Group : g[1] = f[1] /\ fl[On(g, i)] # {}
    BY <1>3 DEF WantedIn
  <2> QED
    BY <1>2, <2>1, MembershipsMatched, Keys
<1>4. ASSUME Members(f, fl) # {} PROVE WantedIn(f, fl)
  <2>1. PICK m \in Members(f, fl) : TRUE
    BY <1>4
  <2>2. PICK i \in Iface : m = On(f, i) \/ \E g \in Group : g[1] = f[1] /\ m = On(g, i)
    BY <1>1, <2>1, MembershipsMatched
  <2> QED
    BY <1>1, <2>1, <2>2 DEF WantedIn
<1> QED
  BY <1>3, <1>4

LEMMA WantedNow == \A f : (Wanted(f) <=> WantedIn(f, flags)) /\ (Wanted(f)' <=> WantedIn(f, flags'))
BY DEF Wanted, WantedIn

\* Fewer memberships, fewer wanted flows.
LEMMA FewerWanted ==
    ASSUME NEW fl, NEW new, \A m \in Membership : new[m] # {} => fl[m] # {},
           NEW f \in Flow, WantedIn(f, new)
    PROVE  WantedIn(f, fl)
BY Keys DEF WantedIn

-----------------------------------------------------------------------------
\* The parts of the steps

LEMMA HeardEffect ==
    ASSUME NEW e \in Entry, NEW r, NEW late \in BOOLEAN
    PROVE  LET x == Heard(e, r, late) IN x \in Entry /\ x.acking = e.acking /\ x.forward = e.forward
<1> DEFINE x == Heard(e, r, late)
<1>1. CASE x = e
  BY <1>1
<1>2. CASE x # e
  <2>1. x = [e EXCEPT !.relays[r] = "counting"] /\ r \in Relay
    BY <1>2 DEF Heard
  <2> HIDE DEF x
  <2>2. x \in Entry /\ x.acking = e.acking /\ x.forward = e.forward
    BY <2>1 DEF Entry
  <2> QED
    BY <2>2 DEF x
<1> QED
  BY <1>1, <1>2

\* A packet of f changes the entry of f alone.
\* What a call of Update leaves, of entries in which f is: an entry that starts
\* to be acked has an EM-ACK sent.
Updated(f, entries, acks) ==
    /\ FlagsTyped' /\ CountsTyped'
    /\ \A m \in Membership : flags'[m] \subseteq flags[m]
    /\ DOMAIN fib' = DOMAIN entries /\ fib' = [g \in DOMAIN fib' |-> fib'[g]]
    /\ \A g \in DOMAIN entries : fib'[g] \in Entry /\ (g # f => fib'[g] = entries[g])
    /\ WantedIn(f, flags') => fib'[f].acking
    /\ \A i \in Iface : "ELASTIC" \in flags'[On(f, i)] /\ i \in entries[f].forward => i \in fib'[f].forward
    /\ acks \subseteq acked' /\ acked' \subseteq acks \cup (Flow \X Relay)
    /\ entries[f].acking \/ (fib'[f].acking /\ Known(fib'[f]) # {} => \E r \in Relay : << f, r >> \in acked')

LEMMA UpdateOK ==
    ASSUME FlagsTyped, CountsTyped, ElasticIsFresh,
           NEW entries, DOMAIN entries \subseteq Flow, entries \in [DOMAIN entries -> Entry],
           NEW f \in DOMAIN entries, NEW n \in Nat, NEW u, GoodUpstream(u), NEW acks,
           NEW up, up = [g \in Flow |-> u], Update(f, n, entries, acks, up)
    PROVE  Updated(f, entries, acks)
<1> DEFINE elastic == {m \in Members(f, flags) : "ELASTIC" \in flags[m]}
           ended == {m \in elastic : idle_count[m] + n >= DEFAULT_IDLE_COUNT_THRESHOLD}
           left == [m \in Membership |-> IF m \in ended THEN flags[m] \ {"ELASTIC"} ELSE flags[m]]
           stopped == [entries EXCEPT ![f].forward = @ \ {m[5] : m \in ended}]
           before == entries[f].acking
           status == Acked(f, left, before)
<1>1. /\ flags' = left
      /\ idle_count' = [m \in Membership |->
                           IF m \in ended THEN 0 ELSE IF m \in elastic THEN idle_count[m] + n ELSE idle_count[m]]
      /\ fib' = IF status = before THEN stopped ELSE SetAcking(stopped, f, status, up)
      /\ acked' = acks \cup PreemptiveAcks(stopped, f, status, up)
  BY DEF Update
<1>2. status = (Members(f, left) # {}) /\ status \in BOOLEAN
  BY DEF Acked
<1>3. before \in BOOLEAN /\ f \in Flow
  BY DEF Entry
<1>4. elastic \subseteq Membership
  BY DEF Members, Held
<1>5. \A m \in ended : \E i \in Iface : m = On(f, i) /\ m[5] = i
  <2>1. ASSUME NEW m \in ended PROVE \E i \in Iface : m = On(f, i) /\ m[5] = i
    <3>1. m \in MembershipsOf[f] /\ "ELASTIC" \in flags[m]
      BY DEF Members
    <3>2. PICK i \in Iface : m = On(f, i) \/ \E g \in Group : g[1] = f[1] /\ m = On(g, i)
      BY <1>3, <3>1, MembershipsMatched
    <3>3. m = On(f, i)
      BY <3>1, <3>2 DEF ElasticIsFresh
    <3> QED
      BY <3>3, OnFields
  <2> QED
    BY <2>1
<1>6. \A m \in Membership : idle_count[m] \in Nat /\ idle_count[m] < DEFAULT_IDLE_COUNT_THRESHOLD
  BY FlowAssumption DEF CountsTyped
<1>7. CountsTyped'
  <2>1. \A m \in Membership :
           (IF m \in ended THEN 0 ELSE IF m \in elastic THEN idle_count[m] + n ELSE idle_count[m])
               \in 0 .. DEFAULT_IDLE_COUNT_THRESHOLD - 1
    BY <1>6, FlowAssumption
  <2> HIDE DEF elastic, ended
  <2> QED
    BY <1>1, <2>1 DEF CountsTyped
<1>8. /\ left \in [Membership -> SUBSET {"MANAGED", "ELASTIC"}]
      /\ \A m \in Membership : left[m] \subseteq flags[m]
      /\ \A m \in Membership : "ELASTIC" \in left[m] => m \notin ended
  BY DEF FlagsTyped
<1>9. FlagsTyped' /\ \A m \in Membership : flags'[m] \subseteq flags[m]
  BY <1>1, <1>8 DEF FlagsTyped
<1> HIDE DEF elastic, left
<1>10. /\ DOMAIN stopped = DOMAIN entries /\ stopped = [g \in DOMAIN stopped |-> stopped[g]]
       /\ \A g \in DOMAIN entries : g # f => stopped[g] = entries[g]
       /\ stopped[f] \in Entry /\ stopped[f].acking = before
       /\ stopped[f].forward = entries[f].forward \ {m[5] : m \in ended}
       /\ Known(stopped[f]) = Known(entries[f])
  <2>1. entries[f] \in Entry
    OBVIOUS
  <2>2. PICK e, minus : e = entries[f] /\ minus = {m[5] : m \in ended}
    OBVIOUS
  <2>3. stopped = [entries EXCEPT ![f] = [e EXCEPT !.forward = e.forward \ minus]]
    BY <2>2
  <2>4. LET x == [e EXCEPT !.forward = e.forward \ minus]
        IN x \in Entry /\ x.acking = e.acking /\ x.forward = e.forward \ minus /\ x.relays = e.relays
    BY <2>1, <2>2 DEF Entry
  <2> HIDE DEF stopped
  <2>5. stopped[f] = [e EXCEPT !.forward = e.forward \ minus]
    BY <2>3
  <2>6. /\ stopped[f] \in Entry /\ stopped[f].acking = before
        /\ stopped[f].forward = entries[f].forward \ {m[5] : m \in ended}
        /\ Known(stopped[f]) = Known(entries[f])
    BY <2>2, <2>4, <2>5 DEF Known
  <2> QED
    BY <2>3, <2>6
<1>11. \A g \in DOMAIN stopped : stopped[g] \in Entry
  BY <1>10
<1>12. FlowsOf[f] = {f}
  BY <1>3, FlowsMatched
<1>13. \A g \in FlowsOf[f] \cap DOMAIN stopped : GoodUpstream(up[g])
  BY <1>3, <1>12
<1>14. up[f] = u
  BY <1>3
<1> HIDE DEF stopped
<1>15. /\ DOMAIN fib' = DOMAIN entries /\ fib' = [g \in DOMAIN fib' |-> fib'[g]]
       /\ \A g \in DOMAIN entries : fib'[g] \in Entry /\ (g # f => fib'[g] = entries[g])
       /\ fib'[f].acking = status /\ fib'[f].forward = stopped[f].forward
       /\ before \/ ~status \/ Known(fib'[f]) = {} \/ u.best # Open
  <2>1. CASE status = before
    <3>1. fib' = stopped
      BY <1>1, <2>1
    <3> QED
      BY <1>2, <1>3, <1>10, <1>11, <2>1, <3>1
  <2>2. CASE status # before /\ status
    <3> HIDE DEF status
    <3>1. status = TRUE /\ fib' = SetAcking(stopped, f, status, up)
      BY <1>1, <1>2, <1>3, <2>2
    <3>2. fib' = StartAcking(stopped, f, up)
      BY <3>1 DEF StartAcking
    <3>3. /\ DOMAIN fib' = DOMAIN stopped /\ fib' = [g \in DOMAIN fib' |-> fib'[g]]
          /\ \A g \in DOMAIN stopped :
                /\ fib'[g] \in Entry /\ fib'[g].forward = stopped[g].forward
                /\ g \notin FlowsOf[f] => fib'[g] = stopped[g]
                /\ g \in FlowsOf[f] => fib'[g].acking
                /\ g \in FlowsOf[f] => Heeded(stopped[g], fib'[g], up[g])
      BY <1>11, <1>13, <3>2, StartAckingEffect
    <3>4. fib'[f].acking = TRUE
      BY <1>10, <1>12, <3>3 DEF Entry
    <3> QED
      BY <1>10, <1>12, <1>14, <3>1, <3>3, <3>4 DEF Heeded
  <2>3. CASE status # before /\ ~status
    <3> HIDE DEF status
    <3>1. status = FALSE /\ fib' = SetAcking(stopped, f, status, up)
      BY <1>1, <1>2, <1>3, <2>3
    <3>2. fib' = StopAcking(stopped, f, up)
      BY <3>1 DEF StopAcking
    <3>3. /\ DOMAIN fib' = DOMAIN stopped /\ fib' = [g \in DOMAIN fib' |-> fib'[g]]
          /\ \A g \in DOMAIN stopped :
                /\ fib'[g] \in Entry /\ fib'[g].forward = stopped[g].forward
                /\ g \notin FlowsOf[f] => fib'[g] = stopped[g]
                /\ g \in FlowsOf[f] => ~fib'[g].acking
      BY <1>11, <3>2, StopAckingEffect
    <3>4. fib'[f].acking = FALSE
      BY <1>10, <1>12, <3>3 DEF Entry
    <3> QED
      BY <1>10, <1>12, <3>1, <3>3, <3>4
  <2> QED
    BY <2>1, <2>2, <2>3
<1>16. WantedIn(f, flags') => fib'[f].acking
  BY <1>1, <1>2, <1>3, <1>15, WantedIsMembers
<1>17. ASSUME NEW i \in Iface, "ELASTIC" \in flags'[On(f, i)], i \in entries[f].forward
       PROVE  i \in fib'[f].forward
  <2>1. On(f, i) \notin ended
    BY <1>1, <1>3, <1>8, <1>17, Keys
  <2>2. i \notin {m[5] : m \in ended}
    BY <1>5, <2>1
  <2> QED
    BY <1>10, <1>15, <1>17, <2>2
<1> DEFINE more == PreemptiveAcks(stopped, f, status, up)
<1>18. more \subseteq Flow \X Relay
  <2>1. \A a \in more : a = << f, u.best >> /\ u.best # Open
    BY <1>12, <1>14 DEF PreemptiveAcks
  <2> HIDE DEF more
  <2>2. u.best # Open => u.best \in Relay
    BY DEF GoodUpstream
  <2> QED
    BY <1>3, <2>1, <2>2
<1>19. status /\ ~before /\ u.best # Open => << f, u.best >> \in more /\ u.best \in Relay
  <2>1. f[2] # Open
    BY <1>3, FlowFields
  <2> HIDE DEF status, before
  <2>2. status /\ ~before /\ u.best # Open => << f, u.best >> \in more
    BY <1>10, <1>12, <1>14, <2>1 DEF PreemptiveAcks
  <2> QED
    BY <2>2 DEF GoodUpstream
<1> HIDE DEF more
<1>20. acked' = acks \cup more
  BY <1>1 DEF more
<1> HIDE DEF status
<1>21. before \/ (fib'[f].acking /\ Known(fib'[f]) # {} => \E r \in Relay : << f, r >> \in acked')
  BY <1>15, <1>19, <1>20
<1>22. acks \subseteq acked' /\ acked' \subseteq acks \cup (Flow \X Relay)
  BY <1>18, <1>20
<1> QED
  BY <1>7, <1>9, <1>15, <1>16, <1>17, <1>21, <1>22 DEF Updated

LEMMA RefreshOK ==
    ASSUME ListsCover, Entries \subseteq Flow, NEW f \in Flow, Refresh(f), Entries' = Entries \cup {f}
    PROVE  ListsCover'
<1> DEFINE rest == RemoveFirst(active_list, f)
<1>1. Distinct(rest) /\ Elements(rest) = Elements(active_list) \ {f}
  BY RemovedFromList DEF ListsCover
<1>2. Distinct(<< f >>) /\ Elements(<< f >>) = {f}
  BY OneElement
<1>3. active_list' = << f >> \o rest
  BY DEF Refresh
<1>4. Distinct(idle_list') /\ Elements(idle_list') = Elements(idle_list) \ {f}
  BY RemovedFromList DEF ListsCover, Refresh
<1> HIDE DEF rest
<1>5. Distinct(active_list') /\ Elements(active_list') = {f} \cup (Elements(active_list) \ {f})
  BY <1>1, <1>2, <1>3, ListsJoined
<1>6. fresh' = fresh \cup {f}
  BY DEF Refresh
<1>7. Elements(active_list)' = Elements(active_list') /\ Elements(idle_list)' = Elements(idle_list')
  BY DEF Elements
<1>8. Distinct(active_list)' /\ Distinct(idle_list)'
  BY <1>4, <1>5 DEF Distinct
<1> QED
  BY <1>4, <1>5, <1>6, <1>7, <1>8 DEF ListsCover

\* Pruning moves the end of one list to the head of the other and drops the
\* end of that one: flows that had no packet for so long.
LEMMA PruneOK ==
    ASSUME EntriesTyped, ListsCover, PruneFlowList
    PROVE  /\ ListsCover' /\ EntriesTyped'
           /\ fresh \subseteq fresh' /\ Entries' \subseteq Entries
           /\ \A f \in Entries' : fib'[f] = fib[f]
<1> DEFINE a == Kept(active_list)
           b == Kept(idle_list)
           head == SubSeq(active_list, 1, a)
           demoted == SubSeq(active_list, a + 1, Len(active_list))
           kept == SubSeq(idle_list, 1, b)
<1>1. /\ active_list' = head /\ idle_list' = demoted \o kept
      /\ fresh' = fresh \cup ToSet(demoted)
      /\ fib' = [f \in Active \cup ToSet(kept) |-> fib[f]]
  BY DEF PruneFlowList
<1>2. /\ Distinct(active_list) /\ Distinct(idle_list)
      /\ Len(active_list) \in Nat /\ Len(idle_list) \in Nat
  BY LenProperties DEF ListsCover, Distinct
<1>3. /\ a \in 0 .. Len(active_list)
      /\ b \in 0 .. Len(idle_list) /\ \A j \in b + 1 .. Len(idle_list) : idle_list[j] \notin fresh
  BY <1>2, KeptIsFresh
<1> HIDE DEF a, b
<1>4. Distinct(head) /\ Elements(head) = {active_list[j] : j \in 1 .. a}
  BY <1>2, <1>3, PartOfList
<1>5. Distinct(demoted) /\ Elements(demoted) = {active_list[j] : j \in a + 1 .. Len(active_list)}
  BY <1>2, <1>3, PartOfList
<1>6. Distinct(kept) /\ Elements(kept) = {idle_list[j] : j \in 1 .. b}
  BY <1>2, <1>3, PartOfList
<1> HIDE DEF head, demoted, kept
<1>7. /\ Elements(head) \cap Elements(demoted) = {}
      /\ Elements(head) \cup Elements(demoted) = Elements(active_list)
  <2>1. Elements(active_list) = {active_list[j] : j \in 1 .. Len(active_list)}
    BY DEF Elements
  <2>2. \A j \in 1 .. a, k \in a + 1 .. Len(active_list) : active_list[j] # active_list[k]
    BY <1>2, <1>3 DEF Distinct
  <2>3. \A j \in 1 .. Len(active_list) : j \in 1 .. a \/ j \in a + 1 .. Len(active_list)
    BY <1>2, <1>3
  <2>4. \A j \in 1 .. a : j \in 1 .. Len(active_list)
    BY <1>2, <1>3
  <2>5. \A j \in a + 1 .. Len(active_list) : j \in 1 .. Len(active_list)
    BY <1>2, <1>3
  <2> QED
    BY <1>4, <1>5, <2>1, <2>2, <2>3, <2>4, <2>5
<1>8. /\ Elements(kept) \subseteq Elements(idle_list)
      /\ \A f \in Elements(idle_list) : f \in fresh => f \in Elements(kept)
  <2>1. Elements(idle_list) = {idle_list[j] : j \in 1 .. Len(idle_list)}
    BY DEF Elements
  <2>2. \A j \in 1 .. b : j \in 1 .. Len(idle_list)
    BY <1>2, <1>3
  <2>3. \A j \in 1 .. Len(idle_list) : idle_list[j] \in fresh => j \in 1 .. b
    BY <1>2, <1>3
  <2> QED
    BY <1>6, <2>1, <2>2, <2>3
<1>9. ToSet(demoted) = Elements(demoted) /\ ToSet(kept) = Elements(kept) /\ Active = Elements(active_list)
  BY <1>2, <1>5, <1>6, ElementsIsToSet DEF Distinct, Active
<1>10. Elements(demoted) \cap Elements(kept) = {}
  BY <1>7, <1>8 DEF ListsCover
<1>11. Distinct(idle_list') /\ Elements(idle_list') = Elements(demoted) \cup Elements(kept)
  BY <1>1, <1>5, <1>6, <1>10, ListsJoined
<1>12. Distinct(active_list') /\ Elements(active_list') = Elements(head)
  BY <1>1, <1>4
<1>13. Entries' = Elements(active_list) \cup Elements(kept)
  BY <1>1, <1>9 DEF Entries
<1>14. Entries' \subseteq Entries
  BY <1>8, <1>13 DEF ListsCover
<1>15. \A f \in Entries' : fib'[f] = fib[f]
  BY <1>1, <1>9, <1>13
<1>16. EntriesTyped'
  <2>1. fib' = [f \in Entries' |-> fib'[f]]
    BY <1>1, <1>9, <1>13
  <2> QED
    BY <1>14, <1>15, <2>1 DEF EntriesTyped
<1>17. ListsCover'
  <2>1. Elements(active_list)' = Elements(active_list') /\ Elements(idle_list)' = Elements(idle_list')
    BY DEF Elements
  <2>2. Distinct(active_list)' /\ Distinct(idle_list)'
    BY <1>11, <1>12 DEF Distinct
  <2>3. fresh' \subseteq Entries'
    BY <1>1, <1>7, <1>8, <1>9, <1>13 DEF ListsCover
  <2>4. Elements(active_list') \cap Elements(idle_list') = {}
    BY <1>7, <1>8, <1>11, <1>12 DEF ListsCover
  <2>5. Elements(active_list') \cup Elements(idle_list') = Entries'
    BY <1>7, <1>11, <1>12, <1>13
  <2> QED
    BY <2>1, <2>2, <2>3, <2>4, <2>5 DEF ListsCover
<1> QED
  BY <1>1, <1>14, <1>15, <1>16, <1>17

-----------------------------------------------------------------------------
\* The steps

\* An entry that starts to be acked has an EM-ACK sent, if it knows a relay.
AnswersNow(f) ==
    \/ f \in Entries /\ fib[f].acking
    \/ fib'[f].acking /\ Known(fib'[f]) # {} => \E r \in Relay : << f, r >> \in acked'

\* Calls leave the lists alone, and no flow has a membership it had not.
LEMMA CallOK ==
    ASSUME ElasticInv, UNCHANGED << active_list, idle_list, fresh >>,
           Entries' = Entries, fib' = [f \in DOMAIN fib' |-> fib'[f]],
           \A f \in Entries : fib'[f] \in Entry,
           FlagsTyped', CountsTyped', acked' \subseteq Flow \X Relay,
           ElasticIsFresh', AckedIsForwarded',
           \A f \in Entries : WantedIn(f, flags') => fib'[f].acking
    PROVE  ElasticInv'
<1>1. ListsCover'
  BY DEF ElasticInv, ListsCover, Distinct, Elements
<1>2. EntriesTyped'
  BY DEF ElasticInv, EntriesTyped, Entries
<1>3. MemberIsAcked'
  BY WantedNow DEF MemberIsAcked
<1> QED
  BY <1>1, <1>2, <1>3 DEF ElasticInv

LEMMA HandleAckOK ==
    ASSUME ElasticInv, NEW f \in Flow, NEW i \in Iface, HandleAck(f, i)
    PROVE  ElasticInv' /\ \A k \in Entries' : AnswersNow(k)
<1> DEFINE m == On(f, i)
<1>1. m \in Membership /\ f \in Entries /\ f \in fresh
  BY Keys DEF HandleAck, ElasticInv, ListsCover
<1>2. /\ flags' = [flags EXCEPT ![m] = @ \cup {"ELASTIC"}]
      /\ idle_count' = [idle_count EXCEPT ![m] = 0]
      /\ UNCHANGED << active_list, idle_list, fresh >>
  BY DEF HandleAck
<1>3. FlagsTyped' /\ CountsTyped'
  BY <1>1, <1>2, FlowAssumption DEF ElasticInv, FlagsTyped, CountsTyped
<1>4. /\ flags'[m] = flags[m] \cup {"ELASTIC"}
      /\ \A k \in Membership : k # m => flags'[k] = flags[k]
  BY <1>1, <1>2 DEF ElasticInv, FlagsTyped
<1> HIDE DEF m
<1>5. ASSUME NEW k \in Flow, NEW j \in Iface, k # f \/ j # i PROVE flags'[On(k, j)] = flags[On(k, j)]
  BY <1>4, <1>5, Keys, SameMembership DEF m
<1>6. ASSUME NEW g \in Group, NEW j \in Iface PROVE flags'[On(g, j)] = flags[On(g, j)]
  BY <1>4, Keys, SameMembership DEF m
<1>7. ElasticIsFresh'
  BY <1>1, <1>2, <1>5, <1>6 DEF ElasticInv, ElasticIsFresh
<1>8. ASSUME NEW k \in Flow, k # f, WantedIn(k, flags') PROVE WantedIn(k, flags)
  BY <1>5, <1>6, <1>8 DEF WantedIn
<1>9. CASE "ELASTIC" \in flags[m]
  <2>1. fib' = fib /\ acked' = {}
    BY <1>9 DEF HandleAck, m
  <2>2. AckedIsForwarded'
    <3> SUFFICES ASSUME NEW k \in Entries, NEW j \in Iface, "ELASTIC" \in flags'[On(k, j)]
                 PROVE  j \in fib[k].forward
      BY <2>1 DEF AckedIsForwarded, Entries
    <3>1. k \in Flow
      BY DEF ElasticInv, EntriesTyped
    <3>2. "ELASTIC" \in flags[On(k, j)]
      BY <1>5, <1>9, <3>1 DEF m
    <3> QED
      BY <3>2 DEF ElasticInv, AckedIsForwarded
  <2>3. WantedIn(f, flags)
    BY <1>9 DEF WantedIn, m
  <2>4. ASSUME NEW k \in Entries, WantedIn(k, flags') PROVE fib'[k].acking
    <3>1. WantedIn(k, flags)
      BY <1>8, <2>3, <2>4 DEF ElasticInv, EntriesTyped
    <3> QED
      BY <2>1, <3>1, WantedNow DEF ElasticInv, MemberIsAcked
  <2>5. Entries' = Entries /\ fib' = [k \in DOMAIN fib' |-> fib'[k]] /\ \A k \in Entries : fib'[k] \in Entry
    BY <2>1 DEF ElasticInv, EntriesTyped, Entries
  <2>6. acked' \subseteq Flow \X Relay
    BY <2>1
  <2>7. \A k \in Entries' : AnswersNow(k)
    BY <2>1, <2>5 DEF AnswersNow
  <2> QED
    BY <1>2, <1>3, <1>7, <2>2, <2>4, <2>5, <2>6, <2>7, CallOK
<1>10. CASE "ELASTIC" \notin flags[m]
  <2>1. PICK u \in Upstreams(fib[f], TRUE) :
            /\ fib' = SetForwarding(fib, f, i, TRUE, TRUE, [g \in Flow |-> u])
            /\ acked' = PreemptiveAcks(fib, f, TRUE, [g \in Flow |-> u])
    BY <1>10 DEF HandleAck, m
  <2>2. PICK up : up = [g \in Flow |-> u]
    OBVIOUS
  <2>3. up[f] = u /\ GoodUpstream(u)
    BY <2>2, UpstreamsAreGood
  <2>4. fib' = StartForwarding(fib, f, i, up)
    BY <2>1, <2>2 DEF StartForwarding
  <2>5. FlowsOf[f] = {f}
    BY FlowsMatched
  <2>6. \A k \in FlowsOf[f] \cap DOMAIN fib : GoodUpstream(up[k])
    BY <2>3, <2>5
  <2>7. \A k \in DOMAIN fib : fib[k] \in Entry
    BY DEF ElasticInv, EntriesTyped, Entries
  <2>8. /\ DOMAIN fib' = DOMAIN fib /\ fib' = [k \in DOMAIN fib' |-> fib'[k]]
        /\ \A k \in DOMAIN fib :
              /\ fib'[k] \in Entry
              /\ k \notin FlowsOf[f] => fib'[k] = fib[k]
              /\ k \in FlowsOf[f] => fib'[k].forward = fib[k].forward \cup {i} /\ fib'[k].acking
              /\ k \in FlowsOf[f] => Heeded(fib[k], fib'[k], up[k])
    <3>1. PICK old, x : old = fib /\ x = fib'
      OBVIOUS
    <3>2. x = StartForwarding(old, f, i, up)
      BY <2>4, <3>1
    <3>3. \A k \in DOMAIN old : old[k] \in Entry
      BY <2>7, <3>1
    <3>4. \A k \in FlowsOf[f] \cap DOMAIN old : GoodUpstream(up[k])
      BY <2>6, <3>1
    <3>5. ForwardingStarted(x, old, f, i, up)
      BY ONLY <3>2, <3>3, <3>4, StartForwardingEffect, i \in Iface
    <3> QED
      BY <3>1, <3>5 DEF ForwardingStarted
  <2>9. Entries' = Entries /\ Entries = DOMAIN fib
    BY <2>8 DEF Entries
  <2>10. AckedIsForwarded'
    <3> SUFFICES ASSUME NEW k \in Entries, NEW j \in Iface, "ELASTIC" \in flags'[On(k, j)]
                 PROVE  j \in fib'[k].forward
      BY <2>9 DEF AckedIsForwarded
    <3>1. k \in Flow
      BY DEF ElasticInv, EntriesTyped
    <3>2. CASE k = f /\ j = i
      BY <2>5, <2>8, <2>9, <3>2
    <3>3. CASE k # f \/ j # i
      <4>1. j \in fib[k].forward
        BY <1>5, <3>1, <3>3 DEF ElasticInv, AckedIsForwarded
      <4> QED
        BY <2>8, <2>9, <4>1, <2>5
    <3> QED
      BY <3>2, <3>3
  <2>11. ASSUME NEW k \in Entries, WantedIn(k, flags') PROVE fib'[k].acking
    <3>1. CASE k = f
      BY <2>5, <2>8, <2>9, <3>1
    <3>2. CASE k # f
      <4>1. WantedIn(k, flags)
        BY <1>8, <2>11, <3>2 DEF ElasticInv, EntriesTyped
      <4>2. fib'[k] = fib[k]
        BY <2>5, <2>8, <2>9, <3>2
      <4> QED
        BY <4>1, <4>2, WantedNow DEF ElasticInv, MemberIsAcked
    <3> QED
      BY <3>1, <3>2
  <2>12. acked' \subseteq {<< f, u.best >>} /\ (acked' # {} => u.best # Open)
    BY <2>1, <2>2, <2>3, <2>5 DEF PreemptiveAcks
  <2>13. u.best # Open => u.best \in Relay
    BY <2>3 DEF GoodUpstream
  <2>14. acked' \subseteq Flow \X Relay
    BY <2>12, <2>13
  <2>15. ~fib[f].acking /\ u.best # Open => << f, u.best >> \in acked'
    BY <1>1, <2>1, <2>2, <2>3, <2>5, FlowFields DEF PreemptiveAcks, Entries
  <2>16. ASSUME NEW k \in Entries PROVE AnswersNow(k)
    <3>1. CASE k # f
      BY <2>5, <2>8, <2>9, <3>1 DEF AnswersNow
    <3>2. CASE k = f
      <4>1. Heeded(fib[f], fib'[f], up[f])
        BY <2>5, <2>8, <2>9, <3>2
      <4> QED
        BY <2>3, <2>13, <2>15, <3>2, <4>1 DEF Heeded, AnswersNow
    <3> QED
      BY <3>1, <3>2
  <2>17. \A k \in Entries : fib'[k] \in Entry
    BY <2>8, <2>9
  <2> QED
    BY <1>2, <1>3, <1>7, <2>8, <2>9, <2>10, <2>11, <2>14, <2>16, <2>17, CallOK
<1> QED
  BY <1>9, <1>10

LEMMA RecvPacketOK ==
    ASSUME ElasticInv, NEW f \in Flow, NEW r \in Relay \cup {Local}, NEW n \in Nat,
           NEW update \in BOOLEAN, NEW late \in BOOLEAN, RecvPacket(f, r, n, update, late)
    PROVE  ElasticInv' /\ \A k \in Entries' : AnswersNow(k)
<1> DEFINE old == IF f \in Entries THEN fib[f] ELSE NewEntry
           entry == Heard(old, r, late)
           entries == [g \in Entries \cup {f} |-> IF g = f THEN entry ELSE fib[g]]
           acks == IF AckPending(old, r, late) THEN {<< f, r >>} ELSE {}
<1>1. /\ f \notin Active \cap fresh => update
      /\ Refresh(f)
      /\ IF update THEN \E u \in Upstreams(entry, TRUE) : Update(f, n, entries, acks, [g \in Flow |-> u])
         ELSE fib' = entries /\ acked' = acks /\ UNCHANGED << flags, idle_count >>
  BY DEF RecvPacket
<1>2. old \in Entry /\ (f \notin Entries => ~old.acking /\ old.forward = {})
  BY NewEntryType DEF ElasticInv, EntriesTyped
<1>3. acks \subseteq Flow \X Relay
  BY DEF AckPending
<1> HIDE DEF acks
<1>4. f \in Entries => old = fib[f]
  OBVIOUS
<1> HIDE DEF old
<1>5. entry \in Entry /\ entry.acking = old.acking /\ entry.forward = old.forward
  BY <1>2, HeardEffect
<1> HIDE DEF entry
<1>6. /\ DOMAIN entries = Entries \cup {f} /\ entries \in [DOMAIN entries -> Entry]
      /\ DOMAIN entries \subseteq Flow
      /\ entries[f] = entry /\ \A k \in Entries : k # f => entries[k] = fib[k]
  BY <1>5 DEF ElasticInv, EntriesTyped
<1>7. entries = [g \in DOMAIN entries |-> entries[g]]
  OBVIOUS
<1> HIDE DEF entries
<1>8. ASSUME NEW i \in Iface, "ELASTIC" \in flags[On(f, i)] PROVE f \in Entries /\ i \in entries[f].forward
  <2>1. f \in Entries
    BY <1>8 DEF ElasticInv, ElasticIsFresh, ListsCover
  <2> QED
    BY <1>4, <1>5, <1>6, <1>8, <2>1 DEF ElasticInv, AckedIsForwarded
<1>9. fresh \subseteq fresh'
  BY <1>1 DEF Refresh
<1>10. CASE ~update
  <2>1. fib' = entries /\ acked' = acks /\ flags' = flags /\ idle_count' = idle_count
    BY <1>1, <1>10
  <2>2. f \in Entries /\ entry.acking = fib[f].acking
    BY <1>1, <1>4, <1>5, <1>10 DEF ElasticInv, ListsCover
  <2>3. Entries' = Entries \cup {f}
    BY <1>6, <2>1 DEF Entries
  <2>4. EntriesTyped'
    BY <1>6, <1>7, <2>1, <2>3 DEF EntriesTyped
  <2>5. ListsCover'
    BY <1>1, <2>3, RefreshOK DEF ElasticInv, EntriesTyped
  <2>6. FlagsTyped' /\ CountsTyped' /\ ElasticIsFresh'
    BY <1>9, <2>1 DEF ElasticInv, FlagsTyped, CountsTyped, ElasticIsFresh
  <2>7. AckedIsForwarded'
    <3> SUFFICES ASSUME NEW k \in Entries', NEW i \in Iface, "ELASTIC" \in flags[On(k, i)]
                 PROVE  i \in entries[k].forward
      BY <2>1 DEF AckedIsForwarded
    <3> QED
      BY <1>6, <1>8, <2>3 DEF ElasticInv, AckedIsForwarded
  <2>8. MemberIsAcked'
    <3> SUFFICES ASSUME NEW k \in Entries', WantedIn(k, flags) PROVE entries[k].acking
      BY <2>1, WantedNow DEF MemberIsAcked
    <3> QED
      BY <1>6, <2>2, <2>3, WantedNow DEF ElasticInv, MemberIsAcked
  <2>9. \A k \in Entries' : AnswersNow(k)
    BY <1>6, <2>1, <2>2, <2>3 DEF AnswersNow
  <2>10. acked' \subseteq Flow \X Relay
    BY <1>3, <2>1
  <2> QED
    BY <2>4, <2>5, <2>6, <2>7, <2>8, <2>9, <2>10 DEF ElasticInv
<1>11. CASE update
  <2>1. PICK u \in Upstreams(entry, TRUE) : Update(f, n, entries, acks, [g \in Flow |-> u])
    BY <1>1, <1>11
  <2>2. GoodUpstream(u) /\ f \in DOMAIN entries
    BY <1>6, UpstreamsAreGood
  <2>3. FlagsTyped /\ CountsTyped /\ ElasticIsFresh
    BY DEF ElasticInv
  <2>4. /\ FlagsTyped' /\ CountsTyped'
        /\ \A m \in Membership : flags'[m] \subseteq flags[m]
        /\ DOMAIN fib' = DOMAIN entries /\ fib' = [g \in DOMAIN fib' |-> fib'[g]]
        /\ \A g \in DOMAIN entries : fib'[g] \in Entry /\ (g # f => fib'[g] = entries[g])
        /\ WantedIn(f, flags') => fib'[f].acking
        /\ \A i \in Iface : "ELASTIC" \in flags'[On(f, i)] /\ i \in entries[f].forward => i \in fib'[f].forward
        /\ acks \subseteq acked' /\ acked' \subseteq acks \cup (Flow \X Relay)
        /\ entries[f].acking \/ (fib'[f].acking /\ Known(fib'[f]) # {} => \E s \in Relay : << f, s >> \in acked')
    <3>1. PICK base, up : base = entries /\ up = [g \in Flow |-> u]
      OBVIOUS
    <3>2. /\ DOMAIN base \subseteq Flow /\ base \in [DOMAIN base -> Entry] /\ f \in DOMAIN base
          /\ up = [g \in Flow |-> u] /\ Update(f, n, base, acks, up)
      BY <1>6, <2>1, <2>2, <3>1
    <3>3. Updated(f, base, acks)
      BY ONLY <2>2, <2>3, <3>2, UpdateOK, n \in Nat
    <3> QED
      BY <3>1, <3>3 DEF Updated
  <2>5. Entries' = Entries \cup {f}
    BY <1>6, <2>4 DEF Entries
  <2>6. EntriesTyped'
    BY <1>6, <2>4, <2>5 DEF EntriesTyped, Entries
  <2>7. ListsCover'
    BY <1>1, <2>5, RefreshOK DEF ElasticInv, EntriesTyped
  <2>8. ElasticIsFresh'
    BY <1>9, <2>4, Keys DEF ElasticInv, ElasticIsFresh
  <2>9. AckedIsForwarded'
    <3> SUFFICES ASSUME NEW k \in Entries', NEW i \in Iface, "ELASTIC" \in flags'[On(k, i)]
                 PROVE  i \in fib'[k].forward
      BY DEF AckedIsForwarded
    <3>1. k \in Flow
      BY <1>6, <2>5
    <3>2. "ELASTIC" \in flags[On(k, i)]
      BY <2>4, <3>1, Keys
    <3>3. CASE k = f
      BY <1>8, <2>4, <3>2, <3>3
    <3>4. CASE k # f
      BY <1>6, <2>4, <2>5, <3>2, <3>4 DEF ElasticInv, AckedIsForwarded
    <3> QED
      BY <3>3, <3>4
  <2>10. MemberIsAcked'
    <3> SUFFICES ASSUME NEW k \in Entries', WantedIn(k, flags') PROVE fib'[k].acking
      BY WantedNow DEF MemberIsAcked
    <3>1. CASE k = f
      BY <2>4, <3>1
    <3>2. CASE k # f
      <4>1. k \in Entries /\ k \in Flow /\ fib'[k] = fib[k]
        BY <1>6, <2>4, <2>5, <3>2
      <4>2. \A m \in Membership : flags'[m] # {} => flags[m] # {}
        BY <2>4
      <4>3. WantedIn(k, flags)
        BY <4>1, <4>2, FewerWanted
      <4> QED
        BY <4>1, <4>3, WantedNow DEF ElasticInv, MemberIsAcked
    <3> QED
      BY <3>1, <3>2
  <2>11. acked' \subseteq Flow \X Relay
    BY <1>3, <2>4
  <2>12. ASSUME NEW k \in Entries' PROVE AnswersNow(k)
    <3>1. CASE k # f
      BY <1>6, <2>4, <2>5, <3>1 DEF AnswersNow
    <3>2. CASE k = f
      <4>1. entries[f].acking => f \in Entries /\ fib[f].acking
        BY <1>2, <1>4, <1>5, <1>6
      <4> QED
        BY <2>4, <3>2, <4>1 DEF AnswersNow
    <3> QED
      BY <3>1, <3>2
  <2> QED
    BY <2>4, <2>6, <2>7, <2>8, <2>9, <2>10, <2>11, <2>12 DEF ElasticInv
<1> QED
  BY <1>10, <1>11

\* A call that is about entries no description matches changes none.
LEMMA LapseOK ==
    ASSUME ElasticInv, NEW f \in Flow, NEW i \in Iface, Lapse(f, i)
    PROVE  ElasticInv' /\ \A k \in Entries' : AnswersNow(k)
<1> DEFINE m == On(f, i)
           left == [flags EXCEPT ![m] = @ \ {"ELASTIC"}]
           status == left[m] # {} \/ Members(m, left) # {}
<1>1. /\ flags' = left
      /\ idle_count' = [idle_count EXCEPT ![m] = 0]
      /\ \E u : /\ fib' = SetForwarding(fib, m, i, FALSE, status, [g \in Flow |-> u])
                /\ acked' = PreemptiveAcks(fib, m, status, [g \in Flow |-> u])
      /\ UNCHANGED << active_list, idle_list, fresh >>
  BY DEF Lapse
<1> HIDE DEF status
<1>2. m \in Membership /\ FlowsOf[m] = {}
  BY Keys, FlowsMatched
<1> HIDE DEF m
<1>3. PICK up : /\ fib' = SetForwarding(fib, m, i, FALSE, status, up)
                /\ acked' = PreemptiveAcks(fib, m, status, up)
  BY <1>1
<1>4. acked' = {}
  BY <1>2, <1>3 DEF PreemptiveAcks
<1>5. fib' = [k \in Entries |-> fib[k]]
  BY <1>2, <1>3 DEF SetForwarding, SetAcking, Entries
<1>6. fib' = fib
  BY <1>5 DEF ElasticInv, EntriesTyped
<1>7. FlagsTyped' /\ CountsTyped' /\ \A k \in Membership : flags'[k] \subseteq flags[k]
  BY <1>1, <1>2, FlowAssumption DEF ElasticInv, FlagsTyped, CountsTyped
<1>8. ElasticIsFresh'
  BY <1>1, <1>7, Keys DEF ElasticInv, ElasticIsFresh
<1>9. Entries' = Entries /\ fib' = [k \in DOMAIN fib' |-> fib'[k]] /\ \A k \in Entries : fib'[k] \in Entry /\ k \in Flow
  BY <1>6 DEF ElasticInv, EntriesTyped, Entries
<1>10. AckedIsForwarded'
  <2> SUFFICES ASSUME NEW k \in Entries, NEW j \in Iface, "ELASTIC" \in flags'[On(k, j)] PROVE j \in fib[k].forward
    BY <1>6, <1>9 DEF AckedIsForwarded
  <2>1. "ELASTIC" \in flags[On(k, j)]
    BY <1>7, <1>9, Keys
  <2> QED
    BY <2>1 DEF ElasticInv, AckedIsForwarded
<1>11. ASSUME NEW k \in Entries, WantedIn(k, flags') PROVE fib'[k].acking
  <2>1. \A d \in Membership : flags'[d] # {} => flags[d] # {}
    BY <1>7
  <2>2. WantedIn(k, flags)
    BY <1>9, <1>11, <2>1, FewerWanted
  <2> QED
    BY <1>6, <2>2, WantedNow DEF ElasticInv, MemberIsAcked
<1>12. \A k \in Entries' : AnswersNow(k)
  BY <1>6, <1>9 DEF AnswersNow
<1>13. acked' \subseteq Flow \X Relay
  BY <1>4
<1> QED
  BY <1>1, <1>7, <1>8, <1>9, <1>10, <1>11, <1>12, <1>13, CallOK

LEMMA AddManagedOK ==
    ASSUME ElasticInv, NEW g \in Group, NEW i \in Iface, AddManagedMembership(g, i)
    PROVE  /\ ElasticInv'
           /\ \/ \A k \in Entries' : AnswersNow(k)
              \/ flags[On(g, i)] = {} /\ flags'[On(g, i)] # {}
<1> DEFINE m == On(g, i)
           joined == [flags EXCEPT ![m] = @ \cup {"MANAGED"}]
           members == Members(m, joined)
<1>1. /\ flags' = [k \in Membership |-> IF k \in members /\ k[5] = i THEN joined[k] \cup {"MANAGED"} ELSE flags[k]]
      /\ UNCHANGED << active_list, idle_list, fresh, idle_count >>
  BY DEF AddManagedMembership
<1>2. m \in Membership /\ m \in MembershipsOf[m] /\ m[5] = i
  BY Keys, MembershipsMatched, OnFields
<1> HIDE DEF m
<1>3. /\ joined[m] = flags[m] \cup {"MANAGED"} /\ \A k \in Membership : k # m => joined[k] = flags[k]
      /\ \A k \in Membership : joined[k] \in SUBSET {"MANAGED", "ELASTIC"}
  BY <1>2 DEF ElasticInv, FlagsTyped
<1> HIDE DEF joined
<1>4. m \in members
  BY <1>2, <1>3 DEF Members, Held
<1>5. \A k \in members : k \in Membership /\ joined[k] # {}
  BY DEF Members, Held
<1> HIDE DEF members
<1>6. FlagsTyped' /\ CountsTyped'
  BY <1>1, <1>3 DEF ElasticInv, FlagsTyped, CountsTyped
<1>7. \A k \in Membership : "ELASTIC" \in flags'[k] <=> "ELASTIC" \in flags[k]
  BY <1>1, <1>3
<1>8. "MANAGED" \in flags'[m] /\ \A k \in Membership : k # m => (flags'[k] # {} <=> flags[k] # {})
  BY <1>1, <1>2, <1>3, <1>4, <1>5
<1>9. ElasticIsFresh'
  BY <1>1, <1>7, Keys DEF ElasticInv, ElasticIsFresh
<1>10. \A k \in DOMAIN fib : fib[k] \in Entry /\ k \in Flow
  BY DEF ElasticInv, EntriesTyped, Entries
<1>11. CASE flags[m] # {}
  <2>1. fib' = fib /\ acked' = {}
    BY <1>11 DEF AddManagedMembership, m
  <2>2. AckedIsForwarded'
    <3> SUFFICES ASSUME NEW k \in Entries, NEW j \in Iface, "ELASTIC" \in flags'[On(k, j)]
                 PROVE  j \in fib[k].forward
      BY <2>1 DEF AckedIsForwarded, Entries
    <3>1. "ELASTIC" \in flags[On(k, j)]
      BY <1>7, <1>10, Keys DEF Entries
    <3> QED
      BY <3>1 DEF ElasticInv, AckedIsForwarded
  <2>3. ASSUME NEW k \in Entries, WantedIn(k, flags') PROVE fib'[k].acking
    <3>1. \A d \in Membership : flags'[d] # {} => flags[d] # {}
      BY <1>8, <1>11
    <3>2. WantedIn(k, flags)
      BY <1>10, <2>3, <3>1, FewerWanted DEF Entries
    <3> QED
      BY <2>1, <3>2, WantedNow DEF ElasticInv, MemberIsAcked
  <2>4. Entries' = Entries /\ fib' = [k \in DOMAIN fib' |-> fib'[k]] /\ \A k \in Entries : fib'[k] \in Entry
    BY <2>1 DEF ElasticInv, EntriesTyped, Entries
  <2>5. acked' \subseteq Flow \X Relay
    BY <2>1
  <2>6. \A k \in Entries' : AnswersNow(k)
    BY <2>1, <2>4 DEF AnswersNow
  <2> QED
    BY <1>1, <1>6, <1>9, <2>2, <2>3, <2>4, <2>5, <2>6, CallOK
<1>12. CASE flags[m] = {}
  <2>1. PICK up : /\ \A k \in Entries : up[k] \in Upstreams(fib[k], k \in Active \cap fresh)
                  /\ fib' = SetAcking(fib, m, TRUE, up)
                  /\ acked' = PreemptiveAcks(fib, m, TRUE, up)
    BY <1>12 DEF AddManagedMembership, m
  <2>2. \A k \in Entries : GoodUpstream(up[k])
    BY <2>1, UpstreamsAreGood
  <2>3. fib' = StartAcking(fib, m, up)
    BY <2>1 DEF StartAcking
  <2>4. /\ DOMAIN fib' = DOMAIN fib /\ fib' = [k \in DOMAIN fib' |-> fib'[k]]
        /\ \A k \in DOMAIN fib :
              /\ fib'[k] \in Entry /\ fib'[k].forward = fib[k].forward
              /\ k \notin FlowsOf[m] => fib'[k] = fib[k]
              /\ k \in FlowsOf[m] => fib'[k].acking
    BY <1>10, <2>2, <2>3, StartAckingEffect DEF Entries
  <2>5. Entries' = Entries /\ Entries = DOMAIN fib
    BY <2>4 DEF Entries
  <2>6. AckedIsForwarded'
    <3> SUFFICES ASSUME NEW k \in Entries, NEW j \in Iface, "ELASTIC" \in flags'[On(k, j)]
                 PROVE  j \in fib'[k].forward
      BY <2>5 DEF AckedIsForwarded
    <3>1. "ELASTIC" \in flags[On(k, j)]
      BY <1>7, <1>10, <2>5, Keys
    <3> QED
      BY <2>4, <2>5, <3>1 DEF ElasticInv, AckedIsForwarded
  <2>7. ASSUME NEW k \in Entries, WantedIn(k, flags') PROVE fib'[k].acking
    <3>1. CASE k[1] = g[1]
      BY <1>10, <2>4, <2>5, <3>1, FlowsMatched DEF m
    <3>2. CASE k[1] # g[1]
      <4>1. PICK j \in Iface : flags'[On(k, j)] # {} \/ \E h \in Group : h[1] = k[1] /\ flags'[On(h, j)] # {}
        BY <2>7 DEF WantedIn
      <4>2. On(k, j) # m
        BY <1>10, <2>5, SameMembership DEF m
      <4>3. \A h \in Group : h[1] = k[1] => On(h, j) # m
        BY <3>2, SameMembership DEF m
      <4>4. WantedIn(k, flags)
        BY <1>8, <1>10, <2>5, <4>1, <4>2, <4>3, Keys DEF WantedIn
      <4>5. fib[k].acking
        BY <4>4, WantedNow DEF ElasticInv, MemberIsAcked
      <4> QED
        BY <2>4, <2>5, <4>5
    <3> QED
      BY <3>1, <3>2
  <2>8. acked' \subseteq Flow \X Relay
    <3>1. \A a \in acked' : \E k \in DOMAIN fib : a = << k, up[k].best >> /\ up[k].best # Open
      BY <2>1 DEF PreemptiveAcks
    <3>2. \A k \in DOMAIN fib : up[k].best # Open => up[k].best \in Relay
      BY <2>2, <2>5 DEF GoodUpstream
    <3> QED
      BY <1>10, <3>1, <3>2
  <2>9. flags'[m] # {}
    BY <1>8
  <2>10. \A k \in Entries : fib'[k] \in Entry
    BY <2>4, <2>5
  <2> QED
    BY <1>1, <1>6, <1>9, <1>12, <2>4, <2>5, <2>6, <2>7, <2>8, <2>9, <2>10, CallOK DEF m
<1> QED
  BY <1>11, <1>12

LEMMA RemoveManagedOK ==
    ASSUME ElasticInv, NEW g \in Group, NEW i \in Iface, RemoveManagedMembership(g, i)
    PROVE  ElasticInv' /\ \A k \in Entries' : AnswersNow(k)
<1> DEFINE members == Members(g, flags)
           left == [k \in Membership |-> IF k \in members /\ k[5] = i THEN flags[k] \ {"MANAGED"} ELSE flags[k]]
           none == members # {} /\ Members(g, left) = {}
<1>1. /\ flags' = left /\ acked' = {}
      /\ none => fib' = SetAcking(fib, g, FALSE, [f \in Flow |-> Open])
      /\ ~none => fib' = fib
      /\ UNCHANGED << active_list, idle_list, fresh, idle_count >>
  BY DEF RemoveManagedMembership
<1> HIDE DEF members
<1>2. \A k \in Membership : left[k] \subseteq flags[k] /\ ("ELASTIC" \in left[k] <=> "ELASTIC" \in flags[k])
  OBVIOUS
<1>3. left \in [Membership -> SUBSET {"MANAGED", "ELASTIC"}]
  BY DEF ElasticInv, FlagsTyped
<1> HIDE DEF left
<1>4. none => \A k \in Membership : k[1] = g[1] => left[k] = {}
  BY MembershipsMatched DEF Members, Held
<1> HIDE DEF none
<1>5. FlagsTyped' /\ CountsTyped'
  BY <1>1, <1>3 DEF ElasticInv, FlagsTyped, CountsTyped
<1>6. ElasticIsFresh'
  BY <1>1, <1>2, Keys DEF ElasticInv, ElasticIsFresh
<1>7. \A k \in DOMAIN fib : fib[k] \in Entry /\ k \in Flow
  BY DEF ElasticInv, EntriesTyped, Entries
<1>8. /\ DOMAIN fib' = DOMAIN fib /\ fib' = [k \in DOMAIN fib' |-> fib'[k]]
      /\ \A k \in DOMAIN fib :
            /\ fib'[k] \in Entry /\ fib'[k].forward = fib[k].forward
            /\ fib'[k] = fib[k] \/ ((none /\ k[1] = g[1]) /\ ~fib'[k].acking)
  <2>1. CASE none
    <3>1. PICK up : fib' = StopAcking(fib, g, up)
      BY <1>1, <2>1 DEF StopAcking
    <3>2. /\ DOMAIN fib' = DOMAIN fib /\ fib' = [k \in DOMAIN fib' |-> fib'[k]]
          /\ \A k \in DOMAIN fib :
                /\ fib'[k] \in Entry /\ fib'[k].forward = fib[k].forward
                /\ k \notin FlowsOf[g] => fib'[k] = fib[k]
                /\ k \in FlowsOf[g] => ~fib'[k].acking
      BY <1>7, <3>1, StopAckingEffect
    <3> QED
      BY <1>7, <2>1, <3>2, FlowsMatched
  <2>2. CASE ~none
    <3>1. fib' = fib
      BY <1>1, <2>2
    <3>2. fib = [k \in DOMAIN fib |-> fib[k]]
      BY DEF ElasticInv, EntriesTyped, Entries
    <3> QED
      BY <1>7, <3>1, <3>2
  <2> QED
    BY <2>1, <2>2
<1>9. Entries' = Entries /\ Entries = DOMAIN fib
  BY <1>8 DEF Entries
<1>10. AckedIsForwarded'
  <2> SUFFICES ASSUME NEW k \in Entries, NEW j \in Iface, "ELASTIC" \in flags'[On(k, j)] PROVE j \in fib'[k].forward
    BY <1>9 DEF AckedIsForwarded
  <2>1. "ELASTIC" \in flags[On(k, j)]
    BY <1>1, <1>2, <1>7, <1>9, Keys
  <2> QED
    BY <1>8, <1>9, <2>1 DEF ElasticInv, AckedIsForwarded
<1>11. ASSUME NEW k \in Entries, WantedIn(k, flags') PROVE fib'[k].acking
  <2>1. \A d \in Membership : flags'[d] # {} => flags[d] # {}
    BY <1>1, <1>2
  <2>2. fib[k].acking
    BY <1>7, <1>9, <1>11, <2>1, FewerWanted, WantedNow DEF ElasticInv, MemberIsAcked
  <2>3. ~(none /\ k[1] = g[1])
    <3> SUFFICES ASSUME none, k[1] = g[1] PROVE FALSE
      OBVIOUS
    <3>1. PICK j \in Iface : flags'[On(k, j)] # {} \/ \E h \in Group : h[1] = k[1] /\ flags'[On(h, j)] # {}
      BY <1>11 DEF WantedIn
    <3>2. On(k, j)[1] = k[1] /\ \A h \in Group : On(h, j)[1] = h[1]
      BY OnFields
    <3> QED
      BY <1>1, <1>4, <1>7, <1>9, <3>1, <3>2, Keys
  <2> QED
    BY <1>8, <1>9, <2>2, <2>3
<1>12. \A k \in Entries : AnswersNow(k)
  BY <1>8, <1>9 DEF AnswersNow
<1>13. acked' \subseteq Flow \X Relay /\ \A k \in Entries : fib'[k] \in Entry
  BY <1>1, <1>8, <1>9
<1> QED
  BY <1>1, <1>5, <1>6, <1>8, <1>9, <1>10, <1>11, <1>12, <1>13, CallOK

LEMMA GoesStaleOK ==
    ASSUME ElasticInv, NEW f \in Flow, GoesStale(f)
    PROVE  ElasticInv' /\ \A k \in Entries' : AnswersNow(k)
<1>1. /\ \A i \in Iface : "ELASTIC" \notin flags[On(f, i)]
      /\ fresh' = fresh \ {f}
      /\ UNCHANGED << fib, active_list, idle_list, flags, idle_count, acked >>
  BY DEF GoesStale
<1>2. EntriesTyped' /\ ListsCover' /\ FlagsTyped' /\ CountsTyped'
  <2>1. EntriesTyped' /\ Entries' = Entries
    BY <1>1 DEF ElasticInv, EntriesTyped, Entries
  <2>2. /\ Distinct(active_list)' /\ Distinct(idle_list)'
        /\ Elements(active_list)' = Elements(active_list) /\ Elements(idle_list)' = Elements(idle_list)
    BY <1>1 DEF ElasticInv, ListsCover
  <2>3. ListsCover'
    BY <1>1, <2>1, <2>2 DEF ElasticInv, ListsCover
  <2>4. FlagsTyped' /\ CountsTyped'
    BY <1>1 DEF ElasticInv, FlagsTyped, CountsTyped
  <2> QED
    BY <2>1, <2>3, <2>4
<1>3. ElasticIsFresh'
  BY <1>1 DEF ElasticInv, ElasticIsFresh
<1>4. AckedIsForwarded' /\ MemberIsAcked'
  BY <1>1 DEF ElasticInv, AckedIsForwarded, MemberIsAcked, Wanted, Entries
<1>5. \A k \in Entries' : AnswersNow(k)
  BY <1>1 DEF AnswersNow, Entries
<1>6. acked' \subseteq Flow \X Relay
  BY <1>1 DEF ElasticInv
<1> QED
  BY <1>2, <1>3, <1>4, <1>5, <1>6 DEF ElasticInv

LEMMA PruneFlowListOK ==
    ASSUME ElasticInv, PruneFlowList
    PROVE  ElasticInv' /\ \A k \in Entries' : AnswersNow(k)
<1>1. /\ ListsCover' /\ EntriesTyped'
      /\ fresh \subseteq fresh' /\ Entries' \subseteq Entries
      /\ \A f \in Entries' : fib'[f] = fib[f]
  BY PruneOK DEF ElasticInv
<1>2. flags' = flags /\ idle_count' = idle_count /\ acked' = {}
  BY DEF PruneFlowList
<1>3. FlagsTyped' /\ CountsTyped' /\ ElasticIsFresh'
  BY <1>1, <1>2 DEF ElasticInv, FlagsTyped, CountsTyped, ElasticIsFresh
<1>4. AckedIsForwarded'
  BY <1>1, <1>2 DEF ElasticInv, AckedIsForwarded
<1>5. MemberIsAcked'
  <2> SUFFICES ASSUME NEW k \in Entries', WantedIn(k, flags) PROVE fib'[k].acking
    BY <1>2, WantedNow DEF MemberIsAcked
  <2> QED
    BY <1>1, WantedNow DEF ElasticInv, MemberIsAcked
<1>6. \A k \in Entries' : AnswersNow(k)
  BY <1>1 DEF AnswersNow
<1>7. acked' \subseteq Flow \X Relay
  BY <1>2
<1> QED
  BY <1>1, <1>3, <1>4, <1>5, <1>6, <1>7 DEF ElasticInv

-----------------------------------------------------------------------------
LEMMA InitElastic == Init => ElasticInv
<1> SUFFICES ASSUME Init PROVE ElasticInv
  OBVIOUS
<1>1. Entries = {} /\ fib = [f \in Entries |-> fib[f]]
  BY DEF Init, Entries
<1>2. EntriesTyped
  BY <1>1 DEF EntriesTyped
<1>3. ListsCover
  BY <1>1, NoElement DEF Init, ListsCover
<1>4. FlagsTyped /\ CountsTyped
  BY FlowAssumption DEF Init, FlagsTyped, CountsTyped
<1>5. ElasticIsFresh
  BY Keys DEF Init, ElasticIsFresh
<1>6. AckedIsForwarded /\ MemberIsAcked
  BY <1>1 DEF AckedIsForwarded, MemberIsAcked
<1> QED
  BY <1>2, <1>3, <1>4, <1>5, <1>6 DEF Init, ElasticInv

LEMMA NextElastic ==
    ASSUME ElasticInv, [Next]_vars
    PROVE  /\ ElasticInv'
           /\ \/ vars' = vars
              \/ \A k \in Entries' : AnswersNow(k) \/ \E g \in Group, i \in Iface :
                                                        flags[On(g, i)] = {} /\ flags'[On(g, i)] # {}
<1>1. CASE UNCHANGED vars
  <2>1. /\ fib' = fib /\ active_list' = active_list /\ idle_list' = idle_list /\ fresh' = fresh
        /\ flags' = flags /\ idle_count' = idle_count /\ acked' = acked /\ vars' = vars
    BY <1>1 DEF vars
  <2>2. EntriesTyped' /\ Entries' = Entries
    BY <2>1 DEF ElasticInv, EntriesTyped, Entries
  <2>3. ListsCover'
    BY <2>1, <2>2 DEF ElasticInv, ListsCover
  <2>4. FlagsTyped' /\ CountsTyped' /\ ElasticIsFresh' /\ acked' \subseteq Flow \X Relay
    BY <2>1 DEF ElasticInv, FlagsTyped, CountsTyped, ElasticIsFresh
  <2>5. AckedIsForwarded'
    BY <2>1, <2>2 DEF ElasticInv, AckedIsForwarded
  <2>6. MemberIsAcked'
    BY <2>1, <2>2 DEF ElasticInv, MemberIsAcked, Wanted
  <2> QED
    BY <2>1, <2>2, <2>3, <2>4, <2>5, <2>6 DEF ElasticInv
<1>2. ASSUME NEW f \in Flow, NEW r \in Relay \cup {Local}, NEW n \in 0 .. DEFAULT_IDLE_COUNT_THRESHOLD,
             NEW update \in BOOLEAN, NEW late \in BOOLEAN, RecvPacket(f, r, n, update, late)
      PROVE  ElasticInv' /\ \A k \in Entries' : AnswersNow(k)
  <2>1. n \in Nat
    BY FlowAssumption
  <2> QED
    BY <1>2, <2>1, RecvPacketOK
<1>3. ASSUME NEW f \in Flow, NEW i \in Iface, HandleAck(f, i)
      PROVE  ElasticInv' /\ \A k \in Entries' : AnswersNow(k)
  BY <1>3, HandleAckOK
<1>4. ASSUME NEW f \in Flow, NEW i \in Iface, Lapse(f, i)
      PROVE  ElasticInv' /\ \A k \in Entries' : AnswersNow(k)
  BY <1>4, LapseOK
<1>5. ASSUME NEW f \in Flow, GoesStale(f)
      PROVE  ElasticInv' /\ \A k \in Entries' : AnswersNow(k)
  BY <1>5, GoesStaleOK
<1>6. ASSUME NEW g \in Group, NEW i \in Iface, AddManagedMembership(g, i)
      PROVE  /\ ElasticInv'
             /\ \/ \A k \in Entries' : AnswersNow(k)
                \/ \E h \in Group, j \in Iface : flags[On(h, j)] = {} /\ flags'[On(h, j)] # {}
  <2>1. /\ ElasticInv'
        /\ \/ \A k \in Entries' : AnswersNow(k)
           \/ flags[On(g, i)] = {} /\ flags'[On(g, i)] # {}
    BY <1>6, AddManagedOK
  <2> QED
    BY <2>1
<1>7. ASSUME NEW g \in Group, NEW i \in Iface, RemoveManagedMembership(g, i)
      PROVE  ElasticInv' /\ \A k \in Entries' : AnswersNow(k)
  BY <1>7, RemoveManagedOK
<1>8. CASE PruneFlowList
  BY <1>8, PruneFlowListOK
<1> QED
  BY <1>1, <1>2, <1>3, <1>4, <1>5, <1>6, <1>7, <1>8 DEF Next

LEMMA SpecElastic == Spec => []ElasticInv
<1>1. ElasticInv /\ [Next]_vars => ElasticInv'
  BY NextElastic
<1> QED
  BY InitElastic, <1>1, PTL DEF Spec

\* The tables have their types, and every entry is in one of the two lists,
\* where pruning will find it, and only once (MulticastFIB).
THEOREM EntriesAreListed == Spec => []TypeOK
<1>1. ASSUME ElasticInv PROVE TypeOK
  <2>1. fib \in [Entries -> Entry] /\ Entries \subseteq Flow
    BY <1>1 DEF ElasticInv, EntriesTyped
  <2>2. /\ Distinct(active_list) /\ DOMAIN active_list = 1 .. Len(active_list)
        /\ Distinct(idle_list) /\ DOMAIN idle_list = 1 .. Len(idle_list)
        /\ Len(active_list) \in Nat /\ Len(idle_list) \in Nat
    BY <1>1, LenProperties DEF ElasticInv, ListsCover, Distinct
  <2>3. active_list \in Seq(Entries) /\ idle_list \in Seq(Entries)
    <3>1. /\ \A j \in 1 .. Len(active_list) : active_list[j] \in Entries
          /\ \A j \in 1 .. Len(idle_list) : idle_list[j] \in Entries
      BY <1>1 DEF ElasticInv, ListsCover, Elements
    <3>2. /\ SubSeq(active_list, 1, Len(active_list)) \in Seq(Entries)
          /\ SubSeq(idle_list, 1, Len(idle_list)) \in Seq(Entries)
      BY <2>2, <3>1, SubSeqProperties
    <3> QED
      BY <2>2, <3>2, SubSeqFull DEF Distinct
  <2>4. ASSUME NEW f \in Entries
        PROVE  Cardinality({j \in DOMAIN active_list : active_list[j] = f})
               + Cardinality({j \in DOMAIN idle_list : idle_list[j] = f}) = 1
    <3>1. CASE f \in Elements(active_list)
      <4>1. PICK k \in 1 .. Len(active_list) : active_list[k] = f
        BY <3>1 DEF Elements
      <4>2. {j \in DOMAIN active_list : active_list[j] = f} = {k}
        BY <2>2, <4>1 DEF Distinct
      <4>3. {j \in DOMAIN idle_list : idle_list[j] = f} = {}
        BY <1>1, <2>2, <3>1 DEF ElasticInv, ListsCover, Elements
      <4>4. Cardinality({j \in DOMAIN active_list : active_list[j] = f}) = 1
        BY <4>2, FS_Singleton
      <4>5. Cardinality({j \in DOMAIN idle_list : idle_list[j] = f}) = 0
        BY <4>3, FS_EmptySet
      <4> QED
        BY <4>4, <4>5
    <3>2. CASE f \notin Elements(active_list)
      <4>1. PICK k \in 1 .. Len(idle_list) : idle_list[k] = f
        BY <1>1, <3>2 DEF ElasticInv, ListsCover, Elements
      <4>2. {j \in DOMAIN idle_list : idle_list[j] = f} = {k}
        BY <2>2, <4>1 DEF Distinct
      <4>3. {j \in DOMAIN active_list : active_list[j] = f} = {}
        BY <2>2, <3>2 DEF Elements
      <4>4. Cardinality({j \in DOMAIN idle_list : idle_list[j] = f}) = 1
        BY <4>2, FS_Singleton
      <4>5. Cardinality({j \in DOMAIN active_list : active_list[j] = f}) = 0
        BY <4>3, FS_EmptySet
      <4> QED
        BY <4>4, <4>5
    <3> QED
      BY <3>1, <3>2
  <2> QED
    BY <1>1, <2>1, <2>3, <2>4 DEF TypeOK, ElasticInv, ListsCover, FlagsTyped, CountsTyped
<1> QED
  BY <1>1, SpecElastic, PTL

\* While a neighbor keeps its membership of a flow alive with EM-ACKs the flow
\* is forwarded to it: no join, leave, timeout or idle count of any membership
\* turns off what its first EM-ACK alone turned on (HandleAck, UpdateForwardingStatus).
THEOREM AckedFlowIsForwarded == Spec => []AckedIsForwarded
<1>1. ElasticInv => AckedIsForwarded
  BY DEF ElasticInv
<1> QED
  BY <1>1, SpecElastic, PTL

\* A flow somebody wants is acked upstream: what the two iterators find by
\* prefixes, for a flow or for its group, is all that wants it (FlowTable,
\* MulticastFIB, ElasticMulticastController).
THEOREM WantedFlowIsAcked == Spec => []MemberIsAcked
<1>1. ElasticInv => MemberIsAcked
  BY DEF ElasticInv
<1> QED
  BY <1>1, SpecElastic, PTL

\* A flow that starts to be acked has an EM-ACK passed on in the same step if a
\* relay of it is known, but when a join of its group starts it (SetAckingStatus,
\* SendAck).
THEOREM AckedAtOnce == Spec => AcksRightAway
<1> DEFINE Answers == \A f \in DOMAIN fib' :
               \/ f \in Entries /\ fib[f].acking
               \/ fib'[f].acking /\ Known(fib'[f]) # {} => \E r \in Relay : << f, r >> \in acked'
               \/ \E g \in Group, i \in Iface : flags[On(g, i)] = {} /\ flags'[On(g, i)] # {}
<1>1. ASSUME ElasticInv, [Next]_vars PROVE [Answers]_vars
  BY <1>1, NextElastic DEF AnswersNow, Entries
<1>2. AcksRightAway <=> [][Answers]_vars
  BY DEF AcksRightAway
<1> HIDE DEF Answers
<1>3. ElasticInv /\ [Next]_vars => [Answers]_vars
  BY <1>1
<1> QED
  BY <1>2, <1>3, SpecElastic, PTL DEF Spec

-----------------------------------------------------------------------------
\* The table the entries and the memberships stand in: that its search
\* returns what matches

LEMMA BitsRise ==
    /\ \A i \in 1 .. 6 : Bits[i] \in Nat
    /\ \A i, j \in 1 .. 6 : i < j => Bits[i] < Bits[j]
  BY AddrAssumption DEF Bits

\* Every key has a depth.
LEMMA DepthFields ==
    ASSUME NEW k
    PROVE  /\ Depth(k) \in 0 .. 5
           /\ \A j \in 1 .. Depth(k) : k[j] # Open
           /\ Depth(k) < 5 => k[Depth(k) + 1] = Open
<1> DEFINE Is(n) == n \in 0 .. 5 /\ (\A j \in 1 .. n : k[j] # Open) /\ (n < 5 => k[n + 1] = Open)
<1>1. \A n : Is(n) => Depth(k) = n
  BY DepthIs
<1>2. Is(0) \/ Is(1) \/ Is(2) \/ Is(3) \/ Is(4) \/ Is(5)
  <2>1. CASE k[1] = Open
    BY <2>1
  <2>2. CASE k[1] # Open /\ k[2] = Open
    <3>1. \A j \in 1 .. 1 : k[j] # Open
      BY <2>2
    <3> QED
      BY <2>2, <3>1
  <2>3. CASE k[1] # Open /\ k[2] # Open /\ k[3] = Open
    <3>1. \A j \in 1 .. 2 : j = 1 \/ j = 2
      OBVIOUS
    <3> QED
      BY <2>3, <3>1
  <2>4. CASE k[1] # Open /\ k[2] # Open /\ k[3] # Open /\ k[4] = Open
    <3>1. \A j \in 1 .. 3 : j = 1 \/ j = 2 \/ j = 3
      OBVIOUS
    <3> QED
      BY <2>4, <3>1
  <2>5. CASE k[1] # Open /\ k[2] # Open /\ k[3] # Open /\ k[4] # Open /\ k[5] = Open
    <3>1. \A j \in 1 .. 4 : j = 1 \/ j = 2 \/ j = 3 \/ j = 4
      OBVIOUS
    <3> QED
      BY <2>5, <3>1
  <2>6. CASE k[1] # Open /\ k[2] # Open /\ k[3] # Open /\ k[4] # Open /\ k[5] # Open
    <3>1. \A j \in 1 .. 5 : j = 1 \/ j = 2 \/ j = 3 \/ j = 4 \/ j = 5
      OBVIOUS
    <3> QED
      BY <2>6, <3>1
  <2> QED
    BY <2>1, <2>2, <2>3, <2>4, <2>5, <2>6
<1>3. PICK n : Is(n)
  BY <1>2
<1> QED
  BY <1>1, <1>3

\* A prefix is longer the more fields it reaches.
LEMMA SizesFollowDepths ==
    ASSUME NEW k, NEW d
    PROVE  /\ PrefixSize(k) \in Nat /\ PrefixSize(k) \in Lengths
           /\ PrefixSize(k) < PrefixSize(d) <=> Depth(k) < Depth(d)
<1>1. Depth(k) + 1 \in 1 .. 6 /\ Depth(d) + 1 \in 1 .. 6
  BY DepthFields
<1>2. PrefixSize(k) = Bits[Depth(k) + 1] /\ PrefixSize(d) = Bits[Depth(d) + 1]
  BY DEF PrefixSize
<1> DEFINE m == Depth(k) + 1
           n == Depth(d) + 1
<1>3. Bits[m] \in Nat /\ Bits[n] \in Nat /\ (m < n => Bits[m] < Bits[n]) /\ (n < m => Bits[n] < Bits[m])
  <2>1. m \in 1 .. 6 /\ n \in 1 .. 6
    BY <1>1
  <2> HIDE DEF m, n
  <2> QED
    BY <2>1, BitsRise
<1>4. m < n <=> Depth(k) < Depth(d)
  BY DepthFields
<1>5. Bits[m] < Bits[n] <=> m < n
  <2>1. m \in Int /\ n \in Int
    BY <1>1
  <2> HIDE DEF m, n
  <2> QED
    BY <1>3, <2>1
<1> QED
  BY <1>1, <1>2, <1>3, <1>4, <1>5 DEF Lengths

\* Two keys agree on a prefix if they agree on the fields it reaches.
LEMMA AgreeOnPrefix ==
    ASSUME NEW k, NEW d, NEW e
    PROVE  Agree(k, d, PrefixSize(e)) <=> \A j \in 1 .. Depth(e) : k[j] = d[j]
  BY DepthFields, AgreeOn DEF PrefixSize

LEMMA SixLengths == IsFiniteSet(Lengths) /\ Cardinality(Lengths) = 6
<1> DEFINE n == 6
           f == [i \in 1 .. n |-> Bits[i]]
<1>1. n \in Nat /\ n = 6 /\ Lengths = {Bits[i] : i \in 1 .. n}
  BY DEF Lengths
<1>2. \A i \in 1 .. n : Bits[i] \in Nat
  BY BitsRise
<1>3. \A i, j \in 1 .. n : i # j => Bits[i] # Bits[j]
  <2>1. \A i, j \in 1 .. n : i < j \/ i = j \/ j < i
    OBVIOUS
  <2> QED
    BY <2>1, <1>2, BitsRise
<1> HIDE DEF n
<1>4. IsFiniteSet(1 .. n) /\ Cardinality(1 .. n) = n
  <2>1. ASSUME NEW a \in Int, NEW b \in Int
        PROVE  IsFiniteSet(a .. b) /\ (a <= b => Cardinality(a .. b) = b - a + 1)
    BY FS_Interval
  <2>2. 1 \in Int /\ n \in Int /\ 1 <= n /\ n - 1 + 1 = n
    BY <1>1
  <2> QED
    BY <2>1, <2>2
<1>5. f \in Bijection(1 .. n, Lengths)
  <2>1. f \in [1 .. n -> Lengths]
    BY <1>1
  <2>2. \A i, j \in 1 .. n : f[i] = f[j] => i = j
    BY <1>3
  <2>3. \A m \in Lengths : \E i \in 1 .. n : f[i] = m
    BY <1>1
  <2> HIDE DEF f
  <2> QED
    BY <2>1, <2>2, <2>3 DEF Bijection, Injection, IsInjective, Surjection
<1> HIDE DEF f
<1>6. ExistsBijection(1 .. n, Lengths)
  BY <1>5 DEF ExistsBijection
<1> QED
  BY <1>1, <1>4, <1>6, FS_Bijection

\* With one cell or two the hybrid search does not halve: it starts at the
\* last of them.
LEMMA SearchOfTwo ==
    ASSUME NEW list \in [Cells -> Nat], NEW length \in 1 .. 2, NEW value \in Nat,
           0 \in Cells, 1 \in Cells
    PROVE  /\ value = list[length - 1] => Search(list, length, value) = length - 1
           /\ length = 2 /\ value = list[0] /\ list[0] > list[1] => Search(list, length, value) = 0
<1> DEFINE Body(h) ==
               [delta \in 0 .. length |->
                  [index \in Int |->
                    IF delta <= 1 \/ list[index] = value THEN index
                    ELSE h[delta \div 2][IF value < list[index] THEN index + delta \div 2
                                                                ELSE index - delta \div 2]]]
           id == [index \in Int |-> index]
           g == [delta \in 0 .. length |->
                  [index \in Int |->
                    IF delta <= 1 \/ list[index] = value THEN index
                    ELSE id[IF value < list[index] THEN index + delta \div 2
                                                   ELSE index - delta \div 2]]]
           halve == CHOOSE h : h = Body(h)
           start == halve[length \div 2][length \div 2]
           below == {c \in Cells : c > start /\ list[c] <= value}
           above == {c \in Cells : c < start /\ list[c] >= value}
<1>1. g = Body(g)
  <2>1. ASSUME NEW delta \in 0 .. length, delta <= 1 PROVE g[delta] = id /\ Body(g)[delta] = id
    BY <2>1
  <2>2. ASSUME NEW delta \in 0 .. length, ~(delta <= 1) PROVE g[delta] = Body(g)[delta]
    <3>1. delta \div 2 = 1 /\ 1 \in 0 .. length
      BY <2>2
    <3>2. g[delta \div 2] = id
      BY <3>1, <2>1
    <3> QED
      BY <3>2
  <2>3. \A delta \in 0 .. length : g[delta] = Body(g)[delta]
    BY <2>1, <2>2
  <2> QED
    BY <2>3
<1>2. halve = Body(halve)
  <2> HIDE DEF g, Body
  <2> QED
    BY <1>1
<1>3. length \div 2 \in 0 .. length /\ length \div 2 <= 1 /\ length \div 2 \in Int
      /\ length \div 2 = length - 1
  <2>1. length = 1 \/ length = 2
    OBVIOUS
  <2> QED
    BY <2>1
<1>4. Body(halve)[length \div 2] = id
  BY <1>3
<1>5. start = length - 1
  <2>1. halve[length \div 2] = id
    BY <1>2, <1>4
  <2> HIDE DEF halve
  <2> QED
    BY <2>1, <1>3
<1>6. Search(list, length, value) = IF value < list[start] THEN CHOOSE c \in below : \A b \in below : c <= b
                                    ELSE IF value > list[start] THEN CHOOSE c \in above : \A a \in above : c >= a
                                    ELSE start
  BY DEF Search
<1> HIDE DEF halve, start, below
<1>7. list[0] \in Nat /\ list[1] \in Nat
  OBVIOUS
<1>8. value = list[length - 1] => Search(list, length, value) = length - 1
  <2>1. ASSUME value = list[length - 1] PROVE Search(list, length, value) = length - 1
    BY <1>6, <1>5, <2>1
  <2> QED
    BY <2>1
<1>9. ASSUME length = 2, value = list[0], list[0] > list[1] PROVE Search(list, length, value) = 0
  <2>1. start = 1
    BY <1>5, <1>9
  <2>2. above = {0}
    <3>1. \A c \in Cells : c < 1 <=> c = 0
      BY DEF Cells
    <3> QED
      BY <2>1, <3>1, <1>7, <1>9
  <2> HIDE DEF above
  <2>3. Search(list, length, value) = CHOOSE c \in above : \A a \in above : c >= a
    BY <1>6, <2>1, <1>9, <1>7
  <2> QED
    BY <2>2, <2>3
<1> QED
  BY <1>8, <1>9

\* memmove of no byte moves nothing, of one byte a cell that is below 256.
LEMMA MoveNothing ==
    ASSUME NEW list \in [Cells -> Nat], NEW to, NEW from, to \in Cells
    PROVE  MoveBytes(list, to, from, 0) = list
<1>1. \A c \in Cells : ~ (c \in to .. to + 0 \div 2 - 1)
  BY DEF Cells
<1> QED
  BY <1>1 DEF MoveBytes

LEMMA MoveOne ==
    ASSUME NEW list \in [Cells -> 0 .. 255], NEW to \in Cells, NEW from \in Cells
    PROVE  MoveBytes(list, to, from, 1) = [list EXCEPT ![to] = list[from]]
<1>1. \A c \in Cells : ~ (c \in to .. to + 1 \div 2 - 1)
  BY DEF Cells
<1>2. 1 % 2 = 1 /\ to + 1 \div 2 = to /\ to - to + from = from
  BY DEF Cells
<1>3. (list[from] % 256) + 256 * (list[to] \div 256) = list[from]
  <2>1. list[from] \in 0 .. 255 /\ list[to] \in 0 .. 255
    OBVIOUS
  <2>2. \A x, y \in 0 .. 255 : (x % 256) + 256 * (y \div 256) = x
    OBVIOUS
  <2> QED
    BY <2>1, <2>2
<1>4. ASSUME NEW c \in Cells
      PROVE  (IF c \in to .. to + 1 \div 2 - 1 THEN list[c - to + from]
              ELSE IF 1 % 2 = 1 /\ c = to + 1 \div 2
              THEN (list[c - to + from] % 256) + 256 * (list[c] \div 256)
              ELSE list[c]) = [list EXCEPT ![to] = list[from]][c]
  <2>1. CASE c = to
    BY <1>1, <1>2, <1>3, <2>1
  <2>2. CASE c # to
    BY <1>1, <1>2, <2>2
  <2> QED
    BY <2>1, <2>2
<1> QED
  BY <1>4 DEF MoveBytes

\* What is assumed of a table: at most two lengths, which a byte holds.
FewLengths ==
    \A K \in KeySets : \E short, long \in Lengths :
        /\ short < 256 /\ long < 256
        /\ \A k \in K : PrefixSize(k) \in {short, long}

Listing == {PrefixSize(k) : k \in table}

\* How the list of a table with at most two lengths stands: with none, with
\* one, or with the longer before the shorter.
ShortList ==
    \/ list_length = 0 /\ Listing = {}
    \/ list_length = 1 /\ Listing = {mask_list[0]}
    \/ list_length = 2 /\ Listing = {mask_list[0], mask_list[1]} /\ mask_list[0] > mask_list[1]

InOrder ==
    /\ {mask_list[c] : c \in 0 .. list_length - 1} = Listing
    /\ \A c \in 0 .. list_length - 2 : mask_list[c] > mask_list[c + 1]

\* The inductive invariant: the list is exact, and no cell holds more than a
\* byte, so that memmove moves whole cells.
BytesListed == MaskListExact /\ mask_list \in [Cells -> 0 .. 255]

LEMMA FewCells == 0 \in Cells /\ 1 \in Cells /\ 2 \in Cells /\ 6 \in Cells
<1> DEFINE n == Cardinality(Lengths)
<1>1. n = 6
  BY SixLengths
<1>2. Cells = 0 .. n + 1
  BY DEF Cells
<1> HIDE DEF n
<1> QED
  BY <1>1, <1>2

LEMMA ExactIsShort ==
    ASSUME FewLengths, MaskListExact
    PROVE  ShortList
<1> DEFINE L == list_length
           Shown == {mask_list[c] : c \in 0 .. L - 1}
<1>1. Shown = Listing /\ \A c \in 0 .. L - 2 : mask_list[c] > mask_list[c + 1]
  BY DEF MaskListExact, Listing
<1>2. L \in 0 .. 6 /\ mask_list \in [Cells -> Nat]
  BY SixLengths DEF MaskListExact, TableTypeOK
<1>3. PICK short \in Lengths, long \in Lengths : \A k \in keys : PrefixSize(k) \in {short, long}
  BY DEF MaskListExact, TableTypeOK, FewLengths
<1>4. Listing \subseteq {short, long}
  BY <1>3 DEF MaskListExact, TableTypeOK, Listing
<1>5. mask_list[0] \in Nat /\ mask_list[1] \in Nat /\ mask_list[2] \in Nat
  BY <1>2, FewCells
<1>6. ASSUME L >= 3 PROVE FALSE
  <2>1. 0 \in 0 .. L - 1 /\ 1 \in 0 .. L - 1 /\ 2 \in 0 .. L - 1 /\ 0 \in 0 .. L - 2 /\ 1 \in 0 .. L - 2
    BY <1>2, <1>6
  <2>2. mask_list[0] > mask_list[0 + 1] /\ mask_list[1] > mask_list[1 + 1]
    BY <2>1, <1>1
  <2>3. mask_list[0] \in Shown /\ mask_list[1] \in Shown /\ mask_list[2] \in Shown
    BY <2>1
  <2>4. mask_list[0] \in {short, long} /\ mask_list[1] \in {short, long} /\ mask_list[2] \in {short, long}
    BY <2>3, <1>1, <1>4
  <2>5. mask_list[0] > mask_list[1] /\ mask_list[1] > mask_list[2]
    BY <2>2
  <2> QED
    BY <2>4, <2>5, <1>5
<1>7. CASE L = 0
  <2>1. 0 .. L - 1 = {}
    BY <1>7
  <2> QED
    BY <2>1, <1>1, <1>7 DEF ShortList
<1>8. CASE L = 1
  <2>1. 0 .. L - 1 = {0}
    BY <1>8
  <2>2. Shown = {mask_list[0]}
    BY <2>1
  <2> QED
    BY <2>2, <1>1, <1>8 DEF ShortList
<1>9. CASE L = 2
  <2>1. 0 .. L - 1 = {0, 1} /\ 0 \in 0 .. L - 2
    BY <1>9
  <2>2. Shown = {mask_list[0], mask_list[1]}
    BY <2>1
  <2>3. mask_list[0] > mask_list[0 + 1]
    BY <2>1, <1>1
  <2> QED
    BY <2>2, <2>3, <1>1, <1>9 DEF ShortList
<1> QED
  BY <1>2, <1>6, <1>7, <1>8, <1>9

\* And a list that stands so is exact.
LEMMA ShortIsExact == ShortList => InOrder
<1> SUFFICES ASSUME ShortList PROVE InOrder
  OBVIOUS
<1> DEFINE L == list_length
           Shown == {mask_list[c] : c \in 0 .. L - 1}
<1>1. CASE L = 0 /\ Listing = {}
  <2>1. 0 .. L - 1 = {} /\ 0 .. L - 2 = {}
    BY <1>1
  <2> QED
    BY <2>1, <1>1 DEF InOrder
<1>2. CASE L = 1 /\ Listing = {mask_list[0]}
  <2>1. 0 .. L - 1 = {0} /\ 0 .. L - 2 = {}
    BY <1>2
  <2>2. Shown = {mask_list[0]}
    BY <2>1
  <2> QED
    BY <2>1, <2>2, <1>2 DEF InOrder
<1>3. CASE L = 2 /\ Listing = {mask_list[0], mask_list[1]} /\ mask_list[0] > mask_list[1]
  <2>1. 0 .. L - 1 = {0, 1} /\ 0 .. L - 2 = {0}
    BY <1>3
  <2>2. Shown = {mask_list[0], mask_list[1]}
    BY <2>1
  <2> QED
    BY <2>1, <2>2, <1>3 DEF InOrder
<1> QED
  BY <1>1, <1>2, <1>3 DEF ShortList, InOrder

At(K, m) == {k \in K : PrefixSize(k) = m}

LEMMA TableIsFinite ==
    ASSUME TableTypeOK
    PROVE  IsFiniteSet(table) /\ \A K \in SUBSET table : \A m : IsFiniteSet(At(K, m)) /\ Cardinality(At(K, m)) \in Nat
<1>1. IsFiniteSet(table)
  BY KeyAssumption, FS_Subset DEF TableTypeOK
<1>2. ASSUME NEW K \in SUBSET table, NEW m PROVE IsFiniteSet(At(K, m)) /\ Cardinality(At(K, m)) \in Nat
  <2>1. At(K, m) \subseteq table
    BY DEF At
  <2> QED
    BY <1>1, <2>1, FS_Subset, FS_CardinalityType
<1> QED
  BY <1>1, <1>2

\* A length is counted as long as an entry has it.
LEMMA CountedIsListed ==
    ASSUME MaskListExact, NEW m \in Lengths
    PROVE  /\ ref_count[m] \in Nat /\ (ref_count[m] > 0 <=> m \in Listing)
           /\ ref_count[m] = Cardinality(At(table, m))
<1>1. IsFiniteSet(At(table, m)) /\ Cardinality(At(table, m)) \in Nat /\ TableTypeOK
  BY TableIsFinite DEF MaskListExact
<1>2. ref_count[m] = Cardinality(At(table, m))
  BY DEF MaskListExact, At
<1>3. Cardinality(At(table, m)) = 0 <=> At(table, m) = {}
  BY <1>1, FS_EmptySet
<1>4. At(table, m) = {} <=> m \notin Listing
  BY DEF At, Listing
<1> QED
  BY <1>1, <1>2, <1>3, <1>4

LEMMA InitBytesListed ==
    ASSUME TableInit
    PROVE  BytesListed
<1>1. TableTypeOK
  <2>1. 0 \in 0 .. Cardinality(Lengths)
    BY SixLengths
  <2> QED
    BY <2>1 DEF TableInit, TableTypeOK
<1>2. ASSUME NEW m \in Lengths PROVE ref_count[m] = Cardinality({k \in table : PrefixSize(k) = m})
  <2>1. {k \in table : PrefixSize(k) = m} = {}
    BY DEF TableInit
  <2> QED
    BY <2>1, FS_EmptySet DEF TableInit
<1>3. ShortList
  BY DEF ShortList, TableInit, Listing
<1>4. MaskListExact
  BY <1>1, <1>2, <1>3, ShortIsExact DEF MaskListExact, InOrder, Listing
<1> QED
  BY <1>4 DEF BytesListed, TableInit

\* A length is put in its place: alone, before a shorter one, or after a
\* longer one.
LEMMA LengthEntered ==
    ASSUME FewLengths, BytesListed, NEW k \in TableKey, InsertEntry(k)
    PROVE  /\ ShortList'
           /\ mask_list' \in [Cells -> 0 .. 255]
<1> DEFINE p == PrefixSize(k)
<1>1. p \in Lengths /\ p \in Nat
  BY SizesFollowDepths
<1>2. PICK short \in Lengths, long \in Lengths :
          short < 256 /\ long < 256 /\ \A j \in keys : PrefixSize(j) \in {short, long}
  BY DEF BytesListed, MaskListExact, TableTypeOK, FewLengths
<1>3. p \in {short, long} /\ p \in 0 .. 255
  BY <1>1, <1>2 DEF InsertEntry
<1>4. ShortList
  BY ExactIsShort DEF BytesListed
<1>5. Listing' = Listing \cup {p} /\ Listing \subseteq {short, long}
  BY <1>2 DEF Listing, InsertEntry, BytesListed, MaskListExact, TableTypeOK
<1>6. ref_count[p] > 0 <=> p \in Listing
  BY <1>1, CountedIsListed DEF BytesListed
<1>7. mask_list \in [Cells -> 0 .. 255] /\ mask_list[0] \in 0 .. 255 /\ mask_list[1] \in 0 .. 255
  BY FewCells DEF BytesListed
<1>8. IF ref_count[p] > 0 \/ Listed(p) THEN UNCHANGED << mask_list, list_length >>
      ELSE mask_list' = Inserted(p) /\ list_length' = list_length + 1
  BY DEF InsertEntry, InsertLength
<1> HIDE DEF p
<1>9. CASE p \in Listing
  <2>1. Listing' = Listing
    BY <1>5, <1>9
  <2>2. UNCHANGED << mask_list, list_length >>
    BY <1>6, <1>8, <1>9
  <2> QED
    BY <2>1, <2>2, <1>4, <1>7 DEF ShortList
<1>10. CASE p \notin Listing /\ list_length = 0 /\ Listing = {}
  <2>1. ~ Listed(p)
    BY <1>10 DEF Listed
  <2>2. mask_list' = [mask_list EXCEPT ![0] = p] /\ list_length' = 1
    BY <1>6, <1>8, <1>10, <2>1 DEF Inserted
  <2>3. Listing' = {p} /\ mask_list'[0] = p
    BY <1>5, <1>10, <2>2, <1>7, FewCells
  <2> QED
    BY <2>2, <2>3, <1>3, <1>7 DEF ShortList
<1>11. CASE p \notin Listing /\ list_length = 1 /\ Listing = {mask_list[0]}
  <2>1. ~ Listed(p)
    <3>1. ~ (p \in mask_list[0] .. mask_list[0])
      BY <1>11, <1>7
    <3>2. list_length - 1 = 0
      BY <1>11
    <3> QED
      BY <3>1, <3>2 DEF Listed
  <2>2. mask_list' = Inserted(p) /\ list_length' = 2
    BY <1>6, <1>8, <1>11, <2>1
  <2>3. Listing' = {mask_list[0], p} /\ p # mask_list[0]
    BY <1>5, <1>11
  <2>4. CASE p > mask_list[0]
    <3>1. mask_list' = [MoveBytes(mask_list, 1, 0, 1) EXCEPT ![0] = p]
      BY <2>2, <2>4, <1>11 DEF Inserted, PutAt
    <3>2. MoveBytes(mask_list, 1, 0, 1) = [mask_list EXCEPT ![1] = mask_list[0]]
      BY <1>7, FewCells, MoveOne
    <3>3. mask_list'[0] = p /\ mask_list'[1] = mask_list[0] /\ mask_list' \in [Cells -> 0 .. 255]
      BY <3>1, <3>2, <1>3, <1>7, FewCells
    <3> QED
      BY <3>3, <2>2, <2>3, <2>4 DEF ShortList
  <2>5. CASE p < mask_list[0]
    <3>1. ~ (p > mask_list[0]) /\ list_length - 1 = 0 /\ list_length # 0
      BY <2>5, <1>3, <1>7, <1>11
    <3>2. mask_list' = [mask_list EXCEPT ![1] = p]
      BY <2>2, <2>5, <3>1, <1>11 DEF Inserted
    <3>3. mask_list'[0] = mask_list[0] /\ mask_list'[1] = p /\ mask_list' \in [Cells -> 0 .. 255]
      BY <3>2, <1>3, <1>7, FewCells
    <3> QED
      BY <3>3, <2>2, <2>3, <2>5, <1>3, <1>7 DEF ShortList
  <2> QED
    BY <2>3, <2>4, <2>5, <1>3, <1>7
<1>12. ~ (list_length = 2 /\ Listing = {mask_list[0], mask_list[1]} /\ mask_list[0] > mask_list[1]
          /\ p \notin Listing)
  <2>1. ASSUME Listing = {mask_list[0], mask_list[1]}, mask_list[0] > mask_list[1], p \notin Listing
        PROVE  FALSE
    <3>1. mask_list[0] \in {short, long} /\ mask_list[1] \in {short, long}
      BY <2>1, <1>5
    <3>2. mask_list[0] # mask_list[1]
      BY <2>1, <1>7
    <3>3. p # mask_list[0] /\ p # mask_list[1]
      BY <2>1
    <3> QED
      BY <3>1, <3>2, <3>3, <1>3
  <2> QED
    BY <2>1
<1>13. \/ list_length = 0 /\ Listing = {}
       \/ list_length = 1 /\ Listing = {mask_list[0]}
       \/ list_length = 2 /\ Listing = {mask_list[0], mask_list[1]} /\ mask_list[0] > mask_list[1]
  BY <1>4 DEF ShortList
<1> QED
  BY <1>9, <1>10, <1>11, <1>12, <1>13

\* The last entry of a length takes it out: the longer, the shorter, or the
\* only one.
LEMMA LengthLeft ==
    ASSUME FewLengths, BytesListed, NEW k \in TableKey, RemoveEntry(k)
    PROVE  /\ ShortList'
           /\ mask_list' \in [Cells -> 0 .. 255]
           /\ ref_count' = [ref_count EXCEPT ![PrefixSize(k)] = @ - 1]
<1> DEFINE p == PrefixSize(k)
           L == list_length
           index == Search(mask_list, L, p)
<1>1. p \in Lengths /\ p \in Nat /\ p \in Listing
  BY SizesFollowDepths DEF Listing, RemoveEntry
<1>2. ShortList
  BY ExactIsShort DEF BytesListed
<1>3. TableTypeOK /\ MaskListExact
  BY DEF BytesListed, MaskListExact
<1>4. /\ ref_count[p] \in Nat /\ ref_count[p] > 0 /\ ref_count[p] = Cardinality(At(table, p))
      /\ Cardinality(At(table', p)) = ref_count[p] - 1
  <2>1. IsFiniteSet(At(table, p)) /\ k \in At(table, p) /\ Cardinality(At(table, p)) \in Nat
    BY <1>3, TableIsFinite DEF At, RemoveEntry
  <2>2. At(table', p) = At(table, p) \ {k}
    BY DEF At, RemoveEntry
  <2> QED
    BY <2>1, <2>2, <1>1, <1>3, CountedIsListed, FS_RemoveElement
<1>5. mask_list \in [Cells -> 0 .. 255] /\ mask_list \in [Cells -> Nat]
      /\ mask_list[0] \in 0 .. 255 /\ mask_list[1] \in 0 .. 255
  BY FewCells DEF BytesListed
<1>6. \A m \in Lengths : m # p => (m \in Listing' <=> m \in Listing)
  BY DEF Listing, RemoveEntry
<1>7. p \in Listing' <=> ref_count[p] > 1
  <2>1. p \in Listing' <=> At(table', p) # {}
    BY DEF At, Listing
  <2>2. IsFiniteSet(At(table', p))
    <3>1. table' \in SUBSET table
      BY DEF RemoveEntry
    <3> QED
      BY <3>1, <1>3, TableIsFinite
  <2>3. At(table', p) = {} <=> Cardinality(At(table', p)) = 0
    BY <2>2, FS_EmptySet
  <2> QED
    BY <2>1, <2>3, <1>4
<1>8. Listing' \subseteq Lengths /\ Listing \subseteq Lengths
  <2>1. \A j : PrefixSize(j) \in Lengths
    BY SizesFollowDepths
  <2> QED
    BY <2>1 DEF Listing
<1>9. Listing' = IF ref_count[p] > 1 THEN Listing ELSE Listing \ {p}
  <2> HIDE DEF p
  <2>1. ASSUME NEW m \in Lengths
        PROVE  m \in Listing' <=> m \in Listing /\ (m = p => ref_count[p] > 1)
    <3>1. CASE m = p
      BY <3>1, <1>1, <1>7
    <3>2. CASE m # p
      BY <3>2, <1>6
    <3> QED
      BY <3>1, <3>2
  <2>2. CASE ref_count[p] > 1
    BY <2>1, <2>2, <1>8
  <2>3. CASE ~ (ref_count[p] > 1)
    BY <2>1, <2>3, <1>8
  <2> QED
    BY <2>2, <2>3
<1>10. RemoveLength(p)
  BY DEF RemoveEntry
<1> HIDE DEF p, index
<1>11. L \in 1 .. 2 /\ p \in mask_list[L - 1] .. mask_list[0] /\ Listed(p)
       /\ index \in 0 .. L - 1 /\ mask_list[index] = p
  <2>1. CASE L = 1 /\ Listing = {mask_list[0]}
    <3>1. index = 0
      BY <2>1, <1>1, <1>5, FewCells, SearchOfTwo DEF index
    <3> QED
      BY <3>1, <2>1, <1>1, <1>5 DEF Listed, index
  <2>2. CASE L = 2 /\ Listing = {mask_list[0], mask_list[1]} /\ mask_list[0] > mask_list[1]
    <3>1. CASE p = mask_list[1]
      <4>1. index = 1
        BY <3>1, <2>2, <1>1, <1>5, FewCells, SearchOfTwo DEF index
      <4> QED
        BY <4>1, <3>1, <2>2, <1>1, <1>5 DEF Listed, index
    <3>2. CASE p = mask_list[0]
      <4>1. index = 0
        BY <3>2, <2>2, <1>1, <1>5, FewCells, SearchOfTwo DEF index
      <4> QED
        BY <4>1, <3>2, <2>2, <1>1, <1>5 DEF Listed, index
    <3> QED
      BY <3>1, <3>2, <2>2, <1>1
  <2> QED
    BY <2>1, <2>2, <1>1, <1>2 DEF ShortList
<1>12. /\ ref_count' = [ref_count EXCEPT ![p] = @ - 1]
       /\ IF ref_count[p] = 1
          THEN /\ mask_list' = MoveBytes(mask_list, index, index + 1, L - index - 1)
               /\ list_length' = L - 1
          ELSE UNCHANGED << mask_list, list_length >>
  BY <1>4, <1>10, <1>11 DEF RemoveLength, index
<1>13. CASE ref_count[p] > 1
  BY <1>2, <1>5, <1>9, <1>12, <1>13 DEF ShortList, p
<1>14. CASE ref_count[p] = 1 /\ L = 1
  <2>1. index \in 0 .. L - 1
    BY <1>11
  <2>2. index = 0 /\ L - index - 1 = 0
    <3>1. 0 .. L - 1 = {0}
      BY <1>14
    <3>2. index = 0
      BY <2>1, <3>1
    <3> QED
      BY <1>14, <3>2
  <2>3. index \in Cells
    BY <2>2, FewCells
  <2>4. mask_list' = mask_list /\ list_length' = 0
    BY <2>2, <2>3, <1>12, <1>14, <1>5, MoveNothing
  <2>5. Listing' = {}
    BY <1>9, <1>14, <1>2, <1>1 DEF ShortList
  <2> QED
    BY <2>4, <2>5, <1>5, <1>12 DEF ShortList, p
<1>15. CASE ref_count[p] = 1 /\ L = 2
  <2>1. Listing = {mask_list[0], mask_list[1]} /\ mask_list[0] > mask_list[1]
    BY <1>15, <1>2 DEF ShortList
  <2>2. list_length' = 1
    BY <1>12, <1>15
  <2>3. CASE index = 1
    <3>1. L - index - 1 = 0 /\ index \in Cells
      BY <2>3, <1>15, FewCells
    <3>2. mask_list' = mask_list
      BY <3>1, <1>12, <1>15, <1>5, MoveNothing
    <3>3. Listing' = {mask_list[0]}
      BY <1>9, <1>15, <2>1, <1>11, <2>3, <1>5
    <3> QED
      BY <3>2, <3>3, <2>2, <1>5, <1>12 DEF ShortList, p
  <2>4. CASE index = 0
    <3>1. L - index - 1 = 1 /\ index + 1 = 1
      BY <2>4, <1>15
    <3>2. mask_list' = [mask_list EXCEPT ![0] = mask_list[1]]
      BY <3>1, <2>4, <1>12, <1>15, <1>5, FewCells, MoveOne
    <3>3. Listing' = {mask_list[1]}
      BY <1>9, <1>15, <2>1, <1>11, <2>4, <1>5
    <3>4. mask_list'[0] = mask_list[1] /\ mask_list' \in [Cells -> 0 .. 255]
      BY <3>2, <1>5, FewCells
    <3> QED
      BY <3>3, <3>4, <2>2, <1>12 DEF ShortList, p
  <2> QED
    BY <2>3, <2>4, <1>11, <1>15
<1> QED
  BY <1>4, <1>11, <1>13, <1>14, <1>15

LEMMA EntryCounted ==
    ASSUME FewLengths, BytesListed, NEW k \in TableKey, InsertEntry(k)
    PROVE  BytesListed'
<1> DEFINE p == PrefixSize(k)
<1>1. TableTypeOK /\ MaskListExact /\ k \in keys /\ k \notin table
  BY DEF BytesListed, MaskListExact, InsertEntry
<1>2. ShortList' /\ mask_list' \in [Cells -> 0 .. 255]
  BY LengthEntered
<1>3. p \in Lengths
  BY SizesFollowDepths
<1>4. ref_count' = [ref_count EXCEPT ![p] = @ + 1] /\ table' = table \cup {k} /\ keys' = keys
  BY DEF InsertEntry, InsertLength
<1>5. ASSUME NEW m \in Lengths
      PROVE  ref_count'[m] = Cardinality({j \in table' : PrefixSize(j) = m})
  <2>1. IsFiniteSet(At(table, m)) /\ ref_count[m] = Cardinality(At(table, m)) /\ ref_count[m] \in Nat
    BY <1>1, TableIsFinite, CountedIsListed
  <2>2. CASE m = p
    <3>1. At(table', m) = At(table, m) \cup {k} /\ k \notin At(table, m)
      BY <1>1, <1>4, <2>2 DEF At
    <3>2. Cardinality(At(table', m)) = ref_count[m] + 1
      BY <2>1, <3>1, FS_AddElement
    <3>3. ref_count'[m] = ref_count[m] + 1
      BY <1>1, <1>3, <1>4, <2>2 DEF TableTypeOK
    <3> QED
      BY <3>2, <3>3 DEF At
  <2>3. CASE m # p
    <3>1. At(table', m) = At(table, m)
      BY <1>4, <2>3 DEF At
    <3>2. ref_count'[m] = ref_count[m]
      BY <1>1, <1>4, <2>3 DEF TableTypeOK
    <3> QED
      BY <2>1, <3>1, <3>2 DEF At
  <2> QED
    BY <2>2, <2>3
<1>6. TableTypeOK'
  <2>1. ref_count' \in [Lengths -> Nat]
    BY <1>1, <1>3, <1>4 DEF TableTypeOK
  <2>2. list_length' \in 0 .. Cardinality(Lengths)
    <3>1. list_length' \in 0 .. 6
      BY <1>2 DEF ShortList
    <3> QED
      BY <3>1, SixLengths
  <2>3. mask_list' \in [Cells -> Nat]
    BY <1>2
  <2> QED
    BY <1>1, <1>4, <2>1, <2>2, <2>3 DEF TableTypeOK
<1>7. ShortList' => InOrder'
  BY ShortIsExact, PTL
<1> QED
  BY <1>2, <1>5, <1>6, <1>7 DEF BytesListed, MaskListExact, InOrder, Listing

LEMMA EntryUncounted ==
    ASSUME FewLengths, BytesListed, NEW k \in TableKey, RemoveEntry(k)
    PROVE  BytesListed'
<1> DEFINE p == PrefixSize(k)
<1>1. TableTypeOK /\ MaskListExact /\ k \in table
  BY DEF BytesListed, MaskListExact, RemoveEntry
<1>2. ShortList' /\ mask_list' \in [Cells -> 0 .. 255] /\ ref_count' = [ref_count EXCEPT ![p] = @ - 1]
  BY LengthLeft
<1>3. p \in Lengths
  BY SizesFollowDepths
<1>4. table' = table \ {k} /\ keys' = keys
  BY DEF RemoveEntry
<1>5. ASSUME NEW m \in Lengths
      PROVE  ref_count'[m] \in Nat /\ ref_count'[m] = Cardinality({j \in table' : PrefixSize(j) = m})
  <2>1. IsFiniteSet(At(table, m)) /\ ref_count[m] = Cardinality(At(table, m)) /\ ref_count[m] \in Nat
    BY <1>1, TableIsFinite, CountedIsListed
  <2>2. CASE m = p
    <3>1. At(table', m) = At(table, m) \ {k} /\ k \in At(table, m)
      BY <1>1, <1>4, <2>2 DEF At
    <3>2. Cardinality(At(table', m)) = ref_count[m] - 1 /\ IsFiniteSet(At(table', m))
      BY <2>1, <3>1, FS_RemoveElement
    <3>3. ref_count'[m] = ref_count[m] - 1
      BY <1>1, <1>2, <1>3, <2>2 DEF TableTypeOK
    <3>4. Cardinality(At(table', m)) \in Nat
      BY <3>2, FS_CardinalityType
    <3> QED
      BY <3>2, <3>3, <3>4 DEF At
  <2>3. CASE m # p
    <3>1. At(table', m) = At(table, m)
      BY <1>4, <2>3 DEF At
    <3>2. ref_count'[m] = ref_count[m]
      BY <1>1, <1>2, <2>3 DEF TableTypeOK
    <3> QED
      BY <2>1, <3>1, <3>2 DEF At
  <2> QED
    BY <2>2, <2>3
<1>6. TableTypeOK'
  <2>1. ref_count' \in [Lengths -> Nat]
    <3>1. DOMAIN ref_count' = Lengths /\ ref_count' = [m \in Lengths |-> ref_count'[m]]
      BY <1>1, <1>2 DEF TableTypeOK
    <3> QED
      BY <3>1, <1>5
  <2>2. list_length' \in 0 .. Cardinality(Lengths)
    <3>1. list_length' \in 0 .. 6
      BY <1>2 DEF ShortList
    <3> QED
      BY <3>1, SixLengths
  <2>3. mask_list' \in [Cells -> Nat]
    BY <1>2
  <2> QED
    BY <1>1, <1>4, <2>1, <2>2, <2>3 DEF TableTypeOK
<1>7. ShortList' => InOrder'
  BY ShortIsExact, PTL
<1> QED
  BY <1>2, <1>5, <1>6, <1>7 DEF BytesListed, MaskListExact, InOrder, Listing

LEMMA BytesListedInv == FewLengths /\ TableSpec => []BytesListed
<1> SUFFICES ASSUME FewLengths PROVE TableSpec => []BytesListed
  OBVIOUS
<1>1. TableInit => BytesListed
  BY InitBytesListed
<1>2. BytesListed /\ [TableNext]_tableVars => BytesListed'
  <2> SUFFICES ASSUME BytesListed, [TableNext]_tableVars PROVE BytesListed'
    OBVIOUS
  <2>1. CASE TableNext
    BY <2>1, EntryCounted, EntryUncounted DEF TableNext
  <2>2. CASE UNCHANGED tableVars
    BY <2>2 DEF BytesListed, MaskListExact, TableTypeOK, tableVars
  <2> QED
    BY <2>1, <2>2
<1> QED
  BY <1>1, <1>2, PTL DEF TableSpec

\* The list of a table with at most two lengths, each below 256, stays exact.
THEOREM FewLengthsListed == FewLengths /\ TableSpec => []MaskListExact
<1>1. BytesListed => MaskListExact
  BY DEF BytesListed
<1> QED
  BY <1>1, BytesListedInv, PTL

-----------------------------------------------------------------------------
\* The search, in any table whose list is exact

LEMMA LongestFirst ==
    ASSUME MaskListExact
    PROVE  /\ list_length \in 0 .. 6
           /\ \A c \in 0 .. list_length - 1 : mask_list[c] \in Nat
           /\ \A c, e \in 0 .. list_length - 1 : c < e => mask_list[c] > mask_list[e]
<1> DEFINE n == 6
           N == 0 .. n - 1
<1>1. list_length \in 0 .. 6 /\ mask_list \in [Cells -> Nat]
  BY SixLengths DEF MaskListExact, TableTypeOK
<1>2. N \subseteq Cells /\ n \in Nat /\ n = 6
  BY SixLengths DEF Cells
<1>3. \A c \in 0 .. list_length - 1 : c \in N
  BY <1>1
<1>4. \A c \in N : mask_list[c] \in Nat
  BY <1>1, <1>2
<1>5. \A c \in 0 .. list_length - 2 : mask_list[c] > mask_list[c + 1]
  BY DEF MaskListExact
<1>6. ASSUME NEW c \in 0 .. list_length - 1, NEW e \in 0 .. list_length - 1, c < e
      PROVE  mask_list[c] > mask_list[e]
  <2>1. /\ mask_list[0] \in Nat /\ mask_list[1] \in Nat /\ mask_list[2] \in Nat
        /\ mask_list[3] \in Nat /\ mask_list[4] \in Nat /\ mask_list[5] \in Nat
    BY <1>4
  <2>2. /\ list_length >= 2 => mask_list[0] > mask_list[1]
        /\ list_length >= 3 => mask_list[1] > mask_list[2]
        /\ list_length >= 4 => mask_list[2] > mask_list[3]
        /\ list_length >= 5 => mask_list[3] > mask_list[4]
        /\ list_length >= 6 => mask_list[4] > mask_list[5]
    BY <1>1, <1>5
  <2>3. c \in {0, 1, 2, 3, 4} /\ e \in {1, 2, 3, 4, 5} /\ e < list_length /\ c < e
    BY <1>1, <1>6
  <2>4. list_length \in Int
    BY <1>1
  <2> QED
    BY <2>1, <2>2, <2>3, <2>4
<1> QED
  BY <1>1, <1>3, <1>4, <1>6

\* The list from the first length that is shorter: every length of an entry
\* that is shorter, longest first.
LEMMA ShorterLengths ==
    ASSUME MaskListExact, NEW p \in Nat
    PROVE  /\ Len(Shorter(p)) \in Nat /\ Shorter(p) \in Seq(Nat)
           /\ \A i \in 1 .. Len(Shorter(p)) : Shorter(p)[i] \in Nat /\ Shorter(p)[i] < p
           /\ \A i, j \in 1 .. Len(Shorter(p)) : i < j => Shorter(p)[i] > Shorter(p)[j]
           /\ \A k \in table : PrefixSize(k) < p =>
                \E i \in 1 .. Len(Shorter(p)) : PrefixSize(k) = Shorter(p)[i]
<1> DEFINE L == list_length
           short == {i \in 0 .. L - 1 : mask_list[i] < p}
           first == CHOOSE i \in short : \A j \in short : i <= j
           n == L - first
           tail == [i \in 1 .. n |-> mask_list[first + i - 1]]
<1>1. L \in 0 .. 6 /\ \A c \in 0 .. L - 1 : mask_list[c] \in Nat
  BY LongestFirst
<1>2. \A c, e \in 0 .. L - 1 : c < e => mask_list[c] > mask_list[e]
  BY LongestFirst
<1>3. ASSUME NEW k \in table
      PROVE  \E c \in 0 .. L - 1 : PrefixSize(k) = mask_list[c]
  BY DEF MaskListExact
<1>4. Shorter(p) = IF short = {} THEN << >> ELSE tail
  BY DEF Shorter
<1> HIDE DEF L
<1>5. CASE short = {}
  <2>1. Shorter(p) = << >>
    BY <1>4, <1>5
  <2>2. \A k \in table : ~ (PrefixSize(k) < p)
    BY <1>3, <1>5
  <2>3. << >> \in Seq(Nat) /\ Len(<< >>) = 0 /\ 1 .. 0 = {}
    OBVIOUS
  <2> QED
    BY <2>1, <2>2, <2>3
<1>6. CASE short # {}
  <2>1. \E i \in short : \A j \in short : i <= j
    <3>1. \A i \in short : i \in 0 .. 5
      BY <1>1
    <3> HIDE DEF short
    <3>2. \/ 0 \in short
          \/ 0 \notin short /\ 1 \in short
          \/ 0 \notin short /\ 1 \notin short /\ 2 \in short
          \/ 0 \notin short /\ 1 \notin short /\ 2 \notin short /\ 3 \in short
          \/ 0 \notin short /\ 1 \notin short /\ 2 \notin short /\ 3 \notin short /\ 4 \in short
          \/ 0 \notin short /\ 1 \notin short /\ 2 \notin short /\ 3 \notin short /\ 4 \notin short /\ 5 \in short
      BY <3>1, <1>6
    <3> QED
      BY <3>1, <3>2
  <2>2. first \in short /\ \A j \in short : first <= j
    <3> HIDE DEF short
    <3> QED
      BY <2>1
  <2>3. first \in 0 .. L - 1 /\ mask_list[first] < p
    BY <2>2
  <2>4. \A j \in 0 .. L - 1 : mask_list[j] < p => first <= j
    BY <2>2
  <2> HIDE DEF first, short
  <2>5. n \in Nat /\ n >= 1
    BY <1>1, <2>3
  <2>6. ASSUME NEW i \in 1 .. n
        PROVE  first + i - 1 \in 0 .. L - 1 /\ first <= first + i - 1
    BY <1>1, <2>3
  <2>7. ASSUME NEW i \in 1 .. n
        PROVE  mask_list[first + i - 1] \in Nat /\ mask_list[first + i - 1] < p
    <3>1. first + i - 1 \in 0 .. L - 1 /\ (first + i - 1 = first \/ first < first + i - 1)
      BY <2>3, <2>6, <1>1
    <3>2. mask_list[first + i - 1] \in Nat /\ mask_list[first] \in Nat
      BY <3>1, <2>3, <1>1
    <3>3. first < first + i - 1 => mask_list[first] > mask_list[first + i - 1]
      BY <3>1, <2>3, <1>2
    <3>4. mask_list[first + i - 1] = mask_list[first] \/ mask_list[first] > mask_list[first + i - 1]
      BY <3>1, <3>3
    <3> QED
      BY <3>2, <3>4, <2>3
  <2>8. Shorter(p) = tail /\ tail \in Seq(Nat) /\ Len(tail) = n
    <3> HIDE DEF n
    <3> QED
      BY <1>4, <1>6, <2>5, <2>7
  <2>9. ASSUME NEW i \in 1 .. n, NEW j \in 1 .. n, i < j
        PROVE  mask_list[first + i - 1] > mask_list[first + j - 1]
    <3>1. first + i - 1 < first + j - 1
      BY <2>3, <2>9, <2>5
    <3> QED
      BY <3>1, <2>6, <1>2
  <2>10. ASSUME NEW k \in table, PrefixSize(k) < p
         PROVE  \E i \in 1 .. n : PrefixSize(k) = mask_list[first + i - 1]
    <3>1. PICK c \in 0 .. L - 1 : PrefixSize(k) = mask_list[c]
      BY <1>3
    <3>2. first <= c
      BY <3>1, <2>4, <2>10
    <3>3. c - first + 1 \in 1 .. n /\ first + (c - first + 1) - 1 = c
      BY <3>2, <2>3, <1>1
    <3> QED
      BY <3>1, <3>3
  <2> HIDE DEF n
  <2>11. \A i \in 1 .. n : tail[i] = mask_list[first + i - 1]
    OBVIOUS
  <2> HIDE DEF tail
  <2> QED
    BY <2>5, <2>7, <2>8, <2>9, <2>10, <2>11
<1> QED
  BY <1>5, <1>6

\* The entries of the first pass, and of the pass for a shorter prefix.
Whole(d, bimatch) == {k \in table : Fits(k, d, bimatch) /\ Agree(k, d, PrefixSize(d))}
WithPrefix(d, m) == {k \in table : Fits(k, d, TRUE) /\ PrefixSize(k) = m /\ Agree(k, d, m)}

\* An entry with a shorter prefix is open where the description is not.
LEMMA ShorterDisagrees ==
    ASSUME NEW k, NEW d, Depth(k) < Depth(d)
    PROVE  ~ Agree(k, d, PrefixSize(d))
<1>1. Depth(k) \in 0 .. 5 /\ Depth(d) \in 0 .. 5
  BY DepthFields
<1>2. Depth(k) + 1 \in 1 .. Depth(d) /\ Depth(k) < 5
  BY <1>1
<1>3. k[Depth(k) + 1] = Open /\ d[Depth(k) + 1] # Open
  BY <1>2, DepthFields
<1> QED
  BY <1>2, <1>3, AgreeOnPrefix

LEMMA PassesAre ==
    ASSUME MaskListExact, NEW d, NEW bimatch \in BOOLEAN
    PROVE  LET shorter == Shorter(PrefixSize(d))
           IN /\ DOMAIN Passes(d, bimatch) = 1 .. Len(shorter) + 1
              /\ Passes(d, bimatch)[1] = Whole(d, bimatch)
              /\ \A i \in 1 .. Len(shorter) :
                    Passes(d, bimatch)[i + 1] = IF bimatch THEN WithPrefix(d, shorter[i]) ELSE {}
<1> DEFINE p == PrefixSize(d)
           shorter == Shorter(p)
           n == Len(shorter)
           fit == {k \in table : Fits(k, d, bimatch)}
           whole == p > 0 /\ list_length > 0 /\ mask_list[0] < p
           top == IF whole THEN {} ELSE {k \in fit : Agree(k, d, p)}
           rest == [i \in 1 .. n |->
                       {k \in fit : bimatch /\ PrefixSize(k) = shorter[i] /\ Agree(k, d, shorter[i])}]
<1>1. Passes(d, bimatch) = << top >> \o rest
  BY DEF Passes
<1>2. p \in Nat
  BY SizesFollowDepths
<1>3. n \in Nat
  BY <1>2, ShorterLengths
<1>4. top = Whole(d, bimatch)
  <2>1. ASSUME whole PROVE Whole(d, bimatch) = {}
    <3>1. ASSUME NEW k \in table PROVE ~ Agree(k, d, p)
      <4>1. PICK c \in 0 .. list_length - 1 : PrefixSize(k) = mask_list[c]
        BY DEF MaskListExact
      <4>2. list_length \in Nat /\ mask_list[c] \in Nat /\ mask_list[0] \in Nat
            /\ (0 < c => mask_list[0] > mask_list[c])
        BY <2>1, LongestFirst
      <4>3. c = 0 \/ 0 < c
        BY <4>2
      <4>4. PrefixSize(k) < p
        BY <4>1, <4>2, <4>3, <2>1, <1>2
      <4> QED
        BY <4>4, SizesFollowDepths, ShorterDisagrees
    <3> QED
      BY <3>1 DEF Whole
  <2>2. ASSUME ~ whole PROVE top = Whole(d, bimatch)
    BY <2>2 DEF Whole
  <2> QED
    BY <2>1, <2>2
<1>5. ASSUME NEW i \in 1 .. n
      PROVE  rest[i] = IF bimatch THEN WithPrefix(d, shorter[i]) ELSE {}
  <2>1. rest[i] = {k \in fit : bimatch /\ PrefixSize(k) = shorter[i] /\ Agree(k, d, shorter[i])}
    OBVIOUS
  <2>2. CASE bimatch = TRUE
    BY <2>1, <2>2 DEF WithPrefix
  <2>3. CASE bimatch = FALSE
    BY <2>1, <2>3
  <2> QED
    BY <2>2, <2>3
<1>6. rest \in Seq(SUBSET table) /\ Len(rest) = n /\ top \in SUBSET table
  <2>1. \A i \in 1 .. n : rest[i] \in SUBSET table
    OBVIOUS
  <2>2. top \in SUBSET table
    OBVIOUS
  <2>3. rest = [i \in 1 .. n |-> rest[i]]
    OBVIOUS
  <2> HIDE DEF rest, n, top
  <2> QED
    BY <2>1, <2>2, <2>3, <1>3
<1> HIDE DEF rest, n, top
<1>7. << top >> \in Seq(SUBSET table) /\ Len(<< top >>) = 1 /\ << top >>[1] = top
  BY <1>6
<1> DEFINE all == << top >> \o rest
<1>8. /\ Len(all) = n + 1 /\ all \in Seq(SUBSET table)
      /\ all[1] = top
      /\ \A i \in 1 .. n : all[i + 1] = rest[i]
  <2>1. Len(all) = Len(<< top >>) + Len(rest)
        /\ \A i \in 1 .. Len(<< top >>) + Len(rest) :
              all[i] = IF i <= Len(<< top >>) THEN << top >>[i] ELSE rest[i - Len(<< top >>)]
    BY <1>6, <1>7, ConcatProperties
  <2>2. all \in Seq(SUBSET table)
    BY <1>6, <1>7, ConcatProperties
  <2>3. Len(all) = n + 1
    BY <2>1, <1>6, <1>7, <1>3
  <2>4. 1 \in 1 .. 1 + n /\ \A i \in 1 .. n : i + 1 \in 1 .. 1 + n /\ ~(i + 1 <= 1) /\ i + 1 - 1 = i
    BY <1>3
  <2> HIDE DEF all
  <2> QED
    BY <2>1, <2>2, <2>3, <2>4, <1>6, <1>7
<1>9. DOMAIN all = 1 .. n + 1
  <2> HIDE DEF all
  <2> QED
    BY <1>8
<1> HIDE DEF all
<1>10. Passes(d, bimatch) = all
  BY <1>1 DEF all
<1> QED
  BY <1>4, <1>5, <1>8, <1>9, <1>10 DEF n

\* What an iterator returns for a description that leaves the interface open
\* is what matches it in the other four fields.
LEMMA OpenInterface ==
    ASSUME NEW d, d[5] = Open, NEW k, k[1] = Open => k[2] = Open
    PROVE  /\ Fits(k, d, FALSE) /\ Agree(k, d, PrefixSize(d)) <=> Matches(k, d, FALSE)
           /\ Fits(k, d, TRUE) /\ (Agree(k, d, PrefixSize(d)) \/ Agree(k, d, PrefixSize(k)))
                <=> Matches(k, d, TRUE)
<1> DEFINE m == Depth(k)
           n == Depth(d)
<1>1. /\ m \in 0 .. 5 /\ (\A j \in 1 .. m : k[j] # Open) /\ (m < 5 => k[m + 1] = Open)
      /\ n \in 0 .. 5 /\ (\A j \in 1 .. n : d[j] # Open) /\ (n < 5 => d[n + 1] = Open)
  BY DepthFields
<1>2. n <= 4
  <2>1. n = 5 => 5 \in 1 .. n
    OBVIOUS
  <2> QED
    BY <1>1, <2>1
<1>3. Agree(k, d, PrefixSize(d)) <=> \A j \in 1 .. n : k[j] = d[j]
  BY AgreeOnPrefix
<1>4. Agree(k, d, PrefixSize(k)) <=> \A j \in 1 .. m : k[j] = d[j]
  BY AgreeOnPrefix
<1> HIDE DEF m, n
<1>5. /\ n = 0 \/ 1 \in 1 .. n
      /\ n = 0 \/ n = 1 \/ 2 \in 1 .. n
      /\ m = 0 \/ 1 \in 1 .. m
      /\ m = 0 \/ m = 1 \/ 2 \in 1 .. m
  BY <1>1
<1>6. /\ n = 0 => d[1] = Open
      /\ n = 1 => d[2] = Open
      /\ m = 0 => k[1] = Open /\ k[2] = Open
      /\ m = 1 => k[2] = Open
  <2>1. 0 + 1 = 1 /\ 1 + 1 = 2 /\ 0 < 5 /\ 1 < 5
    OBVIOUS
  <2>2. (n = 0 => d[1] = Open) /\ (n = 1 => d[2] = Open)
    BY <1>1, <2>1
  <2>3. (m = 0 => k[1] = Open) /\ (m = 1 => k[2] = Open)
    BY <1>1, <2>1
  <2> QED
    BY <2>2, <2>3
<1>7. ASSUME NEW b \in BOOLEAN, Matches(k, d, b) PROVE Fits(k, d, b)
  BY <1>7 DEF Matches, Fits
<1>8. ASSUME NEW b \in BOOLEAN, Fits(k, d, b), \A j \in 1 .. n : k[j] = d[j] PROVE Matches(k, d, b)
  <2>1. d[1] = Open \/ k[1] = d[1]
    BY <1>5, <1>6, <1>8
  <2>2. d[2] = Open \/ k[2] = d[2] \/ (b /\ k[2] = Open)
    BY <1>5, <1>6, <1>8 DEF Fits
  <2>3. \A j \in 3 .. 4 : d[j] = Open \/ k[j] = d[j] \/ (b /\ k[j] = Open)
    <3>1. \A j \in 3 .. 4 : j = 3 \/ j = 4
      OBVIOUS
    <3> QED
      BY <1>8, <3>1 DEF Fits
  <2>4. \A j \in 1 .. 4 : j = 1 \/ j = 2 \/ j \in 3 .. 4
    OBVIOUS
  <2> QED
    BY <2>1, <2>2, <2>3, <2>4 DEF Matches
<1>9. ASSUME Fits(k, d, TRUE), \A j \in 1 .. m : k[j] = d[j] PROVE Matches(k, d, TRUE)
  <2>1. k[1] = Open \/ k[1] = d[1]
    BY <1>5, <1>6, <1>9
  <2>2. k[2] = Open \/ k[2] = d[2]
    BY <1>5, <1>6, <1>9
  <2>3. \A j \in 3 .. 4 : d[j] = Open \/ k[j] = d[j] \/ k[j] = Open
    <3>1. \A j \in 3 .. 4 : j = 3 \/ j = 4
      OBVIOUS
    <3> QED
      BY <1>9, <3>1 DEF Fits
  <2>4. \A j \in 1 .. 4 : j = 1 \/ j = 2 \/ j \in 3 .. 4
    OBVIOUS
  <2> QED
    BY <2>1, <2>2, <2>3, <2>4 DEF Matches
<1>10. ASSUME Matches(k, d, FALSE) PROVE \A j \in 1 .. n : k[j] = d[j]
  <2>1. \A j \in 1 .. n : j \in 1 .. 4
    BY <1>1, <1>2
  <2> QED
    BY <2>1, <1>1, <1>10 DEF Matches
<1>11. ASSUME Matches(k, d, TRUE)
       PROVE  (\A j \in 1 .. n : k[j] = d[j]) \/ (\A j \in 1 .. m : k[j] = d[j])
  <2>1. CASE n <= m
    <3>1. \A j \in 1 .. n : j \in 1 .. 4 /\ j \in 1 .. m
      BY <1>1, <1>2, <2>1
    <3> QED
      BY <3>1, <1>1, <1>11 DEF Matches
  <2>2. CASE m < n
    <3>1. \A j \in 1 .. m : j \in 1 .. 4 /\ j \in 1 .. n
      BY <1>1, <1>2, <2>2
    <3> QED
      BY <3>1, <1>1, <1>11 DEF Matches
  <2> QED
    BY <2>1, <2>2, <1>1
<1> QED
  BY <1>3, <1>4, <1>7, <1>8, <1>9, <1>10, <1>11

\* A longer prefix weighs as much, at least.
LEMMA WeightFollowsDepth ==
    ASSUME NEW k, NEW l, Depth(l) < Depth(k), l[1] = Open => l[2] = Open
    PROVE  Weight(l) <= Weight(k)
<1> DEFINE m == Depth(k)
           n == Depth(l)
<1>1. /\ m \in 0 .. 5 /\ (\A j \in 1 .. m : k[j] # Open)
      /\ n \in 0 .. 5 /\ (n < 5 => l[n + 1] = Open) /\ n < m
  BY DepthFields
<1> HIDE DEF m, n
<1>2. /\ k[1] # Open
      /\ m >= 2 => k[2] # Open
      /\ m >= 3 => k[3] # Open
      /\ m >= 4 => k[4] # Open
  <2>1. /\ 1 \in 1 .. m
        /\ m >= 2 => 2 \in 1 .. m
        /\ m >= 3 => 3 \in 1 .. m
        /\ m >= 4 => 4 \in 1 .. m
    BY <1>1
  <2> QED
    BY <1>1, <2>1
<1>3. /\ n = 0 => l[1] = Open /\ l[2] = Open
      /\ n = 1 => l[2] = Open
      /\ n = 2 => l[3] = Open
      /\ n = 3 => l[4] = Open
  <2>1. /\ n = 0 => n + 1 = 1 /\ n < 5
        /\ n = 1 => n + 1 = 2 /\ n < 5
        /\ n = 2 => n + 1 = 3 /\ n < 5
        /\ n = 3 => n + 1 = 4 /\ n < 5
    OBVIOUS
  <2> QED
    BY <1>1, <2>1
<1> DEFINE w(e, j) == IF e[j] = Open THEN 0 ELSE AddrBits
           v(e, j) == IF e[j] = Open THEN 1 ELSE 2
<1>4. Weight(k) = w(k, 1) + w(k, 2) + v(k, 3) + v(k, 4) /\ Weight(l) = w(l, 1) + w(l, 2) + v(l, 3) + v(l, 4)
  BY DEF Weight
<1>5. /\ w(k, 1) = AddrBits
      /\ w(k, 2) \in {0, AddrBits} /\ (m >= 2 => w(k, 2) = AddrBits)
      /\ v(k, 3) \in {1, 2} /\ (m >= 3 => v(k, 3) = 2)
      /\ v(k, 4) \in {1, 2} /\ (m >= 4 => v(k, 4) = 2)
      /\ w(l, 1) \in {0, AddrBits} /\ w(l, 2) \in {0, AddrBits}
      /\ v(l, 3) \in {1, 2} /\ v(l, 4) \in {1, 2}
      /\ (n = 0 => w(l, 1) = 0 /\ w(l, 2) = 0)
      /\ (n = 1 => w(l, 2) = 0)
      /\ (n = 2 => v(l, 3) = 1)
      /\ (n = 3 => v(l, 4) = 1)
  BY <1>2, <1>3
<1> HIDE DEF w, v
<1>6. AddrBits \in {32, 128} /\ m \in Int /\ n \in Int /\ n < m /\ n >= 0 /\ m <= 5
  BY <1>1, AddrAssumption
<1>7. w(l, 1) + w(l, 2) + v(l, 3) + v(l, 4) <= w(k, 1) + w(k, 2) + v(k, 3) + v(k, 4)
  BY <1>5, <1>6
<1> QED
  BY <1>4, <1>7

\* An entry agrees with all of the description's prefix, or with its own,
\* which is shorter: what the passes return is what matches.
LEMMA PassesReturn ==
    ASSUME MaskListExact, NEW d, NEW bimatch \in BOOLEAN
    PROVE  UNION {Passes(d, bimatch)[i] : i \in DOMAIN Passes(d, bimatch)}
               = IF bimatch THEN BiMatches(d, table) ELSE SubMatches(d, table)
<1> DEFINE p == PrefixSize(d)
           shorter == Shorter(p)
           n == Len(shorter)
           passes == Passes(d, bimatch)
           found == UNION {passes[i] : i \in DOMAIN passes}
<1>1. /\ DOMAIN passes = 1 .. n + 1
      /\ passes[1] = Whole(d, bimatch)
      /\ \A i \in 1 .. n : passes[i + 1] = IF bimatch THEN WithPrefix(d, shorter[i]) ELSE {}
  BY PassesAre
<1>2. p \in Nat
  BY SizesFollowDepths
<1>3. n \in Nat
  BY <1>2, ShorterLengths
<1>4. \A k \in table : PrefixSize(k) < p => \E i \in 1 .. n : PrefixSize(k) = shorter[i]
  BY <1>2, ShorterLengths
<1> HIDE DEF n, shorter, passes
<1>5. \A x : x \in found <=> x \in Whole(d, bimatch) \/ \E i \in 1 .. n : x \in passes[i + 1]
  <2>1. 1 \in 1 .. n + 1 /\ (\A i \in 1 .. n : i + 1 \in 1 .. n + 1)
    BY <1>3
  <2>2. \A i \in 1 .. n + 1 : i = 1 \/ (i - 1 \in 1 .. n /\ i = (i - 1) + 1)
    BY <1>3
  <2>3. ASSUME NEW x, x \in found PROVE x \in Whole(d, bimatch) \/ \E i \in 1 .. n : x \in passes[i + 1]
    <3>1. PICK i \in 1 .. n + 1 : x \in passes[i]
      BY <2>3, <1>1
    <3>2. CASE i = 1
      BY <3>1, <3>2, <1>1
    <3>3. CASE i - 1 \in 1 .. n /\ i = (i - 1) + 1
      <4> DEFINE e == i - 1
      <4>1. e \in 1 .. n /\ x \in passes[e + 1]
        BY <3>1, <3>3
      <4> HIDE DEF e
      <4> QED
        BY <4>1
    <3> QED
      BY <2>2, <3>2, <3>3
  <2>4. ASSUME NEW x, x \in Whole(d, bimatch) \/ \E i \in 1 .. n : x \in passes[i + 1] PROVE x \in found
    BY <2>1, <2>4, <1>1
  <2> QED
    BY <2>3, <2>4
<1>6. CASE bimatch = FALSE
  <2>1. \A i \in 1 .. n : passes[i + 1] = {}
    BY <1>1, <1>6
  <2>2. found = Whole(d, bimatch)
    BY <1>5, <2>1
  <2> QED
    BY <2>2, <1>6 DEF Whole, SubMatches, passes
<1>7. CASE bimatch = TRUE
  <2>1. \A i \in 1 .. n : passes[i + 1] = WithPrefix(d, shorter[i])
    BY <1>1, <1>7
  <2>2. ASSUME NEW k PROVE k \in found <=> k \in BiMatches(d, table)
    <3>1. ASSUME k \in found PROVE k \in BiMatches(d, table)
      <4>1. CASE k \in Whole(d, bimatch)
        BY <4>1, <1>7 DEF Whole, BiMatches
      <4>2. ASSUME NEW i \in 1 .. n, k \in passes[i + 1] PROVE k \in BiMatches(d, table)
        <5>1. k \in WithPrefix(d, shorter[i])
          BY <4>2, <2>1
        <5> QED
          BY <5>1 DEF WithPrefix, BiMatches
      <4> HIDE DEF found
      <4> QED
        BY <3>1, <4>1, <4>2, <1>5
    <3>2. ASSUME k \in BiMatches(d, table) PROVE k \in found
      <4>1. k \in table /\ Fits(k, d, TRUE) /\ (Agree(k, d, p) \/ Agree(k, d, PrefixSize(k)))
        BY <3>2 DEF BiMatches
      <4>2. CASE Agree(k, d, p)
        BY <4>1, <4>2, <1>5, <1>7 DEF Whole
      <4>3. CASE Agree(k, d, PrefixSize(k)) /\ ~ Agree(k, d, p)
        <5>1. Depth(k) < Depth(d)
          <6>1. Depth(k) \in 0 .. 5 /\ Depth(d) \in 0 .. 5
            BY DepthFields
          <6>2. ASSUME Depth(d) <= Depth(k) PROVE FALSE
            <7>1. \A j \in 1 .. Depth(d) : j \in 1 .. Depth(k)
              BY <6>1, <6>2
            <7> QED
              BY <7>1, <4>3, AgreeOnPrefix
          <6> QED
            BY <6>1, <6>2
        <5>2. PrefixSize(k) < p
          BY <5>1, SizesFollowDepths
        <5>3. PICK i \in 1 .. n : PrefixSize(k) = shorter[i]
          BY <5>2, <4>1, <1>4
        <5>4. k \in WithPrefix(d, shorter[i])
          BY <5>3, <4>1, <4>3 DEF WithPrefix
        <5> QED
          BY <5>4, <2>1, <1>5
      <4> QED
        BY <4>1, <4>2, <4>3
    <3> QED
      BY <3>1, <3>2
  <2>3. found = BiMatches(d, table)
    BY <2>2
  <2> QED
    BY <2>3, <1>7 DEF passes
<1> QED
  BY <1>6, <1>7

\* An entry returned by an earlier pass has a longer prefix than one returned
\* by a later pass.
LEMMA PassesDescend ==
    ASSUME MaskListExact, NEW d, NEW bimatch \in BOOLEAN,
           NEW i \in DOMAIN Passes(d, bimatch), NEW j \in DOMAIN Passes(d, bimatch), i < j,
           NEW k \in Passes(d, bimatch)[i], NEW l \in Passes(d, bimatch)[j]
    PROVE  Depth(l) < Depth(k)
<1> DEFINE p == PrefixSize(d)
           shorter == Shorter(p)
           n == Len(shorter)
           passes == Passes(d, bimatch)
<1>1. /\ DOMAIN passes = 1 .. n + 1
      /\ passes[1] = Whole(d, bimatch)
      /\ \A e \in 1 .. n : passes[e + 1] = IF bimatch THEN WithPrefix(d, shorter[e]) ELSE {}
  BY PassesAre
<1>2. p \in Nat /\ PrefixSize(k) \in Nat /\ PrefixSize(l) \in Nat
  BY SizesFollowDepths
<1>3. n \in Nat
  BY <1>2, ShorterLengths
<1>4. /\ \A e \in 1 .. n : shorter[e] \in Nat /\ shorter[e] < p
      /\ \A e, f \in 1 .. n : e < f => shorter[e] > shorter[f]
  BY <1>2, ShorterLengths
<1>5. i \in 1 .. n + 1 /\ j \in 1 .. n + 1 /\ k \in passes[i] /\ l \in passes[j]
  BY <1>1
<1> HIDE DEF p, n, shorter, passes
<1>6. ASSUME NEW e \in 2 .. n + 1, NEW x \in passes[e]
      PROVE  e - 1 \in 1 .. n /\ PrefixSize(x) = shorter[e - 1]
  <2> DEFINE f == e - 1
  <2>1. f \in 1 .. n /\ f + 1 = e
    BY <1>3
  <2> HIDE DEF f
  <2>2. x \in WithPrefix(d, shorter[f])
    BY <2>1, <1>1, <1>6
  <2> QED
    BY <2>1, <2>2 DEF WithPrefix, f
<1>7. j - 1 \in 1 .. n /\ PrefixSize(l) = shorter[j - 1]
  <2>1. j \in 2 .. n + 1
    BY <1>3, <1>5
  <2> QED
    BY <2>1, <1>5, <1>6
<1>8. PrefixSize(l) < PrefixSize(k)
  <2>1. CASE i = 1
    <3>1. Agree(k, d, PrefixSize(d))
      BY <2>1, <1>1, <1>5 DEF Whole
    <3>2. ~ (Depth(k) < Depth(d))
      BY <3>1, ShorterDisagrees
    <3>3. ~ (PrefixSize(k) < p)
      BY <3>2, SizesFollowDepths DEF p
    <3>4. PrefixSize(l) < p
      BY <1>4, <1>7
    <3> QED
      BY <3>3, <3>4, <1>2
  <2>2. CASE i \in 2 .. n + 1
    <3>1. i - 1 \in 1 .. n /\ PrefixSize(k) = shorter[i - 1]
      BY <2>2, <1>5, <1>6
    <3>2. i - 1 < j - 1
      BY <1>5
    <3>3. shorter[i - 1] > shorter[j - 1] /\ shorter[i - 1] \in Nat /\ shorter[j - 1] \in Nat
      BY <3>1, <3>2, <1>4, <1>7
    <3> QED
      BY <3>1, <3>3, <1>7
  <2>3. i = 1 \/ i \in 2 .. n + 1
    BY <1>3, <1>5
  <2> QED
    BY <2>1, <2>2, <2>3
<1> QED
  BY <1>8, SizesFollowDepths

\* What a best match is: an entry weighed in a pass that is searched, and none
\* weighed in one of them is heavier.
LEMMA BestMatchIs ==
    ASSUME NEW d, NEW deep \in BOOLEAN, NEW k \in BestMatches(d, deep)
    PROVE  LET passes == Passes(d, TRUE)
               hits == {i \in DOMAIN passes : \E l \in passes[i] : Weighed(l, d)}
           IN \E i \in hits :
                /\ k \in passes[i] /\ Weighed(k, d)
                /\ ~ deep => \A j \in hits : i <= j
                /\ \A l \in passes[i] : Weighed(l, d) => Weight(l) <= Weight(k)
                /\ deep => \A j \in hits : \A l \in passes[j] :
                             Weighed(l, d) => Weight(l) <= Weight(k)
<1> DEFINE passes == Passes(d, TRUE)
           hits == {i \in DOMAIN passes : \E l \in passes[i] : Weighed(l, d)}
           searched == IF deep THEN hits ELSE {i \in hits : \A j \in hits : i <= j}
           found == {l \in UNION {passes[i] : i \in searched} : Weighed(l, d)}
<1>1. k \in found /\ \A l \in found : Weight(l) <= Weight(k)
  BY DEF BestMatches
<1>2. PICK i \in searched : k \in passes[i]
  BY <1>1
<1>3. \A j \in searched : \A l \in passes[j] : Weighed(l, d) => Weight(l) <= Weight(k)
  BY <1>1
<1>4. i \in hits /\ Weighed(k, d) /\ (~ deep => \A j \in hits : i <= j) /\ (deep => searched = hits)
  BY <1>1, <1>2
<1> QED
  BY <1>2, <1>3, <1>4

LEMMA BestIsHeaviest ==
    ASSUME MaskListExact, NEW d, NEW deep \in BOOLEAN,
           NEW k \in BestMatches(d, deep), NEW l \in BiMatches(d, table), Weighed(l, d)
    PROVE  Weight(l) <= Weight(k)
<1> DEFINE passes == Passes(d, TRUE)
           hits == {i \in DOMAIN passes : \E x \in passes[i] : Weighed(x, d)}
<1>1. PICK i \in hits :
        /\ k \in passes[i] /\ Weighed(k, d)
        /\ ~ deep => \A j \in hits : i <= j
        /\ \A x \in passes[i] : Weighed(x, d) => Weight(x) <= Weight(k)
        /\ deep => \A j \in hits : \A x \in passes[j] : Weighed(x, d) => Weight(x) <= Weight(k)
  BY BestMatchIs
<1>2. PICK j \in DOMAIN passes : l \in passes[j]
  <2>1. l \in UNION {passes[e] : e \in DOMAIN passes}
    BY PassesReturn
  <2> QED
    BY <2>1
<1>3. j \in hits /\ i \in DOMAIN passes
  BY <1>2
<1>4. CASE i = j \/ deep
  BY <1>1, <1>2, <1>3, <1>4
<1>5. CASE i # j /\ ~ deep
  <2>1. i <= j
    BY <1>1, <1>3, <1>5
  <2>2. i < j
    <3>1. DOMAIN passes = 1 .. Len(Shorter(PrefixSize(d))) + 1
      BY PassesAre
    <3> HIDE DEF passes
    <3>2. i \in Int /\ j \in Int
      BY <3>1, <1>2, <1>3
    <3> QED
      BY <3>2, <2>1, <1>5
  <2>3. Depth(l) < Depth(k)
    BY <1>1, <1>2, <1>3, <2>2, PassesDescend
  <2>4. l[1] = Open => l[2] = Open
    BY KeyAssumption DEF BiMatches, MaskListExact, TableTypeOK
  <2> QED
    BY <2>3, <2>4, WeightFollowsDepth
<1> QED
  BY <1>4, <1>5

LEMMA LeastNatural ==
    ASSUME NEW S \in SUBSET Nat, S # {}
    PROVE  \E n \in S : \A m \in S : n <= m
<1> DEFINE below == {x \in Nat \X Nat : x[1] < x[2]}
<1>1. IsWellFoundedOn(below, Nat)
  BY NatLessThanWellFounded DEF OpToRel
<1>2. \A m, n \in Nat : << m, n >> \in below <=> m < n
  OBVIOUS
<1> HIDE DEF below
<1>3. PICK n \in S : \A m \in S : << m, n >> \notin below
  BY <1>1, WFMin
<1>4. ASSUME NEW m \in S PROVE n <= m
  <2>1. m \in Nat /\ n \in Nat /\ ~ (m < n)
    BY <1>2, <1>3
  <2> QED
    BY <2>1
<1> QED
  BY <1>4

\* Of entries there are, one is heaviest.
LEMMA HeaviestExists ==
    ASSUME NEW S, S # {}
    PROVE  \E k \in S : \A l \in S : Weight(l) <= Weight(k)
<1> DEFINE most == 2 * AddrBits + 4
           lacks == {most - Weight(k) : k \in S}
<1>1. ASSUME NEW k PROVE Weight(k) \in Nat /\ Weight(k) <= most
  <2> DEFINE a == IF k[1] = Open THEN 0 ELSE AddrBits
             b == IF k[2] = Open THEN 0 ELSE AddrBits
             c == IF k[3] = Open THEN 1 ELSE 2
             e == IF k[4] = Open THEN 1 ELSE 2
  <2>1. a \in {0, AddrBits} /\ b \in {0, AddrBits} /\ c \in {1, 2} /\ e \in {1, 2}
    OBVIOUS
  <2>2. Weight(k) = a + b + c + e
    BY DEF Weight
  <2>3. AddrBits \in {32, 128}
    BY AddrAssumption
  <2> HIDE DEF a, b, c, e
  <2> QED
    BY <2>1, <2>2, <2>3
<1>2. most \in Nat
  BY AddrAssumption
<1> HIDE DEF most
<1>3. lacks \in SUBSET Nat /\ lacks # {}
  <2>1. ASSUME NEW k \in S PROVE most - Weight(k) \in Nat
    BY <1>1, <1>2
  <2> QED
    BY <2>1
<1>4. PICK n \in lacks : \A m \in lacks : n <= m
  BY <1>3, LeastNatural
<1>5. PICK k \in S : n = most - Weight(k)
  BY <1>4
<1>6. ASSUME NEW l \in S PROVE Weight(l) <= Weight(k)
  <2>1. most - Weight(k) <= most - Weight(l)
    BY <1>4, <1>5
  <2>2. Weight(k) \in Nat /\ Weight(l) \in Nat
    BY <1>1
  <2> QED
    BY <2>1, <2>2, <1>2
<1> QED
  BY <1>6

\* There is a best match exactly when an entry that matches is weighed.
LEMMA BestExists ==
    ASSUME MaskListExact, NEW d, NEW deep \in BOOLEAN
    PROVE  BestMatches(d, deep) = {} <=> {k \in BiMatches(d, table) : Weighed(k, d)} = {}
<1> DEFINE passes == Passes(d, TRUE)
           hits == {i \in DOMAIN passes : \E k \in passes[i] : Weighed(k, d)}
           searched == IF deep THEN hits ELSE {i \in hits : \A j \in hits : i <= j}
           found == {k \in UNION {passes[i] : i \in searched} : Weighed(k, d)}
           heaviest == {k \in found : \A l \in found : Weight(l) <= Weight(k)}
<1>1. UNION {passes[i] : i \in DOMAIN passes} = BiMatches(d, table)
  BY PassesReturn
<1>2. BestMatches(d, deep) = {k \in heaviest : k[3] = d[3] \/ \A l \in heaviest : l[3] # d[3]}
  BY DEF BestMatches
<1>3. DOMAIN passes \subseteq Nat
  <2>1. DOMAIN passes = 1 .. Len(Shorter(PrefixSize(d))) + 1
    BY PassesAre
  <2> HIDE DEF passes
  <2> QED
    BY <2>1
<1>4. ASSUME NEW k \in BestMatches(d, deep) PROVE k \in BiMatches(d, table) /\ Weighed(k, d)
  <2>1. k \in found
    BY <1>2, <1>4
  <2>2. PICK i \in searched : k \in passes[i]
    BY <2>1
  <2>3. i \in DOMAIN passes
    BY <2>2
  <2> QED
    BY <2>1, <2>2, <2>3, <1>1
<1>5. ASSUME NEW k \in BiMatches(d, table), Weighed(k, d) PROVE BestMatches(d, deep) # {}
  <2>1. PICK e \in DOMAIN passes : k \in passes[e]
    BY <1>1
  <2>2. e \in hits /\ hits \subseteq DOMAIN passes
    BY <2>1, <1>5
  <2> HIDE DEF hits
  <2>3. \E i \in hits : \A j \in hits : i <= j
    BY <2>2, <1>3, LeastNatural
  <2>4. PICK i \in hits : i \in searched
    BY <2>2, <2>3
  <2>5. \E l \in passes[i] : Weighed(l, d)
    BY <2>4 DEF hits
  <2>6. found # {}
    BY <2>4, <2>5
  <2> HIDE DEF found
  <2>7. heaviest # {}
    BY <2>6, HeaviestExists
  <2> HIDE DEF heaviest
  <2> QED
    BY <2>7, <1>2
<1> QED
  BY <1>4, <1>5

\* In a table whose list is exact the search is: no entry that matches is
\* missed, none is returned twice, and the first pass in which one is weighed
\* has the heaviest.
LEMMA ExactListExactSearch == MaskListExact => SearchIsExact
<1> SUFFICES ASSUME MaskListExact PROVE SearchIsExact
  OBVIOUS
<1> SUFFICES ASSUME NEW d \in Query, NEW bimatch \in BOOLEAN
             PROVE  LET passes == Passes(d, bimatch)
                        found == UNION {passes[i] : i \in DOMAIN passes}
                        weighed == {k \in BiMatches(d, table) : Weighed(k, d)}
                    IN /\ found = IF bimatch THEN BiMatches(d, table) ELSE SubMatches(d, table)
                       /\ d[5] = Open => found = {k \in table : Matches(k, d, bimatch)}
                       /\ \A i, j \in DOMAIN passes : i # j => passes[i] \cap passes[j] = {}
                       /\ \A deep \in BOOLEAN :
                            /\ BestMatches(d, deep) = {} <=> weighed = {}
                            /\ \A k \in BestMatches(d, deep), l \in weighed : Weight(l) <= Weight(k)
                       /\ d[3] # Open /\ d[4] # Open => weighed = BiMatches(d, table)
  BY DEF SearchIsExact
<1> DEFINE passes == Passes(d, bimatch)
           found == UNION {passes[i] : i \in DOMAIN passes}
           weighed == {k \in BiMatches(d, table) : Weighed(k, d)}
<1>1. found = IF bimatch THEN BiMatches(d, table) ELSE SubMatches(d, table)
  BY PassesReturn
<1> HIDE DEF found
<1>2. ASSUME d[5] = Open PROVE found = {k \in table : Matches(k, d, bimatch)}
  <2>1. ASSUME NEW k \in table PROVE k \in found <=> Matches(k, d, bimatch)
    <3>1. k[1] = Open => k[2] = Open
      BY KeyAssumption DEF MaskListExact, TableTypeOK
    <3>2. CASE bimatch = TRUE
      BY <3>1, <3>2, <1>1, <1>2, OpenInterface DEF BiMatches
    <3>3. CASE bimatch = FALSE
      BY <3>1, <3>3, <1>1, <1>2, OpenInterface DEF SubMatches
    <3> QED
      BY <3>2, <3>3
  <2>2. found \subseteq table
    BY <1>1 DEF BiMatches, SubMatches
  <2> QED
    BY <2>1, <2>2
<1>3. ASSUME NEW i \in DOMAIN passes, NEW j \in DOMAIN passes, i # j
      PROVE  passes[i] \cap passes[j] = {}
  <2>1. DOMAIN passes \subseteq Int
    <3>1. DOMAIN passes = 1 .. Len(Shorter(PrefixSize(d))) + 1
      BY PassesAre
    <3> QED
      BY <3>1
  <2>2. ASSUME NEW k \in passes[i], k \in passes[j] PROVE FALSE
    <3>1. Depth(k) \in 0 .. 5
      BY DepthFields
    <3>2. i < j \/ j < i
      BY <2>1, <1>3
    <3>3. Depth(k) < Depth(k)
      BY <3>2, <2>2, PassesDescend
    <3> QED
      BY <3>1, <3>3
  <2> QED
    BY <2>2
<1>4. \A deep \in BOOLEAN :
        /\ BestMatches(d, deep) = {} <=> weighed = {}
        /\ \A k \in BestMatches(d, deep), l \in weighed : Weight(l) <= Weight(k)
  BY BestExists, BestIsHeaviest
<1>5. d[3] # Open /\ d[4] # Open => weighed = BiMatches(d, table)
  <2>1. ASSUME NEW k \in BiMatches(d, table), d[3] # Open, d[4] # Open PROVE Weighed(k, d)
    <3>1. \A j \in 3 .. 4 : j \in 1 .. 5
      OBVIOUS
    <3> QED
      BY <2>1, <3>1 DEF BiMatches, Fits, Weighed
  <2> QED
    BY <2>1
<1> QED
  BY <1>1, <1>2, <1>3, <1>4, <1>5 DEF found

\* A search in a table with at most two lengths, each below 256, returns
\* every entry that matches, each once, and the best match is the heaviest of
\* those whose class and protocol are open or the description's: of all that
\* match, when the description names both.
THEOREM FewLengthsFound == FewLengths /\ TableSpec => []SearchIsExact
  BY FewLengthsListed, ExactListExactSearch, PTL
=============================================================================
