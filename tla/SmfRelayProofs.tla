--------------------------- MODULE SmfRelayProofs ---------------------------
(***************************************************************************)
(* Proofs about who relays to whom, for any devices, patterns, groups and  *)
(* commands (SmfGroups), and about what that does to packets, for any      *)
(* network of nodes with any lists, relay types, packets and commands, and *)
(* any TTL (SmfFlood).                                                     *)
(*                                                                         *)
(* Groups: IInv says of the records that commands pass on what holds       *)
(* after each of their small updates, also those that fail.  The updates   *)
(* that delete are instances of Shrinks, those that configure of Grows;    *)
(* the loops are unrolled by RunExists, one step each.  A group works only *)
(* because no associate of another group is ever taken, and because the    *)
(* source of a push group, a pointer, is the device that names it.         *)
(*                                                                         *)
(* Flooding: what an interface has forwarded is remembered in its          *)
(* duplicate detector or was forgotten by it: TransmittedIsKnown counts    *)
(* the two together.                                                       *)
(***************************************************************************)
EXTENDS SmfGroups, SmfFlood, FiniteSetTheorems, SequenceTheorems, WellFoundedInduction, TLAPS


-----------------------------------------------------------------------------
\* What every command and event leaves, said of the record that calls pass on

Shape(s) ==
    /\ DOMAIN s = {"devices", "groups", "ifaces", "assoc", "input", "resequence", "matchers", "crashed", "ok"}
    /\ s.crashed \in BOOLEAN

\* The source of a push group is the one that names it, or not there yet.
GroupOK(g, grp) ==
    /\ grp \in Group
    /\ grp.template => g[2] \in Pattern
    /\ grp.source # None => grp.source = g[2] /\ grp.source \in grp.members

GroupsOK(s) ==
    /\ DOMAIN s.groups \subseteq Name /\ IsFiniteSet(DOMAIN s.groups)
    /\ \A g \in DOMAIN s.groups : GroupOK(g, s.groups[g])

IfacesOK(s) ==
    /\ s.devices \subseteq Device
    /\ s.ifaces = InGroup(s)
    /\ s.input \subseteq s.ifaces /\ s.resequence \subseteq s.ifaces

AssocOK(s) ==
    \A p \in DOMAIN s.assoc :
        /\ p \in s.ifaces \X s.ifaces
        /\ s.assoc[p] \in DOMAIN s.groups \cup {Freed}

MatcherOK(s, m) == m \in Matcher /\ m.group \in DOMAIN s.groups \cup {Freed}

MatchersOK(s) == 
    /\ s.matchers \in Seq(Matcher)
    /\ \A k \in DOMAIN s.matchers : MatcherOK(s, s.matchers[k])

NoRelay(s) == \A i \in s.resequence : << i, i >> \notin DOMAIN s.assoc

Works(s, g) ==
    s.groups[g].complete =>
        \A i, j \in s.groups[g].members : SendsTo(s.groups[g], i, j) =>
            i \in s.input /\ << i, j >> \in DOMAIN s.assoc /\ s.assoc[<< i, j >>] = g

AllWork(s) == \A g \in DOMAIN s.groups : Works(s, g)

Consistent(s) ==
    /\ Shape(s)
    /\ GroupsOK(s)
    /\ IfacesOK(s)
    /\ AssocOK(s)
    /\ MatchersOK(s)
    /\ NoRelay(s)
    /\ AllWork(s)

IInv == crashed \in BOOLEAN /\ Consistent(Smf)

-----------------------------------------------------------------------------
\* Induction over the steps of a loop, and lists

LEMMA LeastNumber ==
    ASSUME NEW S \in SUBSET Nat, S # {}
    PROVE  \E m \in S : \A n \in S : m <= n
<1>1. PICK m \in S : \A n \in S : ~ (<< n, m >> \in OpToRel(<, Nat))
  BY NatLessThanWellFounded, WFMin
<1>2. \A n \in S : ~ (n < m)
  BY <1>1 DEF OpToRel
<1> QED
  BY <1>2

\* K are the steps after which something holds.
LEMMA StepByStep ==
    ASSUME NEW n \in Nat, NEW K,
           0 \in K,
           \A k \in 1 .. n : k - 1 \in K => k \in K
    PROVE  n \in K
<1> SUFFICES ASSUME n \notin K PROVE FALSE
  OBVIOUS
<1> DEFINE L == (0 .. n) \ K
<1>1. n \in L /\ L \in SUBSET Nat
  OBVIOUS
<1>2. PICK m \in L : \A k \in L : m <= k
  BY <1>1, LeastNumber
<1>3. m \in 1 .. n
  BY <1>2
<1>4. m - 1 \notin L
  BY <1>2, <1>3
<1> QED
  BY <1>2, <1>3, <1>4

Ascending(seq, is) ==
    seq \in [1 .. Cardinality(is) -> is] /\ \A k, n \in DOMAIN seq : k < n => seq[k] < seq[n]

LEMMA AscendingExists ==
    ASSUME NEW n \in Nat
    PROVE  \A is \in SUBSET Nat : IsFiniteSet(is) /\ Cardinality(is) = n => \E seq : Ascending(seq, is)
<1> DEFINE K == {k \in Nat : \A is \in SUBSET Nat : IsFiniteSet(is) /\ Cardinality(is) = k
                                                 => \E seq : Ascending(seq, is)}
<1>1. 0 \in K
  <2> SUFFICES ASSUME NEW is \in SUBSET Nat, IsFiniteSet(is), Cardinality(is) = 0
               PROVE  \E seq : Ascending(seq, is)
    OBVIOUS
  <2>1. [k \in 1 .. 0 |-> 0] \in [1 .. 0 -> is]
    OBVIOUS
  <2>2. Ascending([k \in 1 .. 0 |-> 0], is)
    BY <2>1 DEF Ascending
  <2> QED
    BY <2>2
<1>2. ASSUME NEW k \in 1 .. n, k - 1 \in K
      PROVE  k \in K
  <2> SUFFICES ASSUME NEW is \in SUBSET Nat, IsFiniteSet(is), Cardinality(is) = k
               PROVE  \E seq : Ascending(seq, is)
    OBVIOUS
  <2>1. is # {}
    BY FS_EmptySet
  <2>2. PICK m \in is : \A i \in is : m <= i
    BY <2>1, LeastNumber
  <2> DEFINE rest == is \ {m}
  <2>3. IsFiniteSet(rest) /\ Cardinality(rest) = k - 1
    BY FS_RemoveElement
  <2>4. PICK r : Ascending(r, rest)
    BY <2>3, <1>2
  <2> DEFINE seq == [j \in 1 .. k |-> IF j = 1 THEN m ELSE r[j - 1]]
  <2>5. r \in [1 .. k - 1 -> rest] /\ \A j, l \in 1 .. k - 1 : j < l => r[j] < r[l]
    BY <2>3, <2>4 DEF Ascending
  <2>6. ASSUME NEW j \in 1 .. k - 1
        PROVE  r[j] \in is /\ m < r[j]
    <3>1. r[j] \in is /\ r[j] # m
      BY <2>5
    <3>2. m <= r[j] /\ m \in Nat /\ r[j] \in Nat
      BY <2>2, <3>1
    <3> QED
      BY <3>1, <3>2
  <2>7. seq \in [1 .. k -> is]
    BY <2>6
  <2>8. ASSUME NEW j \in 1 .. k, NEW l \in 1 .. k, j < l
        PROVE  seq[j] < seq[l]
    <3>1. l - 1 \in 1 .. k - 1 /\ seq[l] = r[l - 1]
      BY <2>8
    <3>2. CASE j = 1
      BY <3>1, <3>2, <2>6
    <3>3. CASE j # 1
      BY <3>1, <3>3, <2>5, <2>8
    <3> QED
      BY <3>2, <3>3
  <2>9. Ascending(seq, is)
    BY <2>7, <2>8 DEF Ascending
  <2> QED
    BY <2>9
<1>3. n \in K
  <2> HIDE DEF K
  <2> QED
    BY <1>1, <1>2, StepByStep
<1> QED
  BY <1>3

LEMMA ByIndexOK ==
    ASSUME NEW is \in SUBSET Nat, IsFiniteSet(is)
    PROVE  Cardinality(is) \in Nat /\ ByIndex(is) \in [1 .. Cardinality(is) -> is]
<1>1. Cardinality(is) \in Nat
  BY FS_CardinalityType
<1>2. PICK seq : Ascending(seq, is)
  BY <1>1, AscendingExists
<1> QED
  BY <1>1, <1>2 DEF Ascending, ByIndex

LEMMA SetToSeqOK ==
    ASSUME NEW S, IsFiniteSet(S)
    PROVE  Cardinality(S) \in Nat /\ SetToSeq(S) \in [1 .. Cardinality(S) -> S]
<1>1. PICK f : f \in Bijection(1 .. Cardinality(S), S)
  BY FS_CardinalityType DEF ExistsBijection
<1>2. f \in [1 .. Cardinality(S) -> S] /\ IsInjective(f)
  BY <1>1 DEF Bijection, Injection, IsInjective
<1> QED
  BY <1>2, FS_CardinalityType DEF SetToSeq

\* What a part of a list holds comes from the list.
LEMMA CellsOK ==
    ASSUME NEW T, NEW list \in Seq(T), NEW is \in SUBSET (DOMAIN list)
    PROVE  /\ Cells(list, is) \in Seq(T)
           /\ \A k \in DOMAIN Cells(list, is) : \E n \in is : Cells(list, is)[k] = list[n]
<1>1. DOMAIN list = 1 .. Len(list) /\ Len(list) \in Nat
  OBVIOUS
<1>2. IsFiniteSet(1 .. Len(list))
  BY <1>1, FS_Interval
<1>3. is \in SUBSET Nat /\ IsFiniteSet(is)
  BY <1>1, <1>2, FS_Subset
<1>4. Cardinality(is) \in Nat /\ ByIndex(is) \in [1 .. Cardinality(is) -> is]
  BY <1>3, ByIndexOK
<1>5. \A k \in 1 .. Cardinality(is) : ByIndex(is)[k] \in is /\ list[ByIndex(is)[k]] \in T
  BY <1>1, <1>4
<1>6. Cells(list, is) \in [1 .. Cardinality(is) -> T]
  BY <1>5 DEF Cells
<1> QED
  BY <1>4, <1>5, <1>6 DEF Cells

-----------------------------------------------------------------------------
\* What makes a state consistent

LEMMA ShapeFields ==
    ASSUME NEW s, Shape(s), NEW v
    PROVE  /\ Shape([s EXCEPT !.ok = v]) /\ Shape([s EXCEPT !.groups = v])
           /\ Shape([s EXCEPT !.matchers = v]) /\ Shape([s EXCEPT !.devices = v])
  BY DEF Shape

\* A step that changes neither groups nor what they do.
LEMMA SameOK ==
    ASSUME NEW s, Consistent(s), NEW t, Shape(t), t.devices \subseteq Device,
           t.groups = s.groups, t.ifaces = s.ifaces, t.assoc = s.assoc, t.input = s.input,
           t.resequence = s.resequence, t.matchers = s.matchers
    PROVE  Consistent(t)
<1>1. GroupsOK(t)
  BY DEF Consistent, GroupsOK
<1>2. IfacesOK(t)
  BY DEF Consistent, IfacesOK, InGroup
<1>3. AssocOK(t)
  BY DEF Consistent, AssocOK
<1>4. MatchersOK(t)
  BY DEF Consistent, MatchersOK, MatcherOK
<1>5. NoRelay(t)
  BY DEF Consistent, NoRelay
<1>6. AllWork(t)
  BY DEF Consistent, AllWork, Works
<1> QED
  BY <1>1, <1>2, <1>3, <1>4, <1>5, <1>6 DEF Consistent

LEMMA FlagsOK ==
    ASSUME NEW s, Consistent(s), NEW b, NEW c \in BOOLEAN
    PROVE  /\ Consistent([s EXCEPT !.ok = b]) /\ [s EXCEPT !.ok = b].groups = s.groups
           /\ Consistent([s EXCEPT !.ok = b, !.crashed = c]) /\ [s EXCEPT !.ok = b, !.crashed = c].groups = s.groups
<1>1. Shape(s) /\ s.devices \subseteq Device
  BY DEF Consistent, IfacesOK
<1> DEFINE t == [s EXCEPT !.ok = b]
           u == [s EXCEPT !.ok = b, !.crashed = c]
<1>2. /\ Shape(t)
      /\ t.devices = s.devices /\ t.groups = s.groups /\ t.ifaces = s.ifaces /\ t.assoc = s.assoc
      /\ t.input = s.input /\ t.resequence = s.resequence /\ t.matchers = s.matchers
  BY <1>1 DEF Shape
<1>3. /\ Shape(u)
      /\ u.devices = s.devices /\ u.groups = s.groups /\ u.ifaces = s.ifaces /\ u.assoc = s.assoc
      /\ u.input = s.input /\ u.resequence = s.resequence /\ u.matchers = s.matchers
  BY <1>1 DEF Shape
<1>4. Consistent(t)
  <2> HIDE DEF t
  <2> QED
    BY <1>1, <1>2, SameOK
<1>5. Consistent(u)
  <2> HIDE DEF u
  <2> QED
    BY <1>1, <1>3, SameOK
<1> QED
  BY <1>2, <1>3, <1>4, <1>5

LEMMA FailOK ==
    ASSUME NEW s, Consistent(s)
    PROVE  /\ Consistent(Fail(s)) /\ Fail(s).groups = s.groups
           /\ Consistent(Crash(s)) /\ Crash(s).groups = s.groups
<1>1. Fail(s).groups = s.groups /\ Crash(s).groups = s.groups
  BY DEF Consistent, Shape, Fail, Crash
<1> QED
  BY <1>1, FlagsOK DEF Fail, Crash

\* Groups end or lose members: what is left of a pointer to a group, and of all.
Left(s, t, g) == IF g \in DOMAIN s.groups \ DOMAIN t.groups THEN Freed ELSE g

Shrinks(s, t) ==
    /\ Shape(t) /\ t.devices = s.devices
    /\ DOMAIN t.groups \subseteq DOMAIN s.groups
    /\ \A g \in DOMAIN t.groups :
        /\ t.groups[g] = [s.groups[g] EXCEPT !.members = t.groups[g].members]
        /\ t.groups[g].members \subseteq s.groups[g].members
        /\ s.groups[g].source # None => s.groups[g].source \in t.groups[g].members
    /\ t.ifaces = InGroup(t)
    /\ t.input = s.input \cap t.ifaces /\ t.resequence = s.resequence \cap t.ifaces
    /\ DOMAIN t.assoc = {p \in DOMAIN s.assoc : p[1] \in t.ifaces /\ p[2] \in t.ifaces}
    /\ \A p \in DOMAIN t.assoc : t.assoc[p] = Left(s, t, s.assoc[p])
    /\ t.matchers \in Seq(Matcher)
    /\ \A k \in DOMAIN t.matchers : \E n \in DOMAIN s.matchers : t.matchers[k].group = Left(s, t, s.matchers[n].group)

LEMMA GroupFields ==
    ASSUME NEW grp \in Group, NEW M \in SUBSET Device
    PROVE  /\ [grp EXCEPT !.members = M] \in Group
           /\ [grp EXCEPT !.members = M].members = M
           /\ [grp EXCEPT !.members = M].mode = grp.mode
           /\ [grp EXCEPT !.members = M].rseq = grp.rseq
           /\ [grp EXCEPT !.members = M].template = grp.template
           /\ [grp EXCEPT !.members = M].source = grp.source
           /\ [grp EXCEPT !.members = M].complete = grp.complete
  BY DEF Group

LEMMA ShrinksOK ==
    ASSUME NEW s, Consistent(s), NEW t, Shrinks(s, t)
    PROVE  Consistent(t)
<1>1. \A g \in DOMAIN t.groups :
        /\ g \in DOMAIN s.groups /\ GroupOK(g, s.groups[g]) /\ s.groups[g] \in Group
        /\ t.groups[g].members \in SUBSET Device
  BY DEF Consistent, GroupsOK, GroupOK, Group, Shrinks
<1>2. \A g \in DOMAIN t.groups :
        /\ t.groups[g] \in Group /\ t.groups[g].mode = s.groups[g].mode
        /\ t.groups[g].template = s.groups[g].template /\ t.groups[g].source = s.groups[g].source
        /\ t.groups[g].complete = s.groups[g].complete
  <2> TAKE g \in DOMAIN t.groups
  <2> DEFINE M == t.groups[g].members
  <2>1. t.groups[g] = [s.groups[g] EXCEPT !.members = M]
    BY DEF Shrinks
  <2>2. s.groups[g] \in Group /\ M \in SUBSET Device
    BY <1>1
  <2> HIDE DEF M
  <2> QED
    BY <2>1, <2>2, GroupFields
<1>3. GroupsOK(t)
  <2>1. DOMAIN t.groups \subseteq Name
    BY DEF Consistent, GroupsOK, Shrinks
  <2>2. IsFiniteSet(DOMAIN t.groups)
    BY FS_Subset DEF Consistent, GroupsOK, Shrinks
  <2>3. \A g \in DOMAIN t.groups : GroupOK(g, t.groups[g])
    BY <1>1, <1>2 DEF GroupOK, Shrinks
  <2> QED
    BY <2>1, <2>2, <2>3 DEF GroupsOK
<1>4. IfacesOK(t)
  BY DEF Consistent, IfacesOK, Shrinks
<1>5. AssocOK(t)
  <2> SUFFICES ASSUME NEW p \in DOMAIN t.assoc
               PROVE  p \in t.ifaces \X t.ifaces /\ t.assoc[p] \in DOMAIN t.groups \cup {Freed}
    BY DEF AssocOK
  <2>1. p \in DOMAIN s.assoc /\ p[1] \in t.ifaces /\ p[2] \in t.ifaces
    BY DEF Shrinks
  <2>2. p \in s.ifaces \X s.ifaces /\ s.assoc[p] \in DOMAIN s.groups \cup {Freed}
    BY <2>1 DEF Consistent, AssocOK
  <2>3. t.assoc[p] = Left(s, t, s.assoc[p])
    BY DEF Shrinks
  <2> QED
    BY <2>1, <2>2, <2>3 DEF Left
<1>6. MatchersOK(t)
  <2>1. t.matchers \in Seq(Matcher)
    BY DEF Shrinks
  <2>2. ASSUME NEW k \in DOMAIN t.matchers
        PROVE  MatcherOK(t, t.matchers[k])
    <3>1. t.matchers[k] \in Matcher
      BY <2>1
    <3>2. PICK n \in DOMAIN s.matchers : t.matchers[k].group = Left(s, t, s.matchers[n].group)
      BY DEF Shrinks
    <3>3. s.matchers[n].group \in DOMAIN s.groups \cup {Freed}
      BY DEF Consistent, MatchersOK, MatcherOK
    <3> QED
      BY <3>1, <3>2, <3>3 DEF MatcherOK, Left
  <2> QED
    BY <2>1, <2>2 DEF MatchersOK
<1>7. NoRelay(t)
  BY DEF Consistent, NoRelay, Shrinks
<1>8. AllWork(t)
  <2> SUFFICES ASSUME NEW g \in DOMAIN t.groups, t.groups[g].complete,
                      NEW i \in t.groups[g].members, NEW j \in t.groups[g].members, SendsTo(t.groups[g], i, j)
               PROVE  i \in t.input /\ << i, j >> \in DOMAIN t.assoc /\ t.assoc[<< i, j >>] = g
    BY DEF AllWork, Works
  <2>1. i \in s.groups[g].members /\ j \in s.groups[g].members /\ i \in t.ifaces /\ j \in t.ifaces
    BY DEF Shrinks, InGroup
  <2>2. SendsTo(s.groups[g], i, j)
    BY <1>2 DEF SendsTo
  <2>3. i \in s.input /\ << i, j >> \in DOMAIN s.assoc /\ s.assoc[<< i, j >>] = g
    BY <1>1, <1>2, <2>1, <2>2 DEF Consistent, AllWork, Works
  <2>4. << i, j >> \in DOMAIN t.assoc
    BY <2>1, <2>3 DEF Shrinks
  <2>5. t.assoc[<< i, j >>] = Left(s, t, g)
    BY <2>3, <2>4 DEF Shrinks
  <2> QED
    BY <2>1, <2>3, <2>4, <2>5 DEF Left, Shrinks
<1> QED
  BY <1>3, <1>4, <1>5, <1>6, <1>7, <1>8 DEF Consistent, Shrinks

-----------------------------------------------------------------------------
\* Deletion

LEMMA DeletedFields ==
    ASSUME NEW s, Shape(s), NEW I
    PROVE  /\ Shape(Deleted(s, I))
           /\ Deleted(s, I).devices = s.devices /\ Deleted(s, I).groups = s.groups
           /\ Deleted(s, I).matchers = s.matchers
           /\ Deleted(s, I).ifaces = s.ifaces \ I /\ Deleted(s, I).input = s.input \ I
           /\ Deleted(s, I).resequence = s.resequence \ I
           /\ DOMAIN Deleted(s, I).assoc = {p \in DOMAIN s.assoc : p[1] \notin I /\ p[2] \notin I}
           /\ \A p \in DOMAIN Deleted(s, I).assoc : Deleted(s, I).assoc[p] = s.assoc[p]
  BY DEF Shape, Deleted, Restrict

LEMMA FreeFields ==
    ASSUME NEW s, Shape(s), NEW G
    PROVE  /\ Shape(FreeGroups(s, G))
           /\ FreeGroups(s, G).devices = s.devices /\ FreeGroups(s, G).ifaces = s.ifaces
           /\ FreeGroups(s, G).input = s.input /\ FreeGroups(s, G).resequence = s.resequence
           /\ DOMAIN FreeGroups(s, G).groups = DOMAIN s.groups \ G
           /\ \A g \in DOMAIN s.groups \ G : FreeGroups(s, G).groups[g] = s.groups[g]
           /\ DOMAIN FreeGroups(s, G).assoc = DOMAIN s.assoc
           /\ \A p \in DOMAIN s.assoc : FreeGroups(s, G).assoc[p] = (IF s.assoc[p] \in G THEN Freed ELSE s.assoc[p])
           /\ FreeGroups(s, G).matchers =
                [k \in DOMAIN s.matchers |->
                    [s.matchers[k] EXCEPT !.group = IF s.matchers[k].group \in G THEN Freed ELSE s.matchers[k].group]]
<1> DEFINE t == FreeGroups(s, G)
<1>1. t = [s EXCEPT !.groups = [g \in DOMAIN s.groups \ G |-> s.groups[g]],
                    !.assoc = [p \in DOMAIN s.assoc |-> IF s.assoc[p] \in G THEN Freed ELSE s.assoc[p]],
                    !.matchers = [k \in DOMAIN s.matchers |->
                                    [s.matchers[k] EXCEPT !.group = IF s.matchers[k].group \in G THEN Freed
                                                                    ELSE s.matchers[k].group]]]
  BY DEF FreeGroups, Restrict
<1> HIDE DEF t
<1>2. Shape(t) /\ t.devices = s.devices /\ t.ifaces = s.ifaces /\ t.input = s.input /\ t.resequence = s.resequence
  BY <1>1 DEF Shape
<1>3. t.groups = [g \in DOMAIN s.groups \ G |-> s.groups[g]]
  BY <1>1 DEF Shape
<1>4. t.assoc = [p \in DOMAIN s.assoc |-> IF s.assoc[p] \in G THEN Freed ELSE s.assoc[p]]
  BY <1>1 DEF Shape
<1>5. t.matchers = [k \in DOMAIN s.matchers |->
                     [s.matchers[k] EXCEPT !.group = IF s.matchers[k].group \in G THEN Freed ELSE s.matchers[k].group]]
  BY <1>1 DEF Shape
<1> QED
  BY <1>2, <1>3, <1>4, <1>5 DEF t

LEMMA MatcherFields ==
    ASSUME NEW m \in Matcher, NEW g \in Name \cup {Freed}
    PROVE  [m EXCEPT !.group = g] \in Matcher /\ [m EXCEPT !.group = g].group = g
  BY DEF Matcher

\* The groups G of t end, and with them X and the interfaces that are in no
\* group any more, but were in s.
Ended(s, t, G, X) ==
    LET u == FreeGroups(t, G)
    IN  Deleted(u, X \cup (InGroup(s) \ InGroup(u)))

\* It may when other groups of t are as in s or have lost members.
LEMMA EndOK ==
    ASSUME NEW s, Consistent(s), NEW t, Shape(t), NEW G, NEW X,
           t.devices = s.devices, t.ifaces = s.ifaces, t.assoc = s.assoc, t.input = s.input,
           t.resequence = s.resequence, t.matchers = s.matchers,
           DOMAIN t.groups = DOMAIN s.groups,
           \A g \in DOMAIN s.groups \ G :
                /\ t.groups[g] = [s.groups[g] EXCEPT !.members = t.groups[g].members]
                /\ t.groups[g].members \subseteq s.groups[g].members
                /\ s.groups[g].source # None => s.groups[g].source \in t.groups[g].members,
           X \cap InGroup(FreeGroups(t, G)) = {}
    PROVE  Consistent(Ended(s, t, G, X)) /\ DOMAIN Ended(s, t, G, X).groups = DOMAIN s.groups \ G
<1> DEFINE u == FreeGroups(t, G)
           I == X \cup (InGroup(s) \ InGroup(u))
           v == Deleted(u, I)
<1>1. /\ Shape(u)
      /\ u.devices = s.devices /\ u.ifaces = s.ifaces
      /\ u.input = s.input /\ u.resequence = s.resequence
      /\ DOMAIN u.groups = DOMAIN s.groups \ G
      /\ \A g \in DOMAIN s.groups \ G : u.groups[g] = t.groups[g]
      /\ DOMAIN u.assoc = DOMAIN s.assoc
      /\ \A p \in DOMAIN s.assoc : u.assoc[p] = (IF s.assoc[p] \in G THEN Freed ELSE s.assoc[p])
      /\ u.matchers = [k \in DOMAIN s.matchers |->
                          [s.matchers[k] EXCEPT !.group = IF s.matchers[k].group \in G THEN Freed
                                                          ELSE s.matchers[k].group]]
  BY FreeFields
<1> HIDE DEF u
<1>2. /\ Shape(v)
      /\ v.devices = u.devices /\ v.groups = u.groups /\ v.matchers = u.matchers
      /\ v.ifaces = u.ifaces \ I /\ v.input = u.input \ I /\ v.resequence = u.resequence \ I
      /\ DOMAIN v.assoc = {p \in DOMAIN u.assoc : p[1] \notin I /\ p[2] \notin I}
      /\ \A p \in DOMAIN v.assoc : v.assoc[p] = u.assoc[p]
  <2> HIDE DEF I
  <2> QED
    BY <1>1, DeletedFields
<1> HIDE DEF v
<1>3. InGroup(v) = InGroup(u) /\ InGroup(u) \subseteq InGroup(s) /\ s.ifaces = InGroup(s)
  <2>1. \A g \in DOMAIN u.groups : g \in DOMAIN s.groups /\ u.groups[g].members \subseteq s.groups[g].members
    BY <1>1
  <2> QED
    BY <1>2, <2>1 DEF InGroup, Consistent, IfacesOK
<1>4. v.ifaces = InGroup(v)
  <2>1. X \cap InGroup(u) = {}
    BY DEF u
  <2> QED
    BY <1>1, <1>2, <1>3, <2>1
<1>5. I \cap v.ifaces = {} /\ s.ifaces \subseteq I \cup v.ifaces /\ v.ifaces \subseteq s.ifaces
  BY <1>1, <1>2
<1>6. v.input = s.input \cap v.ifaces /\ v.resequence = s.resequence \cap v.ifaces
  <2>1. s.input \subseteq s.ifaces /\ s.resequence \subseteq s.ifaces
    BY DEF Consistent, IfacesOK
  <2> HIDE DEF I
  <2> QED
    BY <1>1, <1>2, <1>5, <2>1
<1>7. DOMAIN v.assoc = {p \in DOMAIN s.assoc : p[1] \in v.ifaces /\ p[2] \in v.ifaces}
  <2>1. \A p \in DOMAIN s.assoc : p[1] \in s.ifaces /\ p[2] \in s.ifaces
    BY DEF Consistent, AssocOK
  <2> HIDE DEF I
  <2> QED
    BY <1>1, <1>2, <1>5, <2>1
<1>8. ASSUME NEW p \in DOMAIN v.assoc
      PROVE  v.assoc[p] = Left(s, v, s.assoc[p])
  <2>1. p \in DOMAIN s.assoc /\ s.assoc[p] \in DOMAIN s.groups \cup {Freed}
    BY <1>7 DEF Consistent, AssocOK
  <2> QED
    BY <1>1, <1>2, <2>1 DEF Left
<1>9. ASSUME NEW k \in DOMAIN v.matchers
      PROVE  /\ k \in DOMAIN s.matchers /\ v.matchers[k] \in Matcher
             /\ v.matchers[k].group = Left(s, v, s.matchers[k].group)
  <2> DEFINE m == s.matchers[k]
             h == IF m.group \in G THEN Freed ELSE m.group
  <2>1. k \in DOMAIN s.matchers /\ v.matchers[k] = [m EXCEPT !.group = h]
    BY <1>1, <1>2
  <2>2. m \in Matcher /\ m.group \in DOMAIN s.groups \cup {Freed} /\ m.group \in Name \cup {Freed}
    BY <2>1 DEF Consistent, MatchersOK, MatcherOK, Matcher
  <2>3. v.matchers[k] \in Matcher /\ v.matchers[k].group = h
    BY <2>1, <2>2, MatcherFields
  <2>4. h = Left(s, v, m.group)
    BY <1>1, <1>2, <2>2 DEF Left
  <2> QED
    BY <2>1, <2>3, <2>4
<1>10. v.matchers \in Seq(Matcher)
  <2>1. s.matchers \in Seq(Matcher)
    BY DEF Consistent, MatchersOK
  <2>2. DOMAIN v.matchers = 1 .. Len(s.matchers) /\ Len(s.matchers) \in Nat
    BY <1>1, <1>2, <2>1
  <2> DEFINE n == Len(s.matchers)
  <2>3. v.matchers = [k \in 1 .. n |-> v.matchers[k]]
    BY <1>1, <1>2, <2>2
  <2>4. \A k \in 1 .. n : v.matchers[k] \in Matcher
    BY <1>9, <2>2
  <2>5. v.matchers \in [1 .. n -> Matcher]
    BY <2>3, <2>4
  <2> QED
    BY <2>2, <2>5
<1>11. Shrinks(s, v)
  <2>1. \A g \in DOMAIN v.groups :
          /\ v.groups[g] = [s.groups[g] EXCEPT !.members = v.groups[g].members]
          /\ v.groups[g].members \subseteq s.groups[g].members
          /\ s.groups[g].source # None => s.groups[g].source \in v.groups[g].members
    BY <1>1, <1>2
  <2>2. DOMAIN v.groups \subseteq DOMAIN s.groups
    BY <1>1, <1>2
  <2> HIDE DEF I
  <2> QED
    BY <1>1, <1>2, <1>4, <1>6, <1>7, <1>8, <1>9, <1>10, <2>1, <2>2 DEF Shrinks
<1>12. Consistent(v)
  BY <1>11, ShrinksOK
<1> QED
  BY <1>1, <1>2, <1>12 DEF v, u, Ended

LEMMA DeleteGroupsOK ==
    ASSUME NEW s, Consistent(s), NEW G
    PROVE  Consistent(DeleteGroups(s, G)) /\ DOMAIN DeleteGroups(s, G).groups = DOMAIN s.groups \ G
<1>1. Shape(s) /\ GroupsOK(s)
  BY DEF Consistent
<1>2. \A g \in DOMAIN s.groups \ G :
        /\ s.groups[g] = [s.groups[g] EXCEPT !.members = s.groups[g].members]
        /\ s.groups[g].source # None => s.groups[g].source \in s.groups[g].members
  BY <1>1 DEF GroupsOK, GroupOK, Group
<1>3. Consistent(Ended(s, s, G, {})) /\ DOMAIN Ended(s, s, G, {}).groups = DOMAIN s.groups \ G
  BY <1>1, <1>2, EndOK
<1>4. Ended(s, s, G, {}) = DeleteGroups(s, G)
  BY DEF Ended, DeleteGroups
<1> QED
  BY <1>3, <1>4

\* A template has no source: its source would name it, and a pattern does.
LEMMA TemplateHasNoSource ==
    ASSUME NEW s, GroupsOK(s), NEW g \in DOMAIN s.groups, s.groups[g].template
    PROVE  s.groups[g].source = None
  BY PatternAssumption DEF GroupsOK, GroupOK, Group

LEMMA DropInterfaceOK ==
    ASSUME NEW s, Consistent(s), NEW i
    PROVE  Consistent(DropInterface(s, i))
<1> DEFINE Rest(grp) == IF ~ grp.template /\ grp.source = i THEN {} ELSE grp.members \ {i}
           touched == {g \in DOMAIN s.groups : i \in s.groups[g].members}
           H == [g \in DOMAIN s.groups |->
                    IF g \in touched THEN [s.groups[g] EXCEPT !.members = Rest(s.groups[g])] ELSE s.groups[g]]
           t == [s EXCEPT !.groups = H]
           G == {g \in touched : ~ t.groups[g].template /\ t.groups[g].members = {}}
           u == FreeGroups(t, G)
<1>1. Shape(s) /\ GroupsOK(s)
  BY DEF Consistent
<1>2. /\ Shape(t) /\ t.groups = H
      /\ t.devices = s.devices /\ t.ifaces = s.ifaces /\ t.assoc = s.assoc /\ t.input = s.input
      /\ t.resequence = s.resequence /\ t.matchers = s.matchers
  <2> HIDE DEF H
  <2> QED
    BY <1>1 DEF Shape
<1>3. \A g \in DOMAIN s.groups : s.groups[g] \in Group
  BY <1>1 DEF GroupsOK, GroupOK
<1>4. ASSUME NEW g \in DOMAIN s.groups
      PROVE  IF g \in touched
             THEN t.groups[g] = [s.groups[g] EXCEPT !.members = Rest(s.groups[g])]
             ELSE t.groups[g] = s.groups[g]
  BY <1>2
<1> HIDE DEF t, H
<1>5. ASSUME NEW g \in DOMAIN s.groups
      PROVE  /\ t.groups[g] = [s.groups[g] EXCEPT !.members = t.groups[g].members]
             /\ t.groups[g].members = (IF g \in touched THEN Rest(s.groups[g]) ELSE s.groups[g].members)
             /\ t.groups[g].members \subseteq s.groups[g].members \ {i}
             /\ t.groups[g].template = s.groups[g].template
  BY <1>3, <1>4 DEF Group
<1>6. ASSUME NEW g \in DOMAIN s.groups \ G, s.groups[g].source # None
      PROVE  s.groups[g].source \in t.groups[g].members
  <2>1. s.groups[g].source \in s.groups[g].members /\ ~ s.groups[g].template
    BY <1>1, <1>6, TemplateHasNoSource DEF GroupsOK, GroupOK, Group
  <2>2. CASE g \notin touched
    BY <1>5, <2>1, <2>2
  <2>3. CASE g \in touched
    <3>1. t.groups[g].members # {}
      BY <1>5, <2>1, <2>3
    <3> QED
      BY <1>5, <2>1, <2>3, <3>1
  <2> QED
    BY <2>2, <2>3
<1>7. DOMAIN t.groups = DOMAIN s.groups
  BY <1>2 DEF H
<1>8. {i} \cap InGroup(u) = {}
  <2>1. \A g \in DOMAIN u.groups : g \in DOMAIN s.groups /\ u.groups[g] = t.groups[g]
    <3>1. DOMAIN u.groups = DOMAIN t.groups \ G /\ \A g \in DOMAIN t.groups \ G : u.groups[g] = t.groups[g]
      <4> HIDE DEF G
      <4> QED
        BY <1>2, FreeFields
    <3> HIDE DEF G, u
    <3> QED
      BY <1>7, <3>1
  <2>2. \A g \in DOMAIN u.groups : i \notin u.groups[g].members
    <3> HIDE DEF G, u
    <3> QED
      BY <1>5, <2>1
  <2> HIDE DEF u
  <2> QED
    BY <2>2 DEF InGroup
<1>9. Consistent(Ended(s, t, G, {i}))
  <2>1. \A g \in DOMAIN s.groups \ G :
          /\ t.groups[g] = [s.groups[g] EXCEPT !.members = t.groups[g].members]
          /\ t.groups[g].members \subseteq s.groups[g].members
          /\ s.groups[g].source # None => s.groups[g].source \in t.groups[g].members
    BY <1>5, <1>6
  <2> HIDE DEF G
  <2> QED
    BY <1>2, <1>7, <1>8, <2>1, EndOK
<1> QED
  BY <1>9 DEF DropInterface, Ended, t, H

LEMMA RemoveMatchersOK ==
    ASSUME NEW s, Consistent(s), NEW is \in SUBSET (DOMAIN s.matchers), NEW t,
           t = [s EXCEPT !.matchers = Cells(s.matchers, is)]
    PROVE  Consistent(t) /\ t.groups = s.groups
<1>1. Shape(s) /\ s.matchers \in Seq(Matcher)
  BY DEF Consistent, MatchersOK
<1> DEFINE cells == Cells(s.matchers, is)
<1>2. cells \in Seq(Matcher) /\ \A k \in DOMAIN cells : \E n \in is : cells[k] = s.matchers[n]
  BY <1>1, CellsOK
<1> HIDE DEF cells
<1>3. /\ Shape(t) /\ t.matchers = cells
      /\ t.devices = s.devices /\ t.groups = s.groups /\ t.ifaces = s.ifaces /\ t.assoc = s.assoc
      /\ t.input = s.input /\ t.resequence = s.resequence
  BY <1>1 DEF Shape, cells
<1>4. MatchersOK(t)
  BY <1>2, <1>3 DEF Consistent, MatchersOK, MatcherOK
<1>5. GroupsOK(t) /\ IfacesOK(t)
  BY <1>3 DEF Consistent, GroupsOK, IfacesOK, InGroup
<1>6. AssocOK(t) /\ NoRelay(t) /\ AllWork(t)
  BY <1>3 DEF Consistent, AssocOK, NoRelay, AllWork, Works
<1> QED
  BY <1>3, <1>4, <1>5, <1>6 DEF Consistent

LEMMA RemoveGroupsOK ==
    ASSUME NEW s, Consistent(s), NEW G
    PROVE  Consistent(RemoveGroups(s, G))
<1> DEFINE t == RemoveMatchers(s, G)
           is == {k \in DOMAIN s.matchers : s.matchers[k].group \notin G}
<1>1. Consistent(Crash(s)) /\ Consistent(Fail(s))
  BY FailOK
<1>2. Consistent([s EXCEPT !.matchers = Cells(s.matchers, is)])
  <2>1. is \in SUBSET (DOMAIN s.matchers)
    OBVIOUS
  <2> HIDE DEF is
  <2> QED
    BY <2>1, RemoveMatchersOK
<1>3. Consistent(t)
  BY <1>1, <1>2 DEF RemoveMatchers
<1> QED
  BY <1>1, <1>3, DeleteGroupsOK DEF RemoveGroups

LEMMA RemoveMemberOK ==
    ASSUME NEW s, Consistent(s), NEW g, NEW i
    PROVE  Consistent(RemoveMember(s, g, i))
<1> DEFINE t == [s EXCEPT !.groups[g].members = s.groups[g].members \ {i}]
           u == IF i \in InGroup(t) THEN t ELSE Deleted(t, {i})
<1>1. Shape(s) /\ GroupsOK(s)
  BY DEF Consistent
<1>2. CASE g = None
  BY <1>2, DropInterfaceOK DEF RemoveMember
<1>3. CASE g # None /\ (g \notin DOMAIN s.groups \/ i \notin s.groups[g].members)
  BY <1>3 DEF RemoveMember
<1>4. CASE /\ g # None /\ g \in DOMAIN s.groups /\ i \in s.groups[g].members
           /\ ~ s.groups[g].template /\ s.groups[g].source = i
  BY <1>4, DeleteGroupsOK DEF RemoveMember
<1>5. CASE /\ g # None /\ g \in DOMAIN s.groups /\ i \in s.groups[g].members
           /\ ~ (~ s.groups[g].template /\ s.groups[g].source = i)
  <2>1. /\ Shape(t) /\ DOMAIN t.groups = DOMAIN s.groups
        /\ t.devices = s.devices /\ t.ifaces = s.ifaces /\ t.assoc = s.assoc /\ t.input = s.input
        /\ t.resequence = s.resequence /\ t.matchers = s.matchers
        /\ t.groups[g] = [s.groups[g] EXCEPT !.members = s.groups[g].members \ {i}]
        /\ \A h \in DOMAIN s.groups \ {g} : t.groups[h] = s.groups[h]
    BY <1>1, <1>5 DEF Shape
  <2>2. \A h \in DOMAIN s.groups : s.groups[h] \in Group
    BY <1>1 DEF GroupsOK, GroupOK
  <2> HIDE DEF t
  <2>3. ASSUME NEW h \in DOMAIN s.groups
        PROVE  /\ t.groups[h] = [s.groups[h] EXCEPT !.members = t.groups[h].members]
               /\ t.groups[h].members = (IF h = g THEN s.groups[h].members \ {i} ELSE s.groups[h].members)
    BY <2>1, <2>2 DEF Group
  <2>4. ASSUME NEW h \in DOMAIN s.groups, s.groups[h].source # None
        PROVE  s.groups[h].source \in t.groups[h].members
    <3>1. s.groups[h].source \in s.groups[h].members /\ ~ s.groups[h].template
      BY <1>1, <2>4, TemplateHasNoSource DEF GroupsOK, GroupOK
    <3> QED
      BY <1>5, <2>3, <3>1
  <2>5. InGroup(t) \subseteq s.ifaces /\ s.ifaces \subseteq InGroup(t) \cup {i}
    <3>1. s.ifaces = InGroup(s)
      BY DEF Consistent, IfacesOK
    <3>2. \A x : x \in InGroup(s) <=> \E h \in DOMAIN s.groups : x \in s.groups[h].members
      BY DEF InGroup
    <3>3. \A x : x \in InGroup(t) <=> \E h \in DOMAIN s.groups : x \in t.groups[h].members
      BY <2>1 DEF InGroup
    <3>4. \A h \in DOMAIN s.groups : \A x : x # i => (x \in t.groups[h].members <=> x \in s.groups[h].members)
      BY <2>3
    <3>5. \A h \in DOMAIN s.groups : t.groups[h].members \subseteq s.groups[h].members
      BY <2>3
    <3> QED
      BY <3>1, <3>2, <3>3, <3>4, <3>5
  <2>6. /\ Shape(u) /\ u.devices = s.devices /\ u.groups = t.groups /\ u.matchers = s.matchers
        /\ u.ifaces = InGroup(t) /\ u.input = s.input \cap u.ifaces /\ u.resequence = s.resequence \cap u.ifaces
        /\ DOMAIN u.assoc = {p \in DOMAIN s.assoc : p[1] \in u.ifaces /\ p[2] \in u.ifaces}
        /\ \A p \in DOMAIN u.assoc : u.assoc[p] = s.assoc[p]
    <3>1. s.input \subseteq s.ifaces /\ s.resequence \subseteq s.ifaces
      BY DEF Consistent, IfacesOK
    <3>2. \A p \in DOMAIN s.assoc : p[1] \in s.ifaces /\ p[2] \in s.ifaces
      BY DEF Consistent, AssocOK
    <3>3. CASE i \in InGroup(t)
      <4>1. u = t /\ t.ifaces = InGroup(t)
        BY <2>1, <2>5, <3>3
      <4> HIDE DEF u
      <4>2. DOMAIN u.assoc = {p \in DOMAIN s.assoc : p[1] \in u.ifaces /\ p[2] \in u.ifaces}
        BY <2>1, <3>2, <4>1
      <4> QED
        BY <2>1, <3>1, <4>1, <4>2
    <3>4. CASE i \notin InGroup(t)
      <4>1. /\ Shape(u) /\ u.devices = t.devices /\ u.groups = t.groups /\ u.matchers = t.matchers
            /\ u.ifaces = t.ifaces \ {i} /\ u.input = t.input \ {i} /\ u.resequence = t.resequence \ {i}
            /\ DOMAIN u.assoc = {p \in DOMAIN t.assoc : p[1] \notin {i} /\ p[2] \notin {i}}
            /\ \A p \in DOMAIN u.assoc : u.assoc[p] = t.assoc[p]
        BY <2>1, <3>4, DeletedFields
      <4> HIDE DEF u
      <4>2. u.ifaces = InGroup(t) /\ u.ifaces = s.ifaces \ {i}
        BY <2>1, <2>5, <3>4, <4>1
      <4>3. DOMAIN u.assoc = {p \in DOMAIN s.assoc : p[1] \in u.ifaces /\ p[2] \in u.ifaces}
        BY <2>1, <3>2, <4>1, <4>2
      <4> QED
        BY <2>1, <3>1, <4>1, <4>2, <4>3
    <3> QED
      BY <3>3, <3>4
  <2> HIDE DEF u
  <2>7. Shrinks(s, u)
    <3>1. \A x \in DOMAIN s.groups \cup {Freed} : Left(s, u, x) = x
      BY <2>1, <2>6 DEF Left
    <3>2. \A p \in DOMAIN u.assoc : u.assoc[p] = Left(s, u, s.assoc[p])
      BY <2>6, <3>1 DEF Consistent, AssocOK
    <3>3. /\ u.matchers \in Seq(Matcher)
          /\ \A k \in DOMAIN u.matchers : u.matchers[k].group = Left(s, u, s.matchers[k].group)
      BY <2>6, <3>1 DEF Consistent, MatchersOK, MatcherOK
    <3>4. InGroup(u) = InGroup(t)
      BY <2>6 DEF InGroup
    <3>5. \A h \in DOMAIN u.groups :
            /\ u.groups[h] = [s.groups[h] EXCEPT !.members = u.groups[h].members]
            /\ u.groups[h].members \subseteq s.groups[h].members
            /\ s.groups[h].source # None => s.groups[h].source \in u.groups[h].members
      BY <2>1, <2>3, <2>4, <2>6
    <3> QED
      BY <2>1, <2>6, <3>2, <3>3, <3>4, <3>5 DEF Shrinks
  <2>8. Consistent(u)
    BY <2>7, ShrinksOK
  <2>9. RemoveMember(s, g, i) = (IF u.groups[g].members = {} THEN DeleteGroups(u, {g}) ELSE u)
    BY <1>5 DEF RemoveMember, u, t
  <2> QED
    BY <2>8, <2>9, DeleteGroupsOK
<1> QED
  BY <1>2, <1>3, <1>4, <1>5

-----------------------------------------------------------------------------
\* Associations

LEMMA SourcesAreMembers ==
    ASSUME NEW g, NEW grp, GroupOK(g, grp)
    PROVE  /\ grp.members \subseteq Device /\ Sources(grp) \subseteq grp.members
           /\ Pairs(grp) \subseteq grp.members \X grp.members
           /\ \A p \in Pairs(grp) : grp.mode # "RELAY" => p[1] # p[2]
           /\ \A i, j \in grp.members : SendsTo(grp, i, j) => << i, j >> \in Pairs(grp)
<1>1. grp \in Group /\ grp.members \subseteq Device /\ grp.mode \in {"RELAY", "PUSH", "MERGE"}
  BY DEF GroupOK, Group, Mode
<1>2. Sources(grp) \subseteq grp.members
  BY <1>1, NoneAssumption DEF GroupOK, Sources
<1>3. \A i, j \in grp.members : SendsTo(grp, i, j) => i \in Sources(grp) /\ (grp.mode = "RELAY" \/ i # j)
  BY <1>1 DEF SendsTo, Sources
<1> QED
  BY <1>1, <1>2, <1>3 DEF Pairs

\* What is made is neither taken by another group nor refused.
LEMMA MadeIsFree ==
    ASSUME NEW s, Consistent(s), NEW g \in DOMAIN s.groups
    PROVE  /\ \A p \in Made(s, g) : p \in DOMAIN s.assoc => s.assoc[p] = g
           /\ \A i : << i, i >> \in Made(s, g) => s.groups[g].mode = "RELAY" /\ i \notin s.resequence
           /\ \A i \in Examined(s, g) : s.groups[g].rseq => << i, i >> \notin DOMAIN s.assoc
<1> DEFINE grp == s.groups[g]
<1>1. GroupOK(g, grp)
  BY DEF Consistent, GroupsOK
<1>2. \A p \in Pairs(grp) : p = << p[1], p[2] >> /\ p[1] \in Nat \ {0} /\ p[2] \in Nat \ {0}
  BY <1>1, SourcesAreMembers, DeviceAssumption
<1>3. \A i \in Sources(grp) : i \in Nat \ {0}
  BY <1>1, SourcesAreMembers, DeviceAssumption
<1>4. ASSUME NEW p \in Made(s, g), p \in DOMAIN s.assoc
      PROVE  s.assoc[p] = g
  <2>1. p \in Pairs(grp) /\ ~ Before(p, p)
    BY <1>2 DEF Made, Before
  <2>2. p \notin Stops(s, g)
    BY <2>1 DEF Made, Reached
  <2> QED
    BY <1>4, <2>1, <2>2 DEF Stops, Taken
<1>5. ASSUME NEW i, << i, i >> \in Made(s, g)
      PROVE  grp.mode = "RELAY" /\ i \notin s.resequence
  <2>1. << i, i >> \in Pairs(grp) /\ i \in Nat \ {0}
    BY <1>2, <1>5 DEF Made
  <2>2. grp.mode = "RELAY"
    BY <1>1, <2>1, SourcesAreMembers
  <2>3. i \in Sources(grp)
    BY <2>1 DEF Pairs
  <2>4. ~ Before(<< i, i >>, << i, 0 >>)
    BY <2>1 DEF Before
  <2>5. << i, 0 >> \notin Stops(s, g)
    BY <1>5, <2>4 DEF Made, Reached
  <2> QED
    BY <2>2, <2>3, <2>5 DEF Stops, Refuses
<1>6. ASSUME NEW i \in Examined(s, g), grp.rseq
      PROVE  << i, i >> \notin DOMAIN s.assoc
  <2>1. i \in Sources(grp) /\ grp.mode # "RELAY" /\ i \in Nat
    BY <1>3 DEF Examined
  <2>2. ~ Before(<< i, 0 >>, << i, 0 >>)
    BY <2>1 DEF Before
  <2>3. << i, 0 >> \notin Stops(s, g)
    BY <2>2 DEF Examined, Reached
  <2> QED
    BY <1>6, <2>1, <2>3 DEF Stops, Refuses
<1> QED
  BY <1>4, <1>5, <1>6

LEMMA AssociatedOK ==
    ASSUME NEW s, Consistent(s), NEW g \in DOMAIN s.groups, ~ s.groups[g].complete
    PROVE  Consistent(Associated(s, g)) /\ Associated(s, g).groups = s.groups
<1> DEFINE t == Associated(s, g)
           grp == s.groups[g]
<1>1. /\ Shape(t) /\ t.devices = s.devices /\ t.groups = s.groups /\ t.ifaces = s.ifaces
      /\ t.input = s.input /\ t.matchers = s.matchers
      /\ t.assoc = [p \in DOMAIN s.assoc \cup Made(s, g) |-> IF p \in Made(s, g) THEN g ELSE s.assoc[p]]
      /\ t.resequence = (IF grp.rseq THEN s.resequence \cup Examined(s, g) ELSE s.resequence \ Examined(s, g))
  BY DEF Associated, Consistent, Shape
<1> HIDE DEF t
<1>2. /\ DOMAIN t.assoc = DOMAIN s.assoc \cup Made(s, g)
      /\ \A p \in Made(s, g) : t.assoc[p] = g
      /\ \A p \in DOMAIN s.assoc \ Made(s, g) : t.assoc[p] = s.assoc[p]
  BY <1>1
<1>3. GroupOK(g, grp) /\ grp.members \subseteq s.ifaces
  BY DEF Consistent, GroupsOK, IfacesOK, InGroup
<1>4. Made(s, g) \subseteq s.ifaces \X s.ifaces /\ Examined(s, g) \subseteq s.ifaces
  <2>1. Made(s, g) \subseteq Pairs(grp) /\ Examined(s, g) \subseteq Sources(grp)
    BY DEF Made, Examined
  <2>2. Pairs(grp) \subseteq grp.members \X grp.members /\ Sources(grp) \subseteq grp.members
    BY <1>3, SourcesAreMembers
  <2> QED
    BY <1>3, <2>1, <2>2
<1>5. GroupsOK(t) /\ MatchersOK(t)
  BY <1>1 DEF Consistent, GroupsOK, MatchersOK, MatcherOK
<1>6. IfacesOK(t)
  BY <1>1, <1>4 DEF Consistent, IfacesOK, InGroup
<1>7. AssocOK(t)
  BY <1>1, <1>2, <1>4 DEF Consistent, AssocOK
<1>8. NoRelay(t)
  <2> SUFFICES ASSUME NEW i \in t.resequence, << i, i >> \in DOMAIN t.assoc
               PROVE  FALSE
    BY DEF NoRelay
  <2>1. i \in s.resequence \/ (i \in Examined(s, g) /\ grp.rseq)
    BY <1>1
  <2>2. CASE << i, i >> \in Made(s, g)
    <3>1. grp.mode = "RELAY" /\ i \notin s.resequence
      BY <2>2, MadeIsFree
    <3> QED
      BY <2>1, <3>1 DEF Examined
  <2>3. CASE << i, i >> \in DOMAIN s.assoc
    <3>1. i \notin s.resequence
      BY <2>3 DEF Consistent, NoRelay
    <3> QED
      BY <2>1, <2>3, <3>1, MadeIsFree
  <2> QED
    BY <1>2, <2>2, <2>3
<1>9. AllWork(t)
  <2> SUFFICES ASSUME NEW h \in DOMAIN s.groups, s.groups[h].complete,
                      NEW i \in s.groups[h].members, NEW j \in s.groups[h].members, SendsTo(s.groups[h], i, j)
               PROVE  i \in t.input /\ << i, j >> \in DOMAIN t.assoc /\ t.assoc[<< i, j >>] = h
    BY <1>1 DEF AllWork, Works
  <2>1. i \in s.input /\ << i, j >> \in DOMAIN s.assoc /\ s.assoc[<< i, j >>] = h
    BY DEF Consistent, AllWork, Works
  <2>2. << i, j >> \notin Made(s, g)
    BY <2>1, MadeIsFree
  <2> QED
    BY <1>1, <1>2, <2>1, <2>2
<1>10. Consistent(t)
  BY <1>1, <1>5, <1>6, <1>7, <1>8, <1>9 DEF Consistent
<1> QED
  BY <1>1, <1>10 DEF t

LEMMA CompletedOK ==
    ASSUME NEW s, Consistent(s), NEW g \in DOMAIN s.groups, ~ s.groups[g].complete, Stops(s, g) = {}
    PROVE  Consistent(Completed(Associated(s, g), g)) /\ DOMAIN Completed(Associated(s, g), g).groups = DOMAIN s.groups
<1> DEFINE t == Associated(s, g)
           grp == s.groups[g]
           inputs == {i \in grp.members : \E p \in DOMAIN t.assoc : p[1] = i}
           v == Completed(Associated(s, g), g)
<1>1. Consistent(t) /\ Shape(t) /\ t.groups = s.groups
  BY AssociatedOK DEF Consistent
<1>2. Pairs(grp) \subseteq DOMAIN t.assoc /\ \A p \in Pairs(grp) : t.assoc[p] = g
  <2>1. Pairs(grp) = Made(s, g)
    BY DEF Made, Reached
  <2> QED
    BY <2>1 DEF Associated, Consistent, Shape
<1>3. /\ Shape(v) /\ v.devices = t.devices /\ v.ifaces = t.ifaces /\ v.assoc = t.assoc
      /\ v.resequence = t.resequence /\ v.matchers = t.matchers
      /\ v.input = t.input \cup inputs
      /\ v.groups = [t.groups EXCEPT ![g].complete = TRUE]
  <2> HIDE DEF t
  <2> QED
    BY <1>1 DEF Shape, Completed, t
<1> HIDE DEF t, v, inputs
<1>4. \A h \in DOMAIN t.groups : GroupOK(h, t.groups[h])
  BY <1>1 DEF Consistent, GroupsOK
<1>5. DOMAIN v.groups = DOMAIN t.groups
  BY <1>3
<1>6. ASSUME NEW h \in DOMAIN t.groups
      PROVE  /\ v.groups[h].members = t.groups[h].members /\ v.groups[h].mode = t.groups[h].mode
             /\ v.groups[h].source = t.groups[h].source
             /\ h # g => v.groups[h].complete = t.groups[h].complete
             /\ GroupOK(h, v.groups[h])
  <2>1. t.groups[h] \in Group /\ GroupOK(h, t.groups[h])
    BY <1>4 DEF GroupOK
  <2>2. v.groups[h] = IF h = g THEN [t.groups[h] EXCEPT !.complete = TRUE] ELSE t.groups[h]
    BY <1>3
  <2> QED
    BY <2>1, <2>2 DEF GroupOK, Group
<1>7. GroupsOK(v)
  BY <1>1, <1>5, <1>6 DEF Consistent, GroupsOK
<1>8. IfacesOK(v)
  <2>1. InGroup(v) = InGroup(t)
    BY <1>5, <1>6 DEF InGroup
  <2>2. inputs \subseteq t.ifaces
    <3>1. grp.members \subseteq InGroup(t)
      BY <1>1 DEF InGroup
    <3> QED
      BY <1>1, <3>1 DEF inputs, Consistent, IfacesOK
  <2> QED
    BY <1>1, <1>3, <2>1, <2>2 DEF Consistent, IfacesOK
<1>9. AssocOK(v) /\ NoRelay(v)
  BY <1>1, <1>3, <1>5 DEF Consistent, AssocOK, NoRelay
<1>10. MatchersOK(v)
  BY <1>1, <1>3, <1>5 DEF Consistent, MatchersOK, MatcherOK
<1>11. AllWork(v)
  <2> SUFFICES ASSUME NEW h \in DOMAIN t.groups, v.groups[h].complete,
                      NEW i \in v.groups[h].members, NEW j \in v.groups[h].members, SendsTo(v.groups[h], i, j)
               PROVE  i \in v.input /\ << i, j >> \in DOMAIN v.assoc /\ v.assoc[<< i, j >>] = h
    BY <1>5 DEF AllWork, Works
  <2>1. i \in t.groups[h].members /\ j \in t.groups[h].members /\ SendsTo(t.groups[h], i, j)
    BY <1>6 DEF SendsTo
  <2>2. CASE h # g
    <3>1. i \in t.input /\ << i, j >> \in DOMAIN t.assoc /\ t.assoc[<< i, j >>] = h
      BY <1>1, <1>6, <2>1, <2>2 DEF Consistent, AllWork, Works
    <3> QED
      BY <1>3, <3>1
  <2>3. CASE h = g
    <3>1. << i, j >> \in Pairs(grp)
      BY <1>1, <1>4, <2>1, <2>3, SourcesAreMembers
    <3>2. << i, j >> \in DOMAIN t.assoc /\ t.assoc[<< i, j >>] = g /\ i \in grp.members
      BY <1>1, <1>2, <2>1, <2>3, <3>1
    <3>3. i \in inputs
      BY <3>2 DEF inputs
    <3> QED
      BY <1>3, <2>3, <3>2, <3>3
  <2> QED
    BY <2>2, <2>3
<1>12. Consistent(v)
  BY <1>3, <1>7, <1>8, <1>9, <1>10, <1>11 DEF Consistent
<1> QED
  BY <1>1, <1>5, <1>12 DEF v

LEMMA UpdateOK ==
    ASSUME NEW s, Consistent(s), NEW g \in DOMAIN s.groups, ~ s.groups[g].complete
    PROVE  /\ Consistent(UpdateGroupAssociations(s, g))
           /\ DOMAIN UpdateGroupAssociations(s, g).groups = DOMAIN s.groups
<1> DEFINE t == Associated(s, g)
<1>1. Consistent(t) /\ t.groups = s.groups
  BY AssociatedOK
<1> HIDE DEF t
<1>2. /\ Consistent(Crash(t)) /\ Crash(t).groups = t.groups
      /\ Consistent(Fail(t)) /\ Fail(t).groups = t.groups
  BY <1>1, FailOK
<1>3. Stops(s, g) = {} => Consistent(Completed(Associated(s, g), g)) /\ DOMAIN Completed(Associated(s, g), g).groups = DOMAIN s.groups
  BY CompletedOK
<1> QED
  BY <1>1, <1>2, <1>3 DEF UpdateGroupAssociations, t

-----------------------------------------------------------------------------
\* Configuration

\* No step of a command that adds ends a group.
Grows(s, t) == Consistent(t) /\ DOMAIN s.groups \subseteq DOMAIN t.groups

LEMMA GrowsOn ==
    ASSUME NEW s, NEW t, NEW u, Grows(s, t), Grows(t, u)
    PROVE  Grows(s, u)
  BY DEF Grows

LEMMA AddInterfaceToGroupOK ==
    ASSUME NEW s, Consistent(s), NEW g \in DOMAIN s.groups, NEW i \in Device, NEW isSource \in BOOLEAN,
           isSource /\ s.groups[g].mode = "PUSH" => i = g[2],
           NEW a, a = [s EXCEPT !.ifaces = s.ifaces \cup {i}, !.ok = TRUE]
    PROVE  Grows(s, AddInterfaceToGroup(a, g, i, isSource))
<1> DEFINE grp == s.groups[g]
           new == i \notin grp.members
           source == IF new /\ isSource /\ grp.mode = "PUSH" THEN i ELSE grp.source
           after == [grp EXCEPT !.members = grp.members \cup {i}, !.complete = FALSE, !.source = source]
           t == [a EXCEPT !.groups[g].members = a.groups[g].members \cup {i}, !.groups[g].complete = FALSE,
                          !.groups[g].source = IF i \notin a.groups[g].members /\ isSource /\ a.groups[g].mode = "PUSH"
                                               THEN i ELSE a.groups[g].source]
<1>1. Shape(s) /\ GroupsOK(s)
  BY DEF Consistent
<1>2. /\ Shape(a) /\ a.groups = s.groups /\ a.ifaces = s.ifaces \cup {i}
      /\ a.devices = s.devices /\ a.assoc = s.assoc /\ a.input = s.input
      /\ a.resequence = s.resequence /\ a.matchers = s.matchers
  BY <1>1 DEF Shape
<1>3. /\ Shape(t) /\ t.ifaces = s.ifaces \cup {i}
      /\ t.devices = s.devices /\ t.assoc = s.assoc /\ t.input = s.input
      /\ t.resequence = s.resequence /\ t.matchers = s.matchers
  BY <1>2 DEF Shape
<1>4. /\ DOMAIN t.groups = DOMAIN s.groups
      /\ \A h \in DOMAIN s.groups \ {g} : t.groups[h] = s.groups[h]
      /\ t.groups[g] = after
  BY <1>2 DEF Shape
<1> HIDE DEF t
<1>5. GroupOK(g, grp) /\ grp \in Group
  BY <1>1 DEF GroupsOK, GroupOK
<1>6. source \in Device \cup {None}
  BY <1>5 DEF Group
<1>7. /\ after \in Group /\ after.members = grp.members \cup {i} /\ after.complete = FALSE
      /\ after.source = source /\ after.mode = grp.mode /\ after.template = grp.template
  <2> HIDE DEF source
  <2> QED
    BY <1>5, <1>6 DEF Group
<1>8. GroupOK(g, after)
  BY <1>5, <1>7 DEF GroupOK
<1> HIDE DEF after
<1>9. GroupsOK(t)
  BY <1>1, <1>4, <1>8 DEF GroupsOK
<1>10. IfacesOK(t)
  <2>1. \A x : x \in InGroup(s) <=> \E h \in DOMAIN s.groups : x \in s.groups[h].members
    BY DEF InGroup
  <2>2. \A x : x \in InGroup(t) <=> \E h \in DOMAIN s.groups : x \in t.groups[h].members
    BY <1>4 DEF InGroup
  <2>3. \A x : x \in InGroup(t) <=> x \in InGroup(s) \cup {i}
    BY <1>4, <1>7, <2>1, <2>2
  <2> QED
    BY <1>3, <2>3 DEF Consistent, IfacesOK
<1>11. AssocOK(t) /\ NoRelay(t)
  BY <1>3, <1>4 DEF Consistent, AssocOK, NoRelay
<1>12. MatchersOK(t)
  BY <1>3, <1>4 DEF Consistent, MatchersOK, MatcherOK
<1>13. AllWork(t)
  BY <1>3, <1>4, <1>7 DEF Consistent, AllWork, Works
<1>14. Consistent(t)
  BY <1>3, <1>9, <1>10, <1>11, <1>12, <1>13 DEF Consistent
<1>15. Consistent(UpdateGroupAssociations(t, g)) /\ DOMAIN UpdateGroupAssociations(t, g).groups = DOMAIN s.groups
  BY <1>4, <1>7, <1>14, UpdateOK
<1> QED
  BY <1>4, <1>14, <1>15 DEF AddInterfaceToGroup, Grows, t

LEMMA AddNameOK ==
    ASSUME NEW s, Consistent(s), NEW g \in DOMAIN s.groups, NEW i \in Device, NEW isSource \in BOOLEAN,
           isSource /\ s.groups[g].mode = "PUSH" => i = g[2]
    PROVE  Grows(s, AddName(s, g, i, isSource))
<1>1. Grows(s, Fail(s))
  BY FailOK DEF Grows
<1>2. Grows(s, AddInterfaceToGroup([s EXCEPT !.ifaces = s.ifaces \cup {i}, !.ok = TRUE], g, i, isSource))
  BY AddInterfaceToGroupOK
<1> QED
  BY <1>1, <1>2 DEF AddName

LEMMA GetInterfaceGroupOK ==
    ASSUME NEW s, Consistent(s), NEW g \in Name, NEW mode \in Mode, NEW rseq \in BOOLEAN,
           NEW template \in DOMAIN s.groups \cup {None}
    PROVE  LET t == GetInterfaceGroup(s, g, mode, rseq, template)
           IN  Grows(s, t) /\ g \in DOMAIN t.groups /\ (t.ok => t.groups[g].mode = mode)
<1> DEFINE new == [mode |-> mode, rseq |-> rseq, template |-> g[2] \in Pattern, source |-> None, complete |-> FALSE,
                   members |-> IF template = None THEN {} ELSE s.groups[template].members]
           t == [s EXCEPT !.groups = [h \in DOMAIN s.groups \cup {g} |-> IF h = g THEN new ELSE s.groups[h]]]
<1>1. Shape(s) /\ GroupsOK(s)
  BY DEF Consistent
<1>2. CASE g \in DOMAIN s.groups
  <2>1. Fail(s).ok = FALSE
    BY <1>1 DEF Fail, Shape
  <2>2. Grows(s, s) /\ Grows(s, Fail(s))
    BY FailOK DEF Grows
  <2> QED
    BY <1>2, <2>1, <2>2 DEF GetInterfaceGroup, Grows
<1>3. CASE g \notin DOMAIN s.groups
  <2>1. new.members \subseteq s.ifaces
    BY DEF Consistent, IfacesOK, InGroup
  <2>2. s.ifaces \subseteq Device
    BY <1>1 DEF Consistent, IfacesOK, InGroup, GroupsOK, GroupOK, Group
  <2>3. new \in Group /\ GroupOK(g, new)
    <3> DEFINE M == new.members
               b == g[2] \in Pattern
    <3>1. M \in SUBSET Device /\ b \in BOOLEAN /\ (b => g[2] \in Pattern)
      BY <2>1, <2>2
    <3>2. new = [mode |-> mode, rseq |-> rseq, template |-> b, source |-> None, complete |-> FALSE, members |-> M]
      OBVIOUS
    <3> HIDE DEF M, b, new
    <3>3. new \in Group
      BY <3>1, <3>2 DEF Group
    <3>4. new.template = b /\ new.source = None
      BY <3>2
    <3> QED
      BY <3>1, <3>3, <3>4 DEF GroupOK
  <2>4. new.complete = FALSE /\ new.mode = mode
    OBVIOUS
  <2> HIDE DEF new
  <2>5. /\ Shape(t) /\ t.ifaces = s.ifaces
        /\ t.devices = s.devices /\ t.assoc = s.assoc /\ t.input = s.input
        /\ t.resequence = s.resequence /\ t.matchers = s.matchers
        /\ DOMAIN t.groups = DOMAIN s.groups \cup {g}
        /\ t.groups[g] = new
        /\ \A h \in DOMAIN s.groups : t.groups[h] = s.groups[h]
    BY <1>1, <1>3 DEF Shape
  <2> HIDE DEF t
  <2>6. GroupsOK(t)
    <3>1. IsFiniteSet(DOMAIN t.groups)
      BY <1>1, <2>5, FS_AddElement DEF GroupsOK
    <3> QED
      BY <1>1, <2>3, <2>5, <3>1 DEF GroupsOK
  <2>7. IfacesOK(t)
    <3>1. \A x : x \in InGroup(s) <=> \E h \in DOMAIN s.groups : x \in s.groups[h].members
      BY DEF InGroup
    <3>2. \A x : x \in InGroup(t) <=> \E h \in DOMAIN s.groups \cup {g} : x \in t.groups[h].members
      BY <2>5 DEF InGroup
    <3>3. InGroup(s) = s.ifaces
      BY DEF Consistent, IfacesOK
    <3>4. \A x : x \in InGroup(t) <=> x \in InGroup(s)
      BY <1>3, <2>1, <2>5, <3>1, <3>2, <3>3
    <3> QED
      BY <2>5, <3>3, <3>4 DEF Consistent, IfacesOK
  <2>8. AssocOK(t) /\ NoRelay(t)
    BY <2>5 DEF Consistent, AssocOK, NoRelay
  <2>9. MatchersOK(t)
    BY <2>5 DEF Consistent, MatchersOK, MatcherOK
  <2>10. AllWork(t)
    BY <1>3, <2>4, <2>5 DEF Consistent, AllWork, Works
  <2>11. Consistent(t)
    BY <2>5, <2>6, <2>7, <2>8, <2>9, <2>10 DEF Consistent
  <2>12. GetInterfaceGroup(s, g, mode, rseq, template) = t
    BY <1>3 DEF GetInterfaceGroup, t, new
  <2> QED
    BY <2>4, <2>5, <2>11, <2>12 DEF Grows
<1> QED
  BY <1>2, <1>3

LEMMA ParseOneOK ==
    ASSUME NEW s, Consistent(s), NEW g \in Name, NEW mode \in Mode, NEW rseq \in BOOLEAN,
           NEW template \in DOMAIN s.groups \cup {None}, NEW i \in Device, mode = "PUSH" => i = g[2]
    PROVE  Grows(s, ParseOne(s, g, mode, rseq, template, i))
<1> DEFINE a == [s EXCEPT !.ok = TRUE]
           t == GetInterfaceGroup(a, g, mode, rseq, template)
<1>1. Consistent(a) /\ a.groups = s.groups
  BY FlagsOK
<1> HIDE DEF a
<1>2. Grows(a, t) /\ g \in DOMAIN t.groups /\ (t.ok => t.groups[g].mode = mode)
  BY <1>1, GetInterfaceGroupOK
<1> HIDE DEF t
<1>3. t.ok => Grows(t, AddName(t, g, i, TRUE))
  BY <1>2, AddNameOK DEF Grows
<1>4. Grows(s, t)
  BY <1>1, <1>2 DEF Grows
<1>5. t.ok => Grows(s, AddName(t, g, i, TRUE))
  BY <1>3, <1>4, GrowsOn
<1> QED
  BY <1>4, <1>5 DEF ParseOne, a, t

-----------------------------------------------------------------------------
\* Commands for one after the other

\* What the loops do for the k-th of their list, that is x.
Do(what, arg, t, k, x) ==
    CASE what = "add"    -> AddName(t, x, arg, FALSE)
      [] what = "match"  -> MatchInterface(t, arg, x)
      [] what = "place"  -> MatchInterface(t, x, arg)
      [] what = "leave"  -> RemoveMember(t, arg, x)
      [] what = "remove" -> RemoveInterface(t, x, arg)
      [] what = "parse"  -> ParseInterfaceName(t, arg, x, k = 1)

\* All but the parser go on after what failed.
DoNext(what, arg, t, k, x) ==
    IF what = "parse" THEN IF t.ok THEN Do(what, arg, t, k, x) ELSE t
    ELSE IF t.crashed THEN t
    ELSE [Do(what, arg, t, k, x) EXCEPT !.ok = ~ Do(what, arg, t, k, x).crashed]

Runs(what, arg, s, n, seq, f) ==
    f = [k \in 0 .. n |-> IF k = 0 THEN s ELSE DoNext(what, arg, f[k - 1], k, seq[k])]

LEMMA RunExists ==
    ASSUME NEW what, NEW arg, NEW s, NEW n \in Nat, NEW seq
    PROVE  \E f : Runs(what, arg, s, n, seq, f)
<1> DEFINE K == {m \in 0 .. n : \E f : Runs(what, arg, s, m, seq, f)}
<1>1. 0 \in K
  <2> DEFINE f == [k \in 0 .. 0 |-> s]
  <2>1. f = [k \in 0 .. 0 |-> IF k = 0 THEN s ELSE DoNext(what, arg, f[k - 1], k, seq[k])]
    OBVIOUS
  <2> HIDE DEF f
  <2>2. Runs(what, arg, s, 0, seq, f)
    BY <2>1 DEF Runs
  <2> QED
    BY <2>2
<1>2. ASSUME NEW m \in 1 .. n, m - 1 \in K
      PROVE  m \in K
  <2>1. PICK f : Runs(what, arg, s, m - 1, seq, f)
    BY <1>2
  <2>2. /\ f[0] = s
        /\ \A k \in 1 .. m - 1 : f[k] = DoNext(what, arg, f[k - 1], k, seq[k])
    BY <2>1 DEF Runs
  <2> DEFINE last == DoNext(what, arg, f[m - 1], m, seq[m])
             g == [k \in 0 .. m |-> IF k = m THEN last ELSE f[k]]
  <2> HIDE DEF last
  <2>3. ASSUME NEW k \in 0 .. m
        PROVE  g[k] = IF k = 0 THEN s ELSE DoNext(what, arg, g[k - 1], k, seq[k])
    <3>1. CASE k = 0
      BY <2>2, <3>1
    <3>2. CASE k \in 1 .. m - 1
      <4>1. g[k] = f[k] /\ g[k - 1] = f[k - 1]
        BY <3>2
      <4> QED
        BY <2>2, <3>2, <4>1
    <3>3. CASE k = m /\ k # 0
      <4>1. g[k] = last /\ g[k - 1] = f[m - 1]
        BY <3>3
      <4> QED
        BY <3>3, <4>1 DEF last
    <3> QED
      BY <3>1, <3>2, <3>3
  <2>4. g = [k \in 0 .. m |-> g[k]]
    OBVIOUS
  <2> HIDE DEF g
  <2>5. Runs(what, arg, s, m, seq, g)
    BY <2>3, <2>4 DEF Runs
  <2> QED
    BY <2>5
<1> HIDE DEF K
<1>3. n \in K
  BY <1>1, <1>2, StepByStep
<1> QED
  BY <1>3 DEF K

LEMMA IgnoringOK ==
    ASSUME NEW s, NEW t, Grows(s, t)
    PROVE  Grows(s, [t EXCEPT !.ok = ~ t.crashed])
  BY FlagsOK DEF Grows

LEMMA GrowsAllAlong ==
    ASSUME NEW what, NEW arg, NEW s, Consistent(s), NEW n \in Nat, NEW seq, NEW f,
           Runs(what, arg, s, n, seq, f),
           \A k \in 1 .. n : \A t : Grows(s, t) /\ (k = 1 => t = s) /\ (what = "parse" => t.ok)
                                   => Grows(s, Do(what, arg, t, k, seq[k]))
    PROVE  Grows(s, f[n])
<1> DEFINE K == {k \in 0 .. n : Grows(s, f[k])}
<1>1. f[0] = s /\ \A k \in 1 .. n : f[k] = DoNext(what, arg, f[k - 1], k, seq[k])
  BY DEF Runs
<1>2. 0 \in K
  BY <1>1 DEF Grows
<1>3. ASSUME NEW k \in 1 .. n, k - 1 \in K
      PROVE  k \in K
  <2> DEFINE t == f[k - 1]
             u == Do(what, arg, t, k, seq[k])
  <2>1. Grows(s, t) /\ (k = 1 => t = s)
    BY <1>1, <1>3
  <2>2. f[k] = DoNext(what, arg, t, k, seq[k])
    BY <1>1
  <2> HIDE DEF t
  <2>3. (what = "parse" => t.ok) => Grows(s, u)
    BY <2>1
  <2> HIDE DEF u
  <2>4. Grows(s, u) => Grows(s, [u EXCEPT !.ok = ~ u.crashed])
    BY IgnoringOK
  <2>5. Grows(s, f[k])
    BY <2>1, <2>2, <2>3, <2>4 DEF DoNext, u
  <2> QED
    BY <2>5
<1> HIDE DEF K
<1>4. n \in K
  BY <1>2, <1>3, StepByStep
<1> QED
  BY <1>4 DEF K

LEMMA AddNamesOK ==
    ASSUME NEW s, Consistent(s), NEW n \in Nat, NEW seq \in [1 .. n -> DOMAIN s.groups], NEW i \in Device
    PROVE  Grows(s, Each(s, LAMBDA t, g : AddName(t, g, i, FALSE), seq))
<1> DEFINE Is(f) == f = [k \in 0 .. Len(seq) |->
                            IF k = 0 THEN s ELSE IF f[k - 1].crashed THEN f[k - 1]
                            ELSE [AddName(f[k - 1], seq[k], i, FALSE)
                                    EXCEPT !.ok = ~ AddName(f[k - 1], seq[k], i, FALSE).crashed]]
           run == CHOOSE f : Is(f)
<1>1. Each(s, LAMBDA t, g : AddName(t, g, i, FALSE), seq) = run[Len(seq)]
  BY DEF Each
<1>2. Len(seq) = n
  OBVIOUS
<1>3. \A f : Is(f) <=> Runs("add", i, s, n, seq, f)
  BY <1>2 DEF Runs, DoNext, Do
<1>4. Is(run)
  <2>1. \E f : Is(f)
    BY <1>3, RunExists
  <2> QED
    BY <2>1
<1>5. Runs("add", i, s, n, seq, run)
  <2> HIDE DEF Is, run
  <2> QED
    BY <1>3, <1>4
<1> HIDE DEF run
<1>6. ASSUME NEW k \in 1 .. n, NEW t, Grows(s, t)
      PROVE  Grows(s, Do("add", i, t, k, seq[k]))
  <2>1. Grows(t, AddName(t, seq[k], i, FALSE))
    BY <1>6, AddNameOK DEF Grows
  <2> QED
    BY <1>6, <2>1, GrowsOn DEF Do
<1>7. Grows(s, run[n])
  BY <1>5, <1>6, GrowsAllAlong
<1> QED
  BY <1>1, <1>2, <1>7

\* A matcher that is there stays one while groups are added.
LEMMA MatcherStays ==
    ASSUME NEW s, NEW t, Grows(s, t), NEW m, MatcherOK(s, m)
    PROVE  MatcherOK(t, m)
  BY DEF Grows, MatcherOK

LEMMA MatchInterfaceOK ==
    ASSUME NEW s, Consistent(s), NEW m, MatcherOK(s, m), NEW i \in Device
    PROVE  Grows(s, MatchInterface(s, m, i))
<1> DEFINE g == m.group
<1>1. GroupsOK(s) /\ \A h \in DOMAIN s.groups : h \in Name /\ s.groups[h] \in Group
  BY DEF Consistent, GroupsOK, GroupOK
<1>2. m.source \in BOOLEAN
  BY DEF MatcherOK, Matcher
<1>3. CASE g = Freed
  <2>1. Grows(s, Crash(s))
    BY FailOK DEF Grows
  <2> QED
    BY <1>3, <2>1 DEF MatchInterface
<1>4. CASE g # Freed /\ m.source
  <2>1. g \in DOMAIN s.groups
    BY <1>4 DEF MatcherOK
  <2>2. s.groups[g].rseq \in BOOLEAN
    BY <1>1, <2>1 DEF Group
  <2>3. << g[1], i >> \in Name
    BY <1>1, <2>1 DEF Name
  <2>4. Grows(s, ParseOne(s, << g[1], i >>, "PUSH", s.groups[g].rseq, g, i))
    <3> DEFINE h == << g[1], i >>
    <3>1. h \in Name /\ h[2] = i
      BY <2>3
    <3> HIDE DEF h
    <3>2. Grows(s, ParseOne(s, h, "PUSH", s.groups[g].rseq, g, i))
      BY <2>1, <2>2, <3>1, ParseOneOK DEF Mode
    <3> QED
      BY <3>2 DEF h
  <2> QED
    BY <1>2, <1>4, <2>4 DEF MatchInterface
<1>5. CASE g # Freed /\ ~ m.source /\ s.groups[g].mode = "PUSH"
  <2> DEFINE G == Prefixed(s, g)
  <2>1. G \subseteq DOMAIN s.groups /\ IsFiniteSet(G)
    BY <1>1, FS_Subset DEF Prefixed, GroupsOK
  <2> HIDE DEF G
  <2>2. Cardinality(G) \in Nat /\ SetToSeq(G) \in [1 .. Cardinality(G) -> DOMAIN s.groups]
    BY <2>1, SetToSeqOK
  <2>3. Grows(s, Each(s, LAMBDA t, h : AddName(t, h, i, FALSE), SetToSeq(G)))
    BY <2>2, AddNamesOK
  <2> QED
    BY <1>2, <1>5, <2>3 DEF MatchInterface, G
<1>6. CASE g # Freed /\ ~ m.source /\ s.groups[g].mode # "PUSH"
  <2>1. g \in Name
    BY <1>1, <1>6 DEF MatcherOK
  <2>2. Grows(s, ParseOne(s, g, "RELAY", FALSE, None, i))
    BY <2>1, ParseOneOK DEF Mode
  <2> QED
    BY <1>2, <1>6, <2>2 DEF MatchInterface
<1> QED
  BY <1>2, <1>3, <1>4, <1>5, <1>6

LEMMA MatchExistingOK ==
    ASSUME NEW s, Consistent(s), NEW m, MatcherOK(s, m)
    PROVE  Grows(s, MatchExistingInterfaces(s, m))
<1> DEFINE is == Match[m.prefix] \cap s.devices
           seq == ByIndex(is)
           n == Cardinality(is)
           Is(f) == f = [k \in 0 .. Len(seq) |->
                            IF k = 0 THEN s ELSE IF f[k - 1].crashed THEN f[k - 1]
                            ELSE [MatchInterface(f[k - 1], m, seq[k])
                                    EXCEPT !.ok = ~ MatchInterface(f[k - 1], m, seq[k]).crashed]]
           run == CHOOSE f : Is(f)
<1>1. MatchExistingInterfaces(s, m) = run[Len(seq)]
  BY DEF MatchExistingInterfaces, Each
<1>2. n \in Nat /\ seq \in [1 .. n -> Device]
  <2>1. is \subseteq Device /\ is \subseteq Nat
    BY DeviceAssumption DEF Consistent, IfacesOK
  <2>2. IsFiniteSet(is)
    BY <2>1, DeviceAssumption, FS_Subset
  <2>3. n \in Nat /\ seq \in [1 .. n -> is]
    <3> HIDE DEF is
    <3> QED
      BY <2>1, <2>2, ByIndexOK
  <2> HIDE DEF is, n, seq
  <2> QED
    BY <2>1, <2>3
<1> HIDE DEF seq, n
<1>3. Len(seq) = n
  BY <1>2
<1>4. \A f : Is(f) <=> Runs("match", m, s, n, seq, f)
  BY <1>3 DEF Runs, DoNext, Do
<1>5. Is(run)
  <2>1. \E f : Is(f)
    BY <1>2, <1>4, RunExists
  <2> QED
    BY <2>1
<1>6. Runs("match", m, s, n, seq, run)
  <2> HIDE DEF Is, run
  <2> QED
    BY <1>4, <1>5
<1> HIDE DEF run
<1>7. ASSUME NEW k \in 1 .. n, NEW t, Grows(s, t)
      PROVE  Grows(s, Do("match", m, t, k, seq[k]))
  <2>1. Grows(t, MatchInterface(t, m, seq[k]))
    BY <1>2, <1>7, MatcherStays, MatchInterfaceOK DEF Grows
  <2> QED
    BY <1>7, <2>1, GrowsOn DEF Do
<1>8. Grows(s, run[n])
  BY <1>2, <1>6, <1>7, GrowsAllAlong
<1> QED
  BY <1>1, <1>3, <1>8

LEMMA NewMatcherOK ==
    ASSUME NEW s, Consistent(s), NEW m, MatcherOK(s, m), NEW t, t = [s EXCEPT !.matchers = Append(s.matchers, m)]
    PROVE  Grows(s, t) /\ MatcherOK(t, m)
<1>1. Shape(s) /\ s.matchers \in Seq(Matcher) /\ m \in Matcher
  BY DEF Consistent, MatchersOK, MatcherOK
<1>2. /\ Shape(t) /\ t.matchers = Append(s.matchers, m)
      /\ t.devices = s.devices /\ t.groups = s.groups /\ t.ifaces = s.ifaces /\ t.assoc = s.assoc
      /\ t.input = s.input /\ t.resequence = s.resequence
  BY <1>1 DEF Shape
<1>3. MatcherOK(t, m)
  BY <1>2 DEF MatcherOK
<1>4. MatchersOK(t)
  <2>1. t.matchers \in Seq(Matcher)
    BY <1>1, <1>2
  <2>2. ASSUME NEW k \in DOMAIN t.matchers
        PROVE  MatcherOK(t, t.matchers[k])
    <3>1. t.matchers[k] = m \/ (k \in DOMAIN s.matchers /\ t.matchers[k] = s.matchers[k])
      BY <1>1, <1>2
    <3> QED
      BY <1>2, <1>3, <3>1 DEF Consistent, MatchersOK, MatcherOK
  <2> QED
    BY <2>1, <2>2 DEF MatchersOK
<1>5. GroupsOK(t) /\ IfacesOK(t)
  BY <1>2 DEF Consistent, GroupsOK, IfacesOK, InGroup
<1>6. AssocOK(t) /\ NoRelay(t) /\ AllWork(t)
  BY <1>2 DEF Consistent, AssocOK, NoRelay, AllWork, Works
<1> QED
  BY <1>2, <1>3, <1>4, <1>5, <1>6 DEF Consistent, Grows

LEMMA ParseInterfaceNameOK ==
    ASSUME NEW s, Consistent(s), NEW g \in DOMAIN s.groups, NEW x \in Device \cup Pattern, NEW isSource \in BOOLEAN,
           isSource /\ s.groups[g].mode = "PUSH" => x = g[2]
    PROVE  Grows(s, ParseInterfaceName(s, g, x, isSource))
<1> DEFINE b == isSource /\ s.groups[g].mode = "PUSH"
           m == [prefix |-> x, group |-> g, source |-> b]
           t == [s EXCEPT !.matchers = Append(s.matchers, m)]
<1>1. CASE x \notin Pattern
  BY <1>1, AddNameOK DEF ParseInterfaceName
<1>2. CASE x \in Pattern
  <2>1. b \in BOOLEAN /\ g \in Name
    BY DEF Consistent, GroupsOK
  <2>2. MatcherOK(s, m)
    <3> HIDE DEF b
    <3> QED
      BY <1>2, <2>1 DEF MatcherOK, Matcher
  <2> HIDE DEF m
  <2>3. Grows(s, t) /\ MatcherOK(t, m)
    BY <2>2, NewMatcherOK
  <2> HIDE DEF t
  <2>4. Grows(s, MatchExistingInterfaces(t, m))
    <3>1. Grows(t, MatchExistingInterfaces(t, m))
      BY <2>3, MatchExistingOK DEF Grows
    <3> QED
      BY <2>3, <3>1, GrowsOn
  <2>5. Grows(s, MatchExistingInterfaces(s, m))
    BY <2>2, MatchExistingOK
  <2>6. Grows(s, Crash(s))
    BY FailOK DEF Grows
  <2> QED
    BY <1>2, <2>4, <2>5, <2>6 DEF ParseInterfaceName, t, m
<1> QED
  BY <1>1, <1>2

LEMMA ParseInterfaceListOK ==
    ASSUME NEW s, Consistent(s), NEW c \in Config
    PROVE  Consistent(ParseInterfaceList(s, c))
<1> DEFINE g == << c.base, IF c.mode = "PUSH" THEN c.list[1] ELSE None >>
           start == GetInterfaceGroup(s, g, c.mode, c.rseq, None)
           n == Len(c.list)
           Is(f) == f = [k \in 0 .. n |->
                            IF k = 0 THEN start
                            ELSE IF f[k - 1].ok THEN ParseInterfaceName(f[k - 1], g, c.list[k], k = 1) ELSE f[k - 1]]
           run == CHOOSE f : Is(f)
<1>1. ParseInterfaceList(s, c) = run[n]
  BY DEF ParseInterfaceList
<1>2. /\ c.mode \in Mode /\ c.rseq \in BOOLEAN /\ c.list \in Seq(Device \cup Pattern)
      /\ n \in Nat /\ 1 \in 1 .. n
      /\ \A k \in 1 .. n : c.list[k] \in Device \cup Pattern
  BY ConfigAssumption DEF Mode
<1>3. g \in Name /\ (c.mode = "PUSH" => g[2] = c.list[1])
  BY <1>2 DEF Name
<1> HIDE DEF g, n
<1>4. /\ Consistent(start) /\ g \in DOMAIN start.groups /\ (start.ok => start.groups[g].mode = c.mode)
  BY <1>2, <1>3, GetInterfaceGroupOK DEF Grows
<1> HIDE DEF start
<1>5. \A f : Is(f) <=> Runs("parse", g, start, n, c.list, f)
  BY DEF Runs, DoNext, Do
<1>6. Is(run)
  <2>1. \E f : Is(f)
    BY <1>2, <1>5, RunExists
  <2> QED
    BY <2>1
<1>7. Runs("parse", g, start, n, c.list, run)
  <2> HIDE DEF Is, run
  <2> QED
    BY <1>5, <1>6
<1> HIDE DEF run
<1>8. ASSUME NEW k \in 1 .. n, NEW t, Grows(start, t), k = 1 => t = start, t.ok
      PROVE  Grows(start, Do("parse", g, t, k, c.list[k]))
  <2>1. Consistent(t) /\ g \in DOMAIN t.groups
    BY <1>4, <1>8 DEF Grows
  <2>2. (k = 1) \in BOOLEAN /\ ((k = 1) /\ t.groups[g].mode = "PUSH" => c.list[k] = g[2])
    BY <1>3, <1>4, <1>8
  <2>3. Grows(t, ParseInterfaceName(t, g, c.list[k], k = 1))
    BY <1>2, <2>1, <2>2, ParseInterfaceNameOK
  <2> QED
    BY <1>8, <2>3, GrowsOn DEF Do
<1>9. Grows(start, run[n])
  BY <1>2, <1>4, <1>7, <1>8, GrowsAllAlong
<1> QED
  BY <1>1, <1>9 DEF Grows

\* The same for what removes: nothing but consistency is left.
LEMMA ConsistentAllAlong ==
    ASSUME NEW what, what # "parse", NEW arg, NEW s, Consistent(s), NEW n \in Nat, NEW seq, NEW f,
           Runs(what, arg, s, n, seq, f),
           \A k \in 1 .. n : \A t : Consistent(t) => Consistent(Do(what, arg, t, k, seq[k]))
    PROVE  Consistent(f[n])
<1> DEFINE K == {k \in 0 .. n : Consistent(f[k])}
<1>1. f[0] = s /\ \A k \in 1 .. n : f[k] = DoNext(what, arg, f[k - 1], k, seq[k])
  BY DEF Runs
<1>2. 0 \in K
  BY <1>1
<1>3. ASSUME NEW k \in 1 .. n, k - 1 \in K
      PROVE  k \in K
  <2> DEFINE t == f[k - 1]
             u == Do(what, arg, t, k, seq[k])
  <2>1. Consistent(t) /\ f[k] = DoNext(what, arg, t, k, seq[k])
    BY <1>1, <1>3
  <2> HIDE DEF t
  <2>2. Consistent(u)
    BY <2>1
  <2> HIDE DEF u
  <2>3. Consistent([u EXCEPT !.ok = ~ u.crashed])
    BY <2>2, FlagsOK
  <2>4. Consistent(f[k])
    BY <2>1, <2>3 DEF DoNext, u
  <2> QED
    BY <2>4
<1> HIDE DEF K
<1>4. n \in K
  BY <1>2, <1>3, StepByStep
<1> QED
  BY <1>4 DEF K

LEMMA LeaveAllOK ==
    ASSUME NEW s, Consistent(s), NEW g \in Name \cup {None}, NEW seq, Len(seq) \in Nat
    PROVE  Consistent(Each(s, LAMBDA u, i : RemoveMember(u, g, i), seq))
<1> DEFINE n == Len(seq)
           Is(f) == f = [k \in 0 .. Len(seq) |->
                            IF k = 0 THEN s ELSE IF f[k - 1].crashed THEN f[k - 1]
                            ELSE [RemoveMember(f[k - 1], g, seq[k])
                                    EXCEPT !.ok = ~ RemoveMember(f[k - 1], g, seq[k]).crashed]]
           run == CHOOSE f : Is(f)
<1>1. Each(s, LAMBDA u, i : RemoveMember(u, g, i), seq) = run[Len(seq)]
  BY DEF Each
<1>2. \A f : Is(f) <=> Runs("leave", g, s, n, seq, f)
  BY DEF Runs, DoNext, Do
<1>3. Is(run)
  <2>1. \E f : Is(f)
    BY <1>2, RunExists
  <2> QED
    BY <2>1
<1>4. Runs("leave", g, s, n, seq, run)
  <2> HIDE DEF Is, run
  <2> QED
    BY <1>2, <1>3
<1> HIDE DEF run
<1>5. ASSUME NEW k \in 1 .. n, NEW t, Consistent(t)
      PROVE  Consistent(Do("leave", g, t, k, seq[k]))
  BY <1>5, RemoveMemberOK DEF Do
<1>6. Consistent(run[n])
  BY <1>4, <1>5, ConsistentAllAlong
<1> QED
  BY <1>1, <1>6

LEMMA RemoveInterfaceOK ==
    ASSUME NEW s, Consistent(s), NEW g \in Name \cup {None}, NEW x \in Device \cup Pattern
    PROVE  Consistent(RemoveInterface(s, g, x))
<1> DEFINE Mine(m) == m.prefix = x /\ g \in {None, m.group}
           q == SelectInSeq(s.matchers, LAMBDA m : Mine(m) /\ m.source)
           last == IF q = 0 THEN Len(s.matchers) ELSE q - 1
           is == {j \in DOMAIN s.matchers : j > last \/ ~ Mine(s.matchers[j])}
           t == [s EXCEPT !.matchers = Cells(s.matchers, is)]
           present == Match[x] \cap t.devices
<1>1. Consistent(Fail(s)) /\ Consistent(Crash(s))
  BY FailOK
<1>2. Consistent(t)
  <2>1. is \in SUBSET (DOMAIN s.matchers)
    OBVIOUS
  <2> HIDE DEF is
  <2> QED
    BY <2>1, RemoveMatchersOK
<1>3. x \notin Pattern => Consistent(IF x \in s.devices THEN RemoveMember(s, g, x) ELSE Fail(s))
  BY <1>1, RemoveMemberOK
<1>4. Consistent(RemoveGroups(t, Prefixed(t, s.matchers[q].group)))
  <2> HIDE DEF t, q
  <2> QED
    BY <1>2, RemoveGroupsOK
<1> HIDE DEF t
<1>5. x \in Pattern => Consistent(Each(t, LAMBDA u, i : RemoveMember(u, g, i), Reverse(ByIndex(present))))
  <2> SUFFICES ASSUME x \in Pattern
               PROVE  Consistent(Each(t, LAMBDA u, i : RemoveMember(u, g, i), Reverse(ByIndex(present))))
    OBVIOUS
  <2>1. present \in SUBSET Nat /\ IsFiniteSet(present)
    <3>1. present \subseteq Device
      BY <1>2 DEF Consistent, IfacesOK
    <3> HIDE DEF present
    <3> QED
      BY <3>1, DeviceAssumption, FS_Subset
  <2> HIDE DEF present
  <2> DEFINE n == Cardinality(present)
             seq == ByIndex(present)
  <2>2. n \in Nat /\ seq \in [1 .. n -> present]
    BY <2>1, ByIndexOK
  <2> HIDE DEF n, seq
  <2>3. Len(seq) = n
    BY <2>2
  <2>4. Len(Reverse(seq)) = n
    BY <2>2, <2>3 DEF Reverse
  <2> DEFINE r == Reverse(seq)
  <2>5. Len(r) = n
    BY <2>4
  <2> HIDE DEF r
  <2>6. Len(r) \in Nat
    BY <2>2, <2>5
  <2>7. Consistent(Each(t, LAMBDA u, i : RemoveMember(u, g, i), r))
    BY <1>2, <2>6, LeaveAllOK
  <2> QED
    BY <2>7 DEF r, seq
<1> DEFINE freed == \E m \in ToSet(s.matchers) : m.prefix = x /\ m.group = Freed
           one == IF x \in s.devices THEN RemoveMember(s, g, x) ELSE Fail(s)
           groups_ == RemoveGroups(t, Prefixed(t, s.matchers[q].group))
           each == Each(t, LAMBDA u, i : RemoveMember(u, g, i), Reverse(ByIndex(present)))
<1>6. RemoveInterface(s, g, x) = IF x \notin Pattern THEN one ELSE IF freed THEN Crash(s)
                                 ELSE IF q # 0 THEN groups_ ELSE each
  BY DEF RemoveInterface, t
<1> HIDE DEF one, freed, groups_, each, q
<1> QED
  BY <1>1, <1>3, <1>4, <1>5, <1>6 DEF one, groups_, each

LEMMA RemoveAllOK ==
    ASSUME NEW s, Consistent(s), NEW x \in Device \cup Pattern, NEW n \in Nat,
           NEW seq \in [1 .. n -> Name \cup {None}]
    PROVE  Consistent(Each(s, LAMBDA u, h : RemoveInterface(u, h, x), seq))
<1> DEFINE Is(f) == f = [k \in 0 .. Len(seq) |->
                            IF k = 0 THEN s ELSE IF f[k - 1].crashed THEN f[k - 1]
                            ELSE [RemoveInterface(f[k - 1], seq[k], x)
                                    EXCEPT !.ok = ~ RemoveInterface(f[k - 1], seq[k], x).crashed]]
           run == CHOOSE f : Is(f)
<1>1. Each(s, LAMBDA u, h : RemoveInterface(u, h, x), seq) = run[Len(seq)]
  BY DEF Each
<1>2. Len(seq) = n
  OBVIOUS
<1>3. \A f : Is(f) <=> Runs("remove", x, s, n, seq, f)
  BY <1>2 DEF Runs, DoNext, Do
<1>4. Is(run)
  <2>1. \E f : Is(f)
    BY <1>3, RunExists
  <2> QED
    BY <2>1
<1>5. Runs("remove", x, s, n, seq, run)
  <2> HIDE DEF Is, run
  <2> QED
    BY <1>3, <1>4
<1> HIDE DEF run
<1>6. ASSUME NEW k \in 1 .. n, NEW t, Consistent(t)
      PROVE  Consistent(Do("remove", x, t, k, seq[k]))
  BY <1>6, RemoveInterfaceOK DEF Do
<1>7. Consistent(run[n])
  BY <1>5, <1>6, ConsistentAllAlong
<1> QED
  BY <1>1, <1>2, <1>7

LEMMA PlaceAllOK ==
    ASSUME NEW s, Consistent(s), NEW i \in Device, NEW list \in Seq(Matcher),
           \A k \in DOMAIN list : MatcherOK(s, list[k])
    PROVE  Consistent(Each(s, LAMBDA t, m : MatchInterface(t, m, i), list))
<1> DEFINE n == Len(list)
           Is(f) == f = [k \in 0 .. n |->
                            IF k = 0 THEN s ELSE IF f[k - 1].crashed THEN f[k - 1]
                            ELSE [MatchInterface(f[k - 1], list[k], i)
                                    EXCEPT !.ok = ~ MatchInterface(f[k - 1], list[k], i).crashed]]
           run == CHOOSE f : Is(f)
<1>1. Each(s, LAMBDA t, m : MatchInterface(t, m, i), list) = run[n]
  BY DEF Each
<1>2. n \in Nat /\ DOMAIN list = 1 .. n
  OBVIOUS
<1> HIDE DEF n
<1>3. \A f : Is(f) <=> Runs("place", i, s, n, list, f)
  BY DEF Runs, DoNext, Do
<1>4. Is(run)
  <2>1. \E f : Is(f)
    BY <1>2, <1>3, RunExists
  <2> QED
    BY <2>1
<1>5. Runs("place", i, s, n, list, run)
  <2> HIDE DEF Is, run
  <2> QED
    BY <1>3, <1>4
<1> HIDE DEF run
<1>6. ASSUME NEW k \in 1 .. n, NEW t, Grows(s, t)
      PROVE  Grows(s, Do("place", i, t, k, list[k]))
  <2>1. Grows(t, MatchInterface(t, list[k], i))
    BY <1>2, <1>6, MatcherStays, MatchInterfaceOK DEF Grows
  <2> QED
    BY <1>6, <2>1, GrowsOn DEF Do
<1>7. Grows(s, run[n])
  BY <1>2, <1>5, <1>6, GrowsAllAlong
<1> QED
  BY <1>1, <1>7 DEF Grows

-----------------------------------------------------------------------------
\* Commands and events

LEMMA SmfFields ==
    /\ Shape(Smf) /\ Smf.crashed = FALSE
    /\ Smf.devices = devices /\ Smf.groups = groups /\ Smf.ifaces = ifaces /\ Smf.assoc = assoc
    /\ Smf.input = input /\ Smf.resequence = resequence /\ Smf.matchers = matchers
  BY DEF Smf, Shape

\* A copy of the state that differs in its devices.
LEMMA DevicesOK ==
    ASSUME Consistent(Smf), NEW D \in SUBSET Device, NEW s, s = [Smf EXCEPT !.devices = D]
    PROVE  Consistent(s) /\ s.groups = groups
<1>1. /\ Shape(s) /\ s.devices = D
      /\ s.groups = Smf.groups /\ s.ifaces = Smf.ifaces /\ s.assoc = Smf.assoc /\ s.input = Smf.input
      /\ s.resequence = Smf.resequence /\ s.matchers = Smf.matchers
  BY SmfFields DEF Shape
<1> QED
  BY <1>1, SmfFields, SameOK

LEMMA BecomeOK ==
    ASSUME IInv, NEW s, Consistent(s), Become(s)
    PROVE  IInv'
<1>1. s.crashed \in BOOLEAN /\ crashed' = s.crashed /\ devices' = s.devices
  BY DEF Consistent, Shape, Become
<1>2. /\ Shape(Smf')
      /\ Smf'.devices = devices' /\ Smf'.groups = groups' /\ Smf'.ifaces = ifaces' /\ Smf'.assoc = assoc'
      /\ Smf'.input = input' /\ Smf'.resequence = resequence' /\ Smf'.matchers = matchers'
  BY DEF Smf, Shape
<1>3. s.devices \subseteq Device
  BY DEF Consistent, IfacesOK
<1>4. CASE s.crashed
  <2>1. /\ groups' = groups /\ ifaces' = ifaces /\ assoc' = assoc /\ input' = input
        /\ resequence' = resequence /\ matchers' = matchers
    BY <1>4 DEF Become
  <2>2. Consistent(Smf')
    BY <1>1, <1>2, <1>3, <2>1, SmfFields, SameOK DEF IInv
  <2> QED
    BY <1>1, <2>2 DEF IInv
<1>5. CASE ~ s.crashed
  <2>1. /\ groups' = s.groups /\ ifaces' = s.ifaces /\ assoc' = s.assoc /\ input' = s.input
        /\ resequence' = s.resequence /\ matchers' = s.matchers
    BY <1>5 DEF Become
  <2>2. Consistent(Smf')
    BY <1>1, <1>2, <1>3, <2>1, SameOK
  <2> QED
    BY <1>1, <2>2 DEF IInv
<1> QED
  BY <1>1, <1>4, <1>5

LEMMA InitIInv == Init => IInv
<1> SUFFICES ASSUME Init PROVE IInv
  OBVIOUS
<1>1. DOMAIN groups = {} /\ DOMAIN assoc = {} /\ InGroup(Smf) = {}
  BY SmfFields DEF Init, InGroup
<1>2. GroupsOK(Smf)
  BY <1>1, SmfFields, FS_EmptySet DEF GroupsOK
<1>3. IfacesOK(Smf)
  BY <1>1, SmfFields DEF Init, IfacesOK
<1>4. AssocOK(Smf) /\ NoRelay(Smf) /\ AllWork(Smf)
  BY <1>1, SmfFields DEF Init, AssocOK, NoRelay, AllWork
<1>5. MatchersOK(Smf)
  BY SmfFields DEF Init, MatchersOK
<1> QED
  BY <1>2, <1>3, <1>4, <1>5, SmfFields DEF IInv, Consistent, Init

LEMMA NextIInv == IInv /\ [Next]_vars => IInv'
<1> SUFFICES ASSUME IInv, [Next]_vars PROVE IInv'
  OBVIOUS
<1>1. Consistent(Smf) /\ GroupsOK(Smf) /\ MatchersOK(Smf) /\ devices \subseteq Device
  BY SmfFields DEF IInv, Consistent, IfacesOK
<1>2. Consistent(Fail(Smf))
  BY <1>1, FailOK
<1>3. ASSUME NEW c \in Config, Configure(c)
      PROVE  IInv'
  BY <1>1, <1>3, ParseInterfaceListOK, BecomeOK DEF Configure
<1>4. ASSUME NEW g \in Name, RemoveNamed(g)
      PROVE  IInv'
  <2> DEFINE G == IF g \in DOMAIN groups THEN {g} ELSE Prefixed(Smf, g)
             s == IF G # {} THEN RemoveGroups(Smf, G)
                  ELSE IF g[2] \in Device THEN RemoveInterface(Smf, None, g[2]) ELSE Fail(Smf)
  <2>1. Become(s)
    BY <1>4 DEF RemoveNamed
  <2>2. Consistent(s)
    <3> HIDE DEF G
    <3> QED
      BY <1>1, <1>2, RemoveGroupsOK, RemoveInterfaceOK
  <2> HIDE DEF s
  <2> QED
    BY <2>1, <2>2, BecomeOK
<1>5. ASSUME NEW g \in Name, RemovePush(g)
      PROVE  IInv'
  BY <1>1, <1>5, RemoveGroupsOK, BecomeOK DEF RemovePush
<1>6. ASSUME NEW x \in Device \cup Pattern, RemoveEverywhere(x)
      PROVE  IInv'
  BY <1>1, <1>6, RemoveInterfaceOK, BecomeOK DEF RemoveEverywhere
<1>7. ASSUME NEW g \in Name, NEW x \in Device \cup Pattern, RemoveMembers(g, x)
      PROVE  IInv'
  <2> DEFINE G == IF g[2] \in Pattern THEN Prefixed(Smf, g) ELSE {g}
             s == Each(Smf, LAMBDA u, h : RemoveInterface(u, h, x), SetToSeq(G))
  <2>1. Become(s)
    BY <1>7 DEF RemoveMembers
  <2>2. G \subseteq DOMAIN Smf.groups
    BY <1>7, SmfFields DEF RemoveMembers, Prefixed
  <2>3. G \subseteq Name /\ IsFiniteSet(G)
    BY <1>1, <2>2, FS_Subset DEF GroupsOK
  <2> HIDE DEF G
  <2>4. Cardinality(G) \in Nat /\ SetToSeq(G) \in [1 .. Cardinality(G) -> Name \cup {None}]
    BY <2>3, SetToSeqOK
  <2>5. Consistent(s)
    BY <1>1, <2>4, RemoveAllOK
  <2> HIDE DEF s
  <2> QED
    BY <2>1, <2>5, BecomeOK
<1>8. ASSUME NEW i \in Device, IfaceUp(i)
      PROVE  IInv'
  <2> DEFINE D == devices \cup {i}
             s == [Smf EXCEPT !.devices = D]
             is == {k \in DOMAIN matchers : i \in Match[matchers[k].prefix]}
             list == Cells(matchers, is)
             u == Each(s, LAMBDA t, m : MatchInterface(t, m, i), list)
  <2>1. Become(u)
    BY <1>8, SmfFields DEF IfaceUp
  <2>2. Consistent(s) /\ s.groups = groups
    <3>1. D \in SUBSET Device
      BY <1>1
    <3> HIDE DEF D
    <3> QED
      BY <1>1, <3>1, DevicesOK
  <2> HIDE DEF s
  <2>3. matchers \in Seq(Matcher) /\ \A k \in DOMAIN matchers : MatcherOK(s, matchers[k])
    BY <1>1, <2>2, SmfFields DEF MatchersOK, MatcherOK
  <2>4. is \in SUBSET (DOMAIN matchers)
    OBVIOUS
  <2> HIDE DEF is
  <2>5. list \in Seq(Matcher) /\ \A k \in DOMAIN list : \E n \in is : list[k] = matchers[n]
    BY <2>3, <2>4, CellsOK
  <2> HIDE DEF list
  <2>6. \A k \in DOMAIN list : MatcherOK(s, list[k])
    BY <2>3, <2>4, <2>5
  <2>7. Consistent(u)
    BY <2>2, <2>5, <2>6, PlaceAllOK
  <2> HIDE DEF u
  <2> QED
    BY <2>1, <2>7, BecomeOK
<1>9. ASSUME NEW i \in Device, IfaceDown(i)
      PROVE  IInv'
  <2> DEFINE D == devices \ {i}
             s == [Smf EXCEPT !.devices = D]
  <2>1. Become(DropInterface(s, i))
    BY <1>9, SmfFields DEF IfaceDown
  <2>2. Consistent(s)
    <3>1. D \in SUBSET Device
      BY <1>1
    <3> HIDE DEF D
    <3> QED
      BY <1>1, <3>1, DevicesOK
  <2> HIDE DEF s
  <2> QED
    BY <2>1, <2>2, DropInterfaceOK, BecomeOK
<1>10. CASE UNCHANGED vars
  <2>1. UNCHANGED Smf
    BY <1>10 DEF vars, Smf
  <2> QED
    BY <1>10, <2>1 DEF IInv, vars
<1> QED
  BY <1>3, <1>4, <1>5, <1>6, <1>7, <1>8, <1>9, <1>10 DEF Next

LEMMA SpecIInv == Spec => []IInv
  BY InitIInv, NextIInv, PTL DEF Spec

\* However commands and devices come, fail half way or end the program: the
\* interfaces that exist are those in some group, associations connect only
\* them, and the source of a push group is one of its members.
THEOREM GroupsStayTyped == Spec => []TypeOK
<1>1. IInv => TypeOK
  <2> SUFFICES ASSUME IInv PROVE TypeOK
    OBVIOUS
  <2>1. GroupsOK(Smf) /\ IfacesOK(Smf) /\ AssocOK(Smf) /\ MatchersOK(Smf) /\ crashed \in BOOLEAN
    BY DEF IInv, Consistent
  <2>2. /\ DOMAIN groups \subseteq Name
        /\ \A g \in DOMAIN groups : groups[g] \in Group /\ groups[g].source \in groups[g].members \cup {None}
    BY <2>1, SmfFields DEF GroupsOK, GroupOK
  <2>3. /\ devices \in SUBSET Device /\ ifaces = InGroup(Smf)
        /\ input \subseteq ifaces /\ resequence \subseteq ifaces
    BY <2>1, SmfFields DEF IfacesOK
  <2>4. /\ DOMAIN assoc \subseteq ifaces \X ifaces
        /\ \A p \in DOMAIN assoc : assoc[p] \in DOMAIN groups \cup {Freed}
    BY <2>1, SmfFields DEF AssocOK
  <2>5. ToSet(matchers) \subseteq Matcher
    BY <2>1, SmfFields DEF MatchersOK, ToSet
  <2> QED
    BY <2>1, <2>2, <2>3, <2>4, <2>5 DEF TypeOK
<1> QED
  BY <1>1, SpecIInv, PTL

\* A group whose last update succeeded keeps working as configured, whatever
\* becomes of other groups and of single interfaces.
THEOREM CompleteGroupsWork == Spec => []GroupsWork
<1>1. IInv => GroupsWork
  BY SmfFields DEF IInv, Consistent, AllWork, Works, GroupsWork
<1> QED
  BY <1>1, SpecIInv, PTL

\* No sequence of commands makes an interface that resequences relay to itself.
THEOREM ResequencersDoNotRelay == Spec => []ResequencedIsNoRelay
<1>1. IInv => ResequencedIsNoRelay
  BY SmfFields DEF IInv, Consistent, NoRelay, ResequencedIsNoRelay
<1> QED
  BY <1>1, SpecIInv, PTL

-----------------------------------------------------------------------------
\* The copies on their way

\* Every copy a node transmits is a copy: it goes to an interface in range,
\* with a TTL that is not used up.
LEMMA TransmissionsType ==
    ASSUME NEW p \in Packet, NEW outs, NEW ttl,
           outs # {} => ttl \in 1 .. InitTtl
    PROVE  Transmissions(p, outs, ttl) \subseteq Copy
<1> SUFFICES ASSUME NEW l \in Hears, l[1] \in outs
             PROVE  [pkt |-> p, from |-> l[1], to |-> l[2], ttl |-> ttl] \in Copy
  BY DEF Transmissions
<1>1. l[1] \in Iface /\ l[2] \in Iface
  BY HearsAssumption
<1> QED
  BY <1>1 DEF Copy

\* What ProcessPacket decides about a copy.
LEMMA Decision ==
    ASSUME NEW c \in Copy
    PROVE  /\ Destinations(c) \subseteq Checked(c)
           /\ Checked(c) \subseteq Marked(c)
           /\ \A j \in Destinations(c) : /\ c.pkt \notin dpd[j]
                                         /\ NodeOf[j] = NodeOf[c.to]
           /\ Destinations(c) # {} => c.ttl - 1 \in 1 .. InitTtl
<1>1. c.ttl \in 1 .. InitTtl
  BY DEF Copy
<1>2. InitTtl \in Int
  BY OriginAssumption
<1>3. \A j \in Checked(c) : NodeOf[j] = NodeOf[c.to]
  BY AssocAssumption DEF Checked
<1>4. Destinations(c) \subseteq Checked(c) /\ Checked(c) \subseteq Marked(c)
  BY DEF Destinations, Marked
<1>5. ASSUME NEW j \in Destinations(c)
      PROVE  c.pkt \notin dpd[j] /\ NodeOf[j] = NodeOf[c.to]
  BY <1>3, <1>4 DEF Destinations
<1>6. ASSUME Destinations(c) # {} PROVE c.ttl - 1 \in 1 .. InitTtl
  <2>1. c.ttl > 1
    BY <1>6 DEF Destinations
  <2> QED
    BY <1>1, <1>2, <2>1
<1> QED
  BY <1>4, <1>5, <1>6

-----------------------------------------------------------------------------
\* Types

LEMMA FloodInitType == FloodInit => FloodTypeOK
<1> SUFFICES ASSUME FloodInit PROVE FloodTypeOK
  OBVIOUS
<1>1. 0 \in Nat
  OBVIOUS
<1> QED
  BY <1>1, ListAssumption DEF FloodInit, FloodTypeOK, Counts

LEMMA FloodNextType == FloodTypeOK /\ [FloodNext]_floodVars => FloodTypeOK'
<1> SUFFICES ASSUME FloodTypeOK, [FloodNext]_floodVars PROVE FloodTypeOK'
  OBVIOUS
<1> USE DEF FloodTypeOK, switches, lists, history
<1>1. ASSUME NEW c \in air, Receive(c) PROVE FloodTypeOK'
  <2> USE <1>1
  <2>0. c \in Copy
    OBVIOUS
  <2>1. /\ c.pkt \in Packet /\ c.to \in Iface /\ c.from \in Iface
        /\ NodeOf[c.to] \in Node
    BY <2>0, NodeAssumption DEF Copy
  <2>2. air' \subseteq Copy
    <3>1. Transmissions(c.pkt, Destinations(c), c.ttl - 1) \subseteq Copy
      BY <2>0, <2>1, Decision, TransmissionsType
    <3> QED
      BY <3>1 DEF Receive
  <2>3. dpd' \in [Iface -> SUBSET Packet]
    BY <2>1 DEF Receive
  <2>4. tx' \in Counts /\ forgot' \in Counts
    <3>1. CASE UNCHANGED tx
      BY <3>1 DEF Receive, Counts
    <3>2. CASE tx' = [j \in Iface |-> [tx[j] EXCEPT ![c.pkt] =
                                         IF j \in Destinations(c) THEN @ + 1 ELSE @]]
      <4>1. ASSUME NEW j \in Iface
            PROVE  [tx[j] EXCEPT ![c.pkt] = IF j \in Destinations(c) THEN @ + 1 ELSE @]
                     \in [Packet -> Nat]
        BY <2>1 DEF Counts
      <4> QED
        BY <3>2, <4>1 DEF Receive, Counts
    <3> QED
      BY <3>1, <3>2 DEF Receive
  <2>5. heard' \in [Node -> SUBSET Packet]
    BY <2>1 DEF Receive
  <2>6. first' \in [Iface -> [Packet -> {"none", "selector", "neighbor"}]]
    <3>1. FirstFrom(c) \in {"none", "selector", "neighbor"}
      BY <2>1 DEF FirstFrom
    <3> QED
      BY <2>1, <3>1 DEF Receive
  <2> QED
    BY <2>2, <2>3, <2>4, <2>5, <2>6 DEF Receive
<1>2. ASSUME NEW p \in Packet, Originate(p) PROVE FloodTypeOK'
  <2>1. Origin[p] \in Iface /\ NodeOf[Origin[p]] \in Node /\ InitTtl \in 1 .. InitTtl
    BY OriginAssumption, NodeAssumption
  <2>2. Transmissions(p, {Origin[p]}, InitTtl) \subseteq Copy
    BY <2>1, TransmissionsType
  <2> QED
    BY <1>2, <2>1, <2>2 DEF Originate
<1>3. ASSUME NEW i \in Iface, NEW p \in Packet, Forget(i, p) PROVE FloodTypeOK'
  <2>1. forgot' \in Counts
    BY <1>3 DEF Forget, Counts
  <2> QED
    BY <1>3, <2>1 DEF Forget
<1>4. ASSUME NEW n, SelectRelay(n) \/ DeselectRelay(n) \/ OnDelayRelayOffTimeout(n)
      PROVE  FloodTypeOK'
  BY <1>4 DEF SelectRelay, DeselectRelay, OnDelayRelayOffTimeout
<1>5. ASSUME NEW n, NEW b \in BOOLEAN, SetRelayEnabled(n, b) \/ SetDelayTime(n, b)
      PROVE  FloodTypeOK'
  BY <1>5 DEF SetRelayEnabled, SetDelayTime
<1>6. ASSUME NEW n, NEW macs \in SUBSET Iface, SetSelectorList(n, macs) \/ SetNeighborList(n, macs)
      PROVE  FloodTypeOK'
  BY <1>6 DEF SetSelectorList, SetNeighborList
<1>7. CASE UNCHANGED floodVars
  BY <1>7 DEF floodVars
<1> QED
  BY <1>1, <1>2, <1>3, <1>4, <1>5, <1>6, <1>7, ForgetAssumption, ListAssumption
     DEF FloodNext, Deliver, Timeout, Command

LEMMA FloodSpecType == FloodSpec => []FloodTypeOK
BY FloodInitType, FloodNextType, PTL DEF FloodSpec

-----------------------------------------------------------------------------
\* At most once

\* The packet is not one of the interface's own node.
Foreign(i, p) == NodeOf[i] # NodeOf[Origin[p]]

\* Whatever an interface forwarded its detector knows, unless it has forgotten
\* it once for each time it forwarded it.
TransmittedIsKnown ==
    \A i \in Iface, p \in Packet :
        tx[i][p] <= IF ~Foreign(i, p) THEN 0
                    ELSE forgot[i][p] + (IF p \in dpd[i] THEN 1 ELSE 0)

LEMMA InitTransmitted == FloodInit => TransmittedIsKnown
BY DEF FloodInit, TransmittedIsKnown

LEMMA NextTransmitted == FloodTypeOK /\ TransmittedIsKnown /\ [FloodNext]_floodVars => TransmittedIsKnown'
<1> SUFFICES ASSUME FloodTypeOK, TransmittedIsKnown, [FloodNext]_floodVars,
                    NEW i \in Iface, NEW p \in Packet
             PROVE  tx'[i][p] <= IF ~Foreign(i, p) THEN 0
                                 ELSE forgot'[i][p] + (IF p \in dpd'[i] THEN 1 ELSE 0)
  BY DEF TransmittedIsKnown, Foreign
<1> DEFINE Bound == IF ~Foreign(i, p) THEN 0
                    ELSE forgot[i][p] + (IF p \in dpd[i] THEN 1 ELSE 0)
<1>0. /\ tx[i][p] \in Nat /\ forgot[i][p] \in Nat
      /\ tx[i][p] <= Bound
  BY DEF FloodTypeOK, Counts, TransmittedIsKnown
<1>1. ASSUME NEW c \in air, Receive(c) PROVE tx'[i][p] <= Bound'
  <2> USE <1>1
  <2>0. c \in Copy /\ c.pkt \in Packet
    BY DEF FloodTypeOK, Copy
  <2>1. forgot' = forgot
    BY DEF Receive, history
  <2>2. CASE UNCHANGED << dpd, tx >>
    BY <1>0, <2>1, <2>2 DEF Foreign
  <2>3. CASE /\ NodeOf[Origin[c.pkt]] # NodeOf[c.to]
             /\ dpd' = [j \in Iface |-> dpd[j] \cup {r \in {c.pkt} : j \in Marked(c)}]
             /\ tx' = [j \in Iface |-> [tx[j] EXCEPT ![c.pkt] =
                                         IF j \in Destinations(c) THEN @ + 1 ELSE @]]
    <3>1. CASE p = c.pkt /\ i \in Destinations(c)
      <4>1. tx'[i][p] = tx[i][p] + 1
        BY <2>0, <2>3, <3>1 DEF FloodTypeOK, Counts
      <4>2. p \notin dpd[i] /\ NodeOf[i] = NodeOf[c.to] /\ i \in Marked(c)
        BY <2>0, <3>1, Decision
      <4>3. p \in dpd'[i] /\ Foreign(i, p)
        BY <2>3, <3>1, <4>2 DEF Foreign
      <4> QED
        BY <1>0, <2>1, <4>1, <4>2, <4>3
    <3>2. CASE ~(p = c.pkt /\ i \in Destinations(c))
      <4>1. tx'[i][p] = tx[i][p]
        BY <2>0, <2>3, <3>2 DEF FloodTypeOK, Counts
      <4>2. p \in dpd[i] => p \in dpd'[i]
        BY <2>3
      <4> QED
        BY <1>0, <2>1, <4>1, <4>2 DEF Foreign
    <3> QED
      BY <3>1, <3>2
  <2> QED
    BY <2>2, <2>3 DEF Receive
<1>2. ASSUME NEW r \in Packet, Originate(r) PROVE tx'[i][p] <= Bound'
  BY <1>0, <1>2 DEF Originate, Foreign
<1>3. ASSUME NEW j \in Iface, NEW r \in Packet, Forget(j, r) PROVE tx'[i][p] <= Bound'
  <2>1. tx' = tx
    BY <1>3 DEF Forget
  <2>2. CASE i = j /\ p = r
    <3>1. forgot'[i][p] = forgot[i][p] + 1 /\ p \in dpd[i]
      BY <1>3, <2>2 DEF Forget, FloodTypeOK, Counts
    <3> QED
      BY <1>0, <2>1, <3>1 DEF Foreign
  <2>3. CASE ~(i = j /\ p = r)
    <3>1. forgot'[i][p] = forgot[i][p] /\ (p \in dpd[i] <=> p \in dpd'[i])
      BY <1>3, <2>3 DEF Forget, FloodTypeOK, Counts
    <3> QED
      BY <1>0, <2>1, <3>1 DEF Foreign
  <2> QED
    BY <2>2, <2>3
<1>4. ASSUME UNCHANGED << dpd, tx, forgot >> PROVE tx'[i][p] <= Bound'
  BY <1>0, <1>4 DEF Foreign
<1>5. ASSUME Timeout \/ Command \/ UNCHANGED floodVars PROVE UNCHANGED << dpd, tx, forgot >>
  BY <1>5 DEF Timeout, Command, SelectRelay, DeselectRelay, OnDelayRelayOffTimeout,
     SetRelayEnabled, SetDelayTime, SetSelectorList, SetNeighborList, floodVars, history
<1> QED
  BY <1>1, <1>2, <1>3, <1>4, <1>5, ForgetAssumption DEF FloodNext, Deliver

\* However copies, losses, commands and forgetting interleave, an interface
\* forwards a packet at most once more than its detector forgot it, and the
\* node a packet comes from never does.
THEOREM EachInterfaceOnce == FloodSpec => []TransmitsOnce
<1>1. FloodTypeOK /\ TransmittedIsKnown => TransmitsOnce
  <2> SUFFICES ASSUME FloodTypeOK, TransmittedIsKnown, NEW i \in Iface, NEW p \in Packet
               PROVE  tx[i][p] <= IF NodeOf[i] = NodeOf[Origin[p]] THEN 0 ELSE 1 + forgot[i][p]
    BY DEF TransmitsOnce
  <2>1. tx[i][p] \in Nat /\ forgot[i][p] \in Nat
    BY DEF FloodTypeOK, Counts
  <2> QED
    BY <2>1 DEF TransmittedIsKnown, Foreign
<1> QED
  BY <1>1, InitTransmitted, NextTransmitted, FloodSpecType, PTL DEF FloodSpec

-----------------------------------------------------------------------------
\* The relay switch

LEMMA NextCommanded == FloodTypeOK /\ RelayAsCommanded /\ [FloodNext]_floodVars => RelayAsCommanded'
<1> SUFFICES ASSUME FloodTypeOK, RelayAsCommanded, [FloodNext]_floodVars PROVE RelayAsCommanded'
  OBVIOUS
<1> USE DEF RelayAsCommanded, FloodTypeOK
<1>1. ASSUME NEW n, SelectRelay(n) PROVE RelayAsCommanded'
  BY <1>1 DEF SelectRelay
<1>2. ASSUME NEW n, DeselectRelay(n) PROVE RelayAsCommanded'
  BY <1>2 DEF DeselectRelay
<1>3. ASSUME NEW n, OnDelayRelayOffTimeout(n) PROVE RelayAsCommanded'
  BY <1>3 DEF OnDelayRelayOffTimeout
<1>4. ASSUME UNCHANGED << relay_selected, delay_relay_off_timer, command >>
      PROVE  RelayAsCommanded'
  BY <1>4
<1>5. ASSUME NEW n, NEW x,
             \/ SetRelayEnabled(n, x) \/ SetDelayTime(n, x)
             \/ SetSelectorList(n, x) \/ SetNeighborList(n, x)
             \/ Receive(x) \/ Originate(x) \/ Forget(n, x) \/ UNCHANGED floodVars
      PROVE  UNCHANGED << relay_selected, delay_relay_off_timer, command >>
  BY <1>5 DEF SetRelayEnabled, SetDelayTime, SetSelectorList, SetNeighborList, Receive,
     Originate, Forget, floodVars, switches
<1> QED
  BY <1>1, <1>2, <1>3, <1>4, <1>5 DEF FloodNext, Deliver, Timeout, Command

\* A relay is switched as it was last commanded: a delayed switch-off never
\* survives "relay on", and "relay off" is done or pending whatever "delayoff"
\* was set to in between.
THEOREM RelayObeys == FloodSpec => []RelayAsCommanded
<1>1. FloodInit => RelayAsCommanded
  BY DEF FloodInit, RelayAsCommanded
<1> QED
  BY <1>1, NextCommanded, FloodSpecType, PTL DEF FloodSpec

-----------------------------------------------------------------------------
\* The S-MPR rule

\* An interface that relays by S-MPR to itself only.
SmprOnly(i) == {a \in Assoc : a[2] = i} = {<< i, i >>} /\ RelayType[<< i, i >>] = "S_MPR"

\* The detector stands for the record of who was first that the code does not
\* keep: a packet first heard from a neighbor that is no selector is known.
FirstIsRecorded ==
    \A i \in Iface, p \in Packet :
        SmprOnly(i) /\ Foreign(i, p) /\ forgot[i][p] = 0 =>
            /\ first[i][p] = "neighbor" => p \in dpd[i]
            /\ tx[i][p] > 0 => first[i][p] = "selector"

\* Such an interface relays only what it heard itself, from a selector.
LEMMA SmprDecision ==
    ASSUME FloodTypeOK, NEW c \in Copy, NEW i \in Iface, SmprOnly(i)
    PROVE  /\ i \in Destinations(c) =>
                i = c.to /\ c.from \in selector_list[NodeOf[i]]
           /\ i = c.to /\ (\/ c.from \in selector_list[NodeOf[i]] /\ relay_enabled[NodeOf[i]]
                          \/ c.from \in neighbor_list[NodeOf[i]])
                => i \in Marked(c)
<1>1. \A k \in Iface : << k, i >> \in Assoc <=> k = i
  BY DEF SmprOnly
<1>2. RelayType[<< i, i >>] = "S_MPR"
  BY DEF SmprOnly
<1>3. c.to \in Iface
  BY DEF Copy
<1>4. i \in Destinations(c) => i = c.to /\ c.from \in selector_list[NodeOf[i]]
  <2> HAVE i \in Destinations(c)
  <2>1. << c.to, i >> \in Assoc /\ Relays(NodeOf[i], RelayType[<< c.to, i >>], c.from)
    BY DEF Destinations, Checked
  <2>2. i = c.to
    BY <1>1, <1>3, <2>1
  <2> QED
    BY <1>2, <2>1, <2>2 DEF Relays
<1>5. ASSUME i = c.to, \/ c.from \in selector_list[NodeOf[i]] /\ relay_enabled[NodeOf[i]]
                       \/ c.from \in neighbor_list[NodeOf[i]]
      PROVE  i \in Marked(c)
  <2>1. << c.to, i >> \in Assoc /\ RelayType[<< c.to, i >>] = "S_MPR"
    BY <1>1, <1>2, <1>5
  <2> QED
    BY <1>5, <2>1 DEF Marked, Checked, Relays
<1> QED
  BY <1>4, <1>5

LEMMA NextFirst == FloodTypeOK /\ FirstIsRecorded /\ [FloodNext]_floodVars => FirstIsRecorded'
<1> SUFFICES ASSUME FloodTypeOK, FirstIsRecorded, [FloodNext]_floodVars,
                    NEW i \in Iface, NEW p \in Packet,
                    SmprOnly(i), Foreign(i, p), forgot'[i][p] = 0
             PROVE  /\ first'[i][p] = "neighbor" => p \in dpd'[i]
                    /\ tx'[i][p] > 0 => first'[i][p] = "selector"
  BY DEF FirstIsRecorded, SmprOnly, Foreign
<1> DEFINE Goal == /\ first'[i][p] = "neighbor" => p \in dpd'[i]
                   /\ tx'[i][p] > 0 => first'[i][p] = "selector"
<1>0. /\ tx[i][p] \in Nat /\ forgot[i][p] \in Nat
      /\ first[i][p] \in {"none", "selector", "neighbor"}
      /\ forgot[i][p] = 0 => /\ first[i][p] = "neighbor" => p \in dpd[i]
                             /\ tx[i][p] > 0 => first[i][p] = "selector"
  BY DEF FloodTypeOK, Counts, FirstIsRecorded
<1>1. ASSUME NEW c \in air, Receive(c) PROVE Goal
  <2> USE <1>1
  <2>0. c \in Copy /\ c.pkt \in Packet /\ c.to \in Iface
    BY DEF FloodTypeOK, Copy
  <2>1. forgot' = forgot
    BY DEF Receive, history
  <2>2. first'[i][p] = IF i = c.to /\ p = c.pkt THEN FirstFrom(c) ELSE first[i][p]
    BY <2>0 DEF Receive, FloodTypeOK
  <2>3. CASE NodeOf[Origin[c.pkt]] = NodeOf[c.to]
    <3>1. ~(i = c.to /\ p = c.pkt) /\ UNCHANGED << dpd, tx >>
      BY <2>3 DEF Receive, Foreign
    <3> QED
      BY <1>0, <2>1, <2>2, <3>1
  <2>4. CASE NodeOf[Origin[c.pkt]] # NodeOf[c.to]
    <3>1. p \in dpd'[i] <=> p \in dpd[i] \/ (p = c.pkt /\ i \in Marked(c))
      BY <2>0, <2>4 DEF Receive, FloodTypeOK
    <3>2. tx'[i][p] = IF p = c.pkt /\ i \in Destinations(c) THEN tx[i][p] + 1 ELSE tx[i][p]
      BY <2>0, <2>4 DEF Receive, FloodTypeOK, Counts
    <3>3. CASE i = c.to /\ p = c.pkt
      <4>1. FirstFrom(c) = IF first[i][p] # "none" THEN first[i][p]
                           ELSE IF c.from \in selector_list[NodeOf[i]] THEN "selector"
                           ELSE IF c.from \in neighbor_list[NodeOf[i]] THEN "neighbor" ELSE "none"
        BY <3>3 DEF FirstFrom
      <4>2. /\ i \in Destinations(c) => c.from \in selector_list[NodeOf[i]] /\ p \notin dpd[i]
            /\ c.from \in neighbor_list[NodeOf[i]] => i \in Marked(c)
        BY <2>0, <3>3, SmprDecision, Decision
      <4> QED
        BY <1>0, <2>1, <2>2, <3>1, <3>2, <3>3, <4>1, <4>2
    <3>4. CASE ~(i = c.to /\ p = c.pkt)
      <4>1. p = c.pkt => i \notin Destinations(c)
        BY <2>0, <3>4, SmprDecision
      <4> QED
        BY <1>0, <2>1, <2>2, <3>1, <3>2, <3>4, <4>1
    <3> QED
      BY <3>3, <3>4
  <2> QED
    BY <2>3, <2>4
<1>2. ASSUME NEW r \in Packet, Originate(r) PROVE Goal
  BY <1>0, <1>2 DEF Originate
<1>3. ASSUME NEW j \in Iface, NEW r \in Packet, Forget(j, r) PROVE Goal
  <2>1. UNCHANGED << first, tx >>
    BY <1>3 DEF Forget
  <2>2. ~(i = j /\ p = r)
    BY <1>0, <1>3 DEF Forget, FloodTypeOK, Counts
  <2>3. forgot'[i][p] = forgot[i][p] /\ (p \in dpd[i] <=> p \in dpd'[i])
    BY <1>3, <2>2 DEF Forget, FloodTypeOK, Counts
  <2> QED
    BY <1>0, <2>1, <2>3
<1>4. ASSUME UNCHANGED << dpd, first, tx, forgot >> PROVE Goal
  BY <1>0, <1>4
<1>5. ASSUME Timeout \/ Command \/ UNCHANGED floodVars PROVE UNCHANGED << dpd, first, tx, forgot >>
  BY <1>5 DEF Timeout, Command, SelectRelay, DeselectRelay, OnDelayRelayOffTimeout,
     SetRelayEnabled, SetDelayTime, SetSelectorList, SetNeighborList, floodVars, history
<1> QED
  BY <1>1, <1>2, <1>3, <1>4, <1>5, ForgetAssumption DEF FloodNext, Deliver

\* RFC 6621's S-MPR rule, without a record of who was first: an interface that
\* relays by it, and whose detector forgot nothing, relays a packet only if it
\* heard it first from a selector, whatever the lists were in between.
THEOREM SmprRule == FloodSpec => []FirstFromSelector
<1>1. FloodInit => FirstIsRecorded
  BY DEF FloodInit, FirstIsRecorded
<1>2. FloodTypeOK /\ TransmittedIsKnown /\ FirstIsRecorded => FirstFromSelector
  <2> SUFFICES ASSUME FloodTypeOK, TransmittedIsKnown, FirstIsRecorded,
                      NEW i \in Iface, NEW p \in Packet,
                      SmprOnly(i), tx[i][p] > 0, forgot[i][p] = 0
               PROVE  first[i][p] = "selector"
    BY DEF FirstFromSelector, SmprOnly
  <2>1. Foreign(i, p)
    BY DEF TransmittedIsKnown, FloodTypeOK, Counts
  <2> QED
    BY <2>1 DEF FirstIsRecorded
<1> QED
  BY <1>1, <1>2, InitTransmitted, NextTransmitted, NextFirst, FloodSpecType, PTL DEF FloodSpec
=============================================================================
