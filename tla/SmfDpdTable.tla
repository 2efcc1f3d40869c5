---------------------------- MODULE SmfDpdTable ----------------------------
(***************************************************************************)
(* Table based duplicate packet detection (class SmfDpdTable): per flow, a *)
(* tree of packet ids for the lookup and a singly linked list, oldest      *)
(* first, for eviction at the flow's limit and for aging.  Entries taken   *)
(* out go to item pools, one per id length, created when first needed.     *)
(*                                                                         *)
(* An entry carries its age in prune intervals, not its arrival time: all  *)
(* the code asks of the time is the difference.  Reading through a NULL    *)
(* pointer ends the program.                                               *)
(***************************************************************************)
EXTENDS Integers, Sequences, FiniteSets

CONSTANTS
    Flow,           \* flow ids
    PktId,          \* packet ids
    Length,         \* their length in bytes
    pkt_count_max,  \* entries per flow; 0 is no limit
    AgeMax,         \* update_age_max, in prune intervals
    NoFlow          \* a flow the list does not hold

ASSUME LengthAssumption == Length \in [PktId -> Nat]
ASSUME CountAssumption == pkt_count_max \in Nat
ASSUME AgeAssumption == AgeMax \in Nat

VARIABLES
    flow_list,    \* per flow: its table, or NoFlow
    entry_pools,  \* the id lengths for which an item pool exists
    answer,       \* the answer the last step gave, if any: a set
    crashed       \* a NULL pointer was followed

vars == << flow_list, entry_pools, answer, crashed >>

Entry == [id : PktId, age : 0 .. AgeMax + 1]

\* list is what can be reached from the head; tail, whether the tail pointer
\* is set; tree, the ids lookups find; count, pkt_count.
TableType == [list : Seq(Entry), tail : BOOLEAN, tree : SUBSET PktId, count : Nat]

ASSUME NoFlowAssumption == NoFlow \notin TableType

NewTable == [list |-> << >>, tail |-> FALSE, tree |-> {}, count |-> 0]

Flows == {f \in Flow : flow_list[f] # NoFlow}

Init ==
    /\ flow_list = [f \in Flow |-> NoFlow]
    /\ entry_pools = {}
    /\ answer = {}
    /\ crashed = FALSE

\* What IsDuplicate answers about packet i of flow f.
Answer(f, i, isDuplicate) == {[flow |-> f, id |-> i, isDuplicate |-> isDuplicate]}

Crash == crashed' = TRUE /\ answer' = {} /\ UNCHANGED << flow_list, entry_pools >>

-----------------------------------------------------------------------------
\* PacketIdTable

AtLimit(t) == pkt_count_max > 0 /\ t.count >= pkt_count_max

\* A definition named X_Fault is X with a plausible bug, used nowhere: it is
\* put in the place of X to see a property catch the bug.
AppendEntry_AtHead(t, i) ==
    [t EXCEPT !.list = << [id |-> i, age |-> 0] >> \o @, !.tail = TRUE,
              !.tree = @ \cup {i}, !.count = @ + 1]

AppendEntry_NotInTree(t, i) ==
    [t EXCEPT !.list = IF t.tail /\ @ = << >> THEN @ ELSE Append(@, [id |-> i, age |-> 0]),
              !.tail = TRUE, !.count = @ + 1]

\* Append a fresh entry behind the tail, if there is one.
AppendEntry(t, i) ==
    [t EXCEPT !.list = IF t.tail /\ @ = << >> THEN @ ELSE Append(@, [id |-> i, age |-> 0]),
              !.tail = TRUE,
              !.tree = @ \cup {i},
              !.count = @ + 1]

RemoveHead_KeepsTree(t) == [t EXCEPT !.list = Tail(@), !.count = @ - 1]

\* RemoveHead leaves the tail as it is, also when the list is empty then.
RemoveHead(t) ==
    [t EXCEPT !.list = Tail(@), !.tree = @ \ {t.list[1].id}, !.count = @ - 1]

\* Prune drops the stale entries at the front; pkt_count stays.
Stale(t) == {n \in 1 .. Len(t.list) : \A k \in 1 .. n : t.list[k].age > AgeMax}

PruneTable(t) ==
    LET gone == Cardinality(Stale(t))
        kept == SubSeq(t.list, gone + 1, Len(t.list))
    IN [t EXCEPT !.list = kept,
                 !.tail = (kept # << >>),
                 !.tree = @ \ {t.list[n].id : n \in Stale(t)}]

Older(t) == [t EXCEPT !.list = [n \in DOMAIN t.list |-> [t.list[n] EXCEPT !.age = @ + 1]]]

-----------------------------------------------------------------------------

FlowTable(f) == IF f \in Flows THEN flow_list[f] ELSE NewTable

Duplicate(f, i) ==
    /\ ~crashed
    /\ i \in FlowTable(f).tree
    /\ answer' = Answer(f, i, TRUE)
    /\ UNCHANGED << flow_list, entry_pools, crashed >>

\* Below the limit the new id simply is appended.
Accept(f, i) ==
    /\ ~crashed
    /\ i \notin FlowTable(f).tree /\ ~AtLimit(FlowTable(f))
    /\ flow_list' = [flow_list EXCEPT ![f] = AppendEntry(FlowTable(f), i)]
    /\ answer' = Answer(f, i, FALSE)
    /\ UNCHANGED << entry_pools, crashed >>

\* At the limit it takes the place of the oldest; an entry of another length
\* cannot be reused and goes to its pool.
Replace(f, i) ==
    /\ ~crashed
    /\ i \notin FlowTable(f).tree /\ AtLimit(FlowTable(f))
    /\ IF FlowTable(f).list = << >> THEN Crash
       ELSE LET old == FlowTable(f).list[1].id
            IN /\ flow_list' = [flow_list EXCEPT ![f] = AppendEntry(RemoveHead(FlowTable(f)), i)]
               /\ entry_pools' = entry_pools \cup ({Length[old]} \ {Length[i]})
               /\ answer' = Answer(f, i, FALSE)
               /\ UNCHANGED crashed

\* The pools Prune puts entries in.
PruneNeeds == UNION {{Length[flow_list[f].list[n].id] : n \in Stale(flow_list[f])} : f \in Flows}

\* OnPruneTimeout: prune every flow, drop the empty ones; then time moves on.
Prune ==
    /\ ~crashed
    /\ IF PruneNeeds \subseteq entry_pools
       THEN /\ flow_list' =
                   [f \in Flow |->
                       IF f \notin Flows \/ PruneTable(flow_list[f]).list = << >> THEN NoFlow
                       ELSE Older(PruneTable(flow_list[f]))]
            /\ answer' = {}
            /\ UNCHANGED << entry_pools, crashed >>
       ELSE Crash

\* The pools EmptyToPool puts entries in.
DestroyNeeds ==
    UNION {{Length[flow_list[f].list[n].id] : n \in 1 .. Len(flow_list[f].list)} : f \in Flows}

\* The interface goes away; one added later starts with a new table.
Destroy ==
    /\ ~crashed
    /\ Flows # {}
    /\ IF DestroyNeeds \subseteq entry_pools
       THEN /\ flow_list' = [f \in Flow |-> NoFlow]
            /\ entry_pools' = {}
            /\ answer' = {}
            /\ UNCHANGED crashed
       ELSE Crash

Next ==
    \/ \E f \in Flow, i \in PktId : Duplicate(f, i) \/ Accept(f, i) \/ Replace(f, i)
    \/ Prune
    \/ Destroy

Spec == Init /\ [][Next]_vars

-----------------------------------------------------------------------------
\* Properties

\* Type invariant, the first part of TreeTracksList.
TypeOK ==
    /\ flow_list \in [Flow -> TableType \cup {NoFlow}]
    /\ entry_pools \subseteq {Length[i] : i \in PktId}
    /\ answer \subseteq [flow : Flow, id : PktId, isDuplicate : BOOLEAN] /\ Cardinality(answer) <= 1
    /\ crashed \in BOOLEAN

\* The tree finds exactly what the list holds, each once.  The one exception
\* is a list that lost its head: RemoveHead emptied it at the limit, and the
\* entry appended next hangs on the tail it left behind.  pkt_count, which
\* Prune does not adjust, errs on one side only and never passes the limit, so
\* that one RemoveHead is enough (the comment at smfDpd.cpp:293 supposes it).
Ids(t) == {t.list[n].id : n \in 1 .. Len(t.list)}
Headless(t) == t.list = << >> /\ t.tail
TreeTracksList ==
    /\ TypeOK
    /\ \A f \in Flows :
        LET t == flow_list[f]
        IN \/ Headless(t) /\ Cardinality(t.tree) = 1 /\ t.count = pkt_count_max
           \/ /\ t.tree = Ids(t) /\ Cardinality(t.tree) = Len(t.list) /\ t.list # << >>
              /\ Len(t.list) <= t.count /\ (pkt_count_max > 0 => t.count <= pkt_count_max)

\* Prune stops at the first fresh entry it meets and yet forgets exactly the
\* stale ids of a flow, as long as its list has its head.
FreshIds(t) == {t.list[n].id : n \in {k \in 1 .. Len(t.list) : t.list[k].age <= AgeMax}}
PruneIsExact ==
    [][Prune /\ ~crashed' => \A f \in Flows : ~Headless(flow_list[f]) =>
          FreshIds(flow_list[f]) = IF f \in Flows' THEN flow_list'[f].tree ELSE {}]_vars

\* The table is a duplicate filter: no packet that was not seen before is
\* called a duplicate, and one that was checked is known at once.
Filter == INSTANCE DuplicateFilter WITH
    Kind <- [i \in PktId |-> 0],
    Unfit <- {},
    known <- UNION {{<< f, i >> : i \in flow_list[f].tree} : f \in Flows}

ImplementsFilter == Filter!Spec
=============================================================================
