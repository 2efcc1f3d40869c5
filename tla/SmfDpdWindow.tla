---------------------------- MODULE SmfDpdWindow ----------------------------
(***************************************************************************)
(* Sequence number based duplicate packet detection (class SmfDpdWindow):  *)
(* per flow, a sliding window of the last sequence numbers (a protolib     *)
(* ProtoSlidingMask, kept here as the set of its bits and its last set     *)
(* sequence), with the flows in the order they were last updated, stalest  *)
(* first, so that pruning may stop at the first fresh one.                 *)
(*                                                                         *)
(* A flow carries its age in prune intervals, not its update time.         *)
(***************************************************************************)
EXTENDS Integers, Sequences, FiniteSets

CONSTANTS
    FlowId,           \* flow ids
    Packet,           \* packet ids: a number seq in size bits
    window_size,
    window_past_max,
    AgeMax,           \* update_age_max, in prune intervals
    NoFlow            \* a flow the list does not hold

ASSUME PacketAssumption ==
    Packet \subseteq {p \in [size : Nat \ {0}, seq : Nat] : p.size <= 32 => p.seq < 2 ^ p.size}
ASSUME WindowAssumption == window_size \in Nat \ {0} /\ window_past_max \in Nat
ASSUME AgeAssumption == AgeMax \in Nat

VARIABLES
    flow,  \* per flow: its window and age, or NoFlow
    list,  \* flow_list: the flows from the stalest to the freshest
    answer \* the answer the last step gave, if any: a set

vars == << flow, list, answer >>

-----------------------------------------------------------------------------
\* ProtoSlidingMask over the numbers of so many bits

Window(size, bits, last) == [size |-> size, bits |-> bits, last |-> last]

Fresh(p) == Window(p.size, {p.seq}, p.seq)

UnsetBits(w, index, count) ==
    [w EXCEPT !.bits = @ \ {(index + k) % 2 ^ w.size : k \in 0 .. count - 1}]

\* Set a bit ahead of the last one, or one behind it.
SetAhead(w, seq) == [w EXCEPT !.bits = @ \cup {seq}, !.last = seq]
SetBehind(w, seq) == [w EXCEPT !.bits = @ \cup {seq}]

-----------------------------------------------------------------------------
\* SmfDpdWindow::Flow

\* The sizes Flow::Init takes.
ValidSize(size) ==
    /\ size \in 8 .. 32
    /\ window_size <= 2 ^ (size - 1)
    /\ window_past_max >= window_size /\ window_past_max <= 2 ^ (size - 1)

\* A definition named X_Fault is X with a plausible bug, used nowhere: it is
\* put in the place of X to see a property catch the bug.
Delta_NoWrap(size, seq, lastSet) == seq - lastSet

\* The signed distance of seq from lastSet in size bits; at half the range its
\* sign depends on which of the two is the greater number.
Delta(size, seq, lastSet) ==
    LET raw == seq - lastSet
        low == raw % 2 ^ size
        rangeSign == 2 ^ (size - 1)
    IN IF low < rangeSign THEN low
       ELSE IF raw # rangeSign \/ seq < lastSet THEN low - 2 ^ size
       ELSE raw

Seen_VeryOld(w, seq) ==
    LET delta == Delta(w.size, seq, w.last)
    IN \/ delta = 0
       \/ delta < 0 /\ -delta < window_size /\ seq \in w.bits
       \/ delta < 0 /\ -delta >= window_size /\ -delta < window_past_max

\* Whether Flow::IsDuplicate(seq) answers true ...
Seen(w, seq) ==
    LET delta == Delta(w.size, seq, w.last)
    IN delta = 0 \/ (delta < 0 /\ -delta < window_size /\ seq \in w.bits)

Advance_NoUnset(w, seq) ==
    LET delta == Delta(w.size, seq, w.last)
    IN IF delta > 0 /\ delta < window_size THEN SetAhead(w, seq)
       ELSE IF delta < 0 /\ -delta < window_size THEN SetBehind(w, seq)
       ELSE Window(w.size, {seq}, seq)

\* ... and the window it leaves if it does not: slide, fill a gap, or start
\* over when seq is beyond the window on either side.
Advance(w, seq) ==
    LET delta == Delta(w.size, seq, w.last)
    IN IF delta > 0 /\ delta < window_size
       THEN SetAhead(UnsetBits(w, w.last - window_size + 1, delta), seq)
       ELSE IF delta < 0 /\ -delta < window_size THEN SetBehind(w, seq)
       ELSE Window(w.size, {seq}, seq)

-----------------------------------------------------------------------------
\* SmfDpdWindow

Flows == {f \in FlowId : flow[f] # NoFlow}

\* What IsDuplicate answers about packet p of flow f.
Answer(f, p, isDuplicate) == {[flow |-> f, id |-> p, isDuplicate |-> isDuplicate]}

Init ==
    /\ flow = [f \in FlowId |-> NoFlow]
    /\ list = << >>
    /\ answer = {}

\* The list without f, which it holds once.
Without(f) ==
    LET at == CHOOSE n \in 1 .. Len(list) : list[n] = f
    IN [n \in 1 .. Len(list) - 1 |-> IF n < at THEN list[n] ELSE list[n + 1]]

\* The first packet of a flow.
NewFlow(f, p) ==
    /\ f \notin Flows /\ ValidSize(p.size)
    /\ flow' = [flow EXCEPT ![f] = [window |-> Fresh(p), age |-> 0]]
    /\ list' = Append(list, f)
    /\ answer' = Answer(f, p, FALSE)

\* An id no window can be made for, or of another size than the flow's, is
\* answered with "duplicate" ("to be safe (but breaks forwarding)").
Unusable(f, p) ==
    /\ IF f \in Flows THEN p.size # flow[f].window.size ELSE ~ValidSize(p.size)
    /\ answer' = Answer(f, p, TRUE)
    /\ UNCHANGED << flow, list >>

Duplicate(f, p) ==
    /\ f \in Flows /\ p.size = flow[f].window.size
    /\ Seen(flow[f].window, p.seq)
    /\ answer' = Answer(f, p, TRUE)
    /\ UNCHANGED << flow, list >>

Accept_NotMoved(f, p) ==
    /\ f \in Flows /\ p.size = flow[f].window.size
    /\ ~Seen(flow[f].window, p.seq)
    /\ flow' = [flow EXCEPT ![f] = [window |-> Advance(@.window, p.seq), age |-> 0]]
    /\ list' = list
    /\ answer' = Answer(f, p, FALSE)

\* Only a new packet makes the flow fresh and moves it to the tail.
Accept(f, p) ==
    /\ f \in Flows /\ p.size = flow[f].window.size
    /\ ~Seen(flow[f].window, p.seq)
    /\ flow' = [flow EXCEPT ![f] = [window |-> Advance(@.window, p.seq), age |-> 0]]
    /\ list' = Append(Without(f), f)
    /\ answer' = Answer(f, p, FALSE)

\* The flows before the first fresh one.
StaleFront == {n \in 1 .. Len(list) : \A k \in 1 .. n : flow[list[k]].age > AgeMax}

\* OnPruneTimeout: drop the stale front, then time moves on.
Prune ==
    LET gone == {list[n] : n \in StaleFront}
    IN /\ list # << >>
       /\ list' = SubSeq(list, Cardinality(StaleFront) + 1, Len(list))
       /\ flow' = [f \in FlowId |-> IF f \in gone \/ f \notin Flows THEN NoFlow
                                    ELSE [flow[f] EXCEPT !.age = @ + 1]]
       /\ answer' = {}

Destroy ==
    /\ list # << >>
    /\ flow' = [f \in FlowId |-> NoFlow] /\ list' = << >>
    /\ answer' = {}

Next ==
    \/ \E f \in FlowId, p \in Packet :
           NewFlow(f, p) \/ Unusable(f, p) \/ Duplicate(f, p) \/ Accept(f, p)
    \/ Prune
    \/ Destroy

Spec == Init /\ [][Next]_vars

-----------------------------------------------------------------------------
\* Properties

\* Type invariant; the list holds every flow once.
WindowType ==
    [size : {p.size : p \in Packet}, bits : SUBSET {p.seq : p \in Packet},
     last : {p.seq : p \in Packet}]
ASSUME NoFlowAssumption == NoFlow \notin [window : WindowType, age : 0 .. AgeMax + 1]
TypeOK ==
    /\ \A f \in Flows : flow[f].window \in WindowType /\ flow[f].age \in 0 .. AgeMax + 1
    /\ Len(list) = Cardinality(Flows) /\ Flows = {list[n] : n \in 1 .. Len(list)}
    /\ answer \subseteq [flow : FlowId, id : Packet, isDuplicate : BOOLEAN] /\ Cardinality(answer) <= 1

\* No bit of an earlier lap survives: all that is set lies in the window_size
\* numbers up to the last one, whatever jumps and wraps led there.  Otherwise
\* a new packet would be dropped as a duplicate a lap later.
Behind(w, s) == (w.last - s) % 2 ^ w.size
NoStaleBits ==
    /\ TypeOK
    /\ \A f \in Flows :
        /\ flow[f].window.last \in flow[f].window.bits
        /\ \A s \in flow[f].window.bits : Behind(flow[f].window, s) < window_size

\* A flow forgets no more than it must: what was seen and still is inside the
\* window is remembered, unless a packet at least a window away came between.
ForgetsOnlyOnJump ==
    [][\A f \in Flows \cap Flows' :
          LET w == flow[f].window
              x == flow'[f].window
          IN \/ (x.last - w.last) % 2 ^ w.size >= window_size
             \/ {s \in w.bits : Behind(x, s) < window_size} \subseteq x.bits]_vars

\* Prune stops at the first fresh flow and yet drops exactly the stale ones:
\* the list always is ordered by age.
PruneIsExact ==
    [][Prune => Flows' = {f \in Flows : flow[f].age <= AgeMax}]_vars

\* The windows are a duplicate filter: no packet that was not seen before is
\* called a duplicate, unless its id has no window or another size than the
\* flow's; and one that was checked is known at once.
Filter == INSTANCE DuplicateFilter WITH
    Flow <- FlowId,
    PktId <- Packet,
    Kind <- [p \in Packet |-> p.size],
    Unfit <- {p \in Packet : ~ValidSize(p.size)},
    known <- UNION {{<< f, p >> : p \in {r \in Packet :
                        r.size = flow[f].window.size /\ r.seq \in flow[f].window.bits}} : f \in Flows}

ImplementsFilter == Filter!Spec
=============================================================================
