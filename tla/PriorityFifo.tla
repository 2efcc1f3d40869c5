---------------------------- MODULE PriorityFifo ----------------------------
(***************************************************************************)
(* What smfQueue.cpp:41 promises of SmfQueue: "a FIFO queue with two       *)
(* levels of priority", where "a high priority packet can push a lower one *)
(* out if there is a queue limit".  Two plain FIFOs, the high one served   *)
(* first; a priority packet that finds the limit reached takes the place   *)
(* of the newest low packet.                                               *)
(***************************************************************************)
EXTENDS Integers, Sequences

CONSTANTS Packet, PriorityPacket, Limits

VARIABLES high, low, limit

vars == << high, low, limit >>

Init == high = << >> /\ low = << >> /\ limit \in Limits

AtLimit == limit >= 0 /\ Len(high) + Len(low) >= limit

PutHigh(p) ==
    /\ high' = Append(high, p)
    /\ \/ ~AtLimit /\ UNCHANGED low
       \/ AtLimit /\ low # << >> /\ low' = SubSeq(low, 1, Len(low) - 1)
    /\ UNCHANGED limit

PutLow(p) ==
    /\ ~AtLimit
    /\ low' = Append(low, p)
    /\ UNCHANGED << high, limit >>

Take ==
    \/ high # << >> /\ high' = Tail(high) /\ UNCHANGED << low, limit >>
    \/ high = << >> /\ low # << >> /\ low' = Tail(low) /\ UNCHANGED << high, limit >>

SetLimit(l) == limit' = l /\ UNCHANGED << high, low >>

Next ==
    \/ \E p \in PriorityPacket : PutHigh(p)
    \/ \E p \in Packet \ PriorityPacket : PutLow(p)
    \/ Take
    \/ \E l \in Limits : SetLimit(l)

Spec == Init /\ [][Next]_vars
=============================================================================
