----------------------------- MODULE MCSmfQueue -----------------------------
(* SmfQueue with two priority packets, three others, memory for five       *)
(* buffers, and limits from "none" through "no queuing" to one past the    *)
(* number of priority packets.  Which buffer is which does not matter.     *)
EXTENDS SmfQueue, TLC

CONSTANTS p1, p2, n1, n2, n3, b1, b2, b3, b4, b5

MCPacket == {p1, p2, n1, n2, n3}
MCPriorityPacket == {p1, p2}
MCBuffer == {b1, b2, b3, b4, b5}
MCLimits == {-1, 0, 1, 2, 3}

AnyBuffer == Permutations(MCBuffer)
=============================================================================
