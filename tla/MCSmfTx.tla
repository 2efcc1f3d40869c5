------------------------------- MODULE MCSmfTx -------------------------------
(* SmfTx with one priority frame and two others, on a device.  The "queue" *)
(* command raises a limit; it does not turn queuing on, nor lower a limit  *)
(* (see VifIsHeard and OutputHasRoom).                                     *)
EXTENDS SmfTx

CONSTANTS p1, n1, n2

MCPacket == {p1, n1, n2}
MCPriorityPacket == {p1}
AnyRate == {-1, 0, 1}
AnyLimit == {-1, 0, 1, 2}
Raising == {<< 1, 2 >>, << 2, -1 >>}
=============================================================================
