--------------------------- MODULE MCSmfDpdWindow ---------------------------
(* SmfDpdWindow with a window of 4, two flows, and ids of 8 bits (the      *)
(* fewest the code takes: numbers around the wrap, half the range away and *)
(* one between), of 16 bits and of 48 (too many for a window).             *)
EXTENDS SmfDpdWindow

CONSTANTS f1, f2

TwoFlows == {f1, f2}
Ids(size, seqs) == [size : {size}, seq : seqs]
MCPacket == Ids(8, {254, 255, 1, 3, 127}) \cup Ids(16, {65535}) \cup Ids(48, {0})
=============================================================================
