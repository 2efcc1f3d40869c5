--------------------------- MODULE MCSmfDpdTable ---------------------------
(* SmfDpdTable with two flows of whole datagrams (16-bit ids) and of       *)
(* fragments (32-bit ids), which share the item pools.                     *)
EXTENDS SmfDpdTable

CONSTANTS f1, f2, d1, d2, d3, g1

TwoFlows == {f1, f2}
Mixed == {d1, d2, d3, g1}
IdLength == [i \in PktId |-> IF i = g1 THEN 4 ELSE 2]
=============================================================================
