---------------------------- MODULE MCSmfElastic ----------------------------
(***************************************************************************)
(* Two flows of one group.                                                 *)
(***************************************************************************)
EXTENDS SmfElastic

CONSTANTS g1, s1, s2, class, udp

MCFlow == {<< g1, s, class, udp, Open >> : s \in {s1, s2}}

MCGroup == {<< g1, Open, Open, Open, Open >>}
=============================================================================
