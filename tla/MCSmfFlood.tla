----------------------------- MODULE MCSmfFlood -----------------------------
(* A packet from a reaches the gateway b (classical flooding); beyond it, c  *)
(* (E-CDS, under command) and d (S-MPR) hear b, and e hears c and d.  b has  *)
(* selected d as a multipoint relay; d's lists change.  b does not hear c.    *)
EXTENDS SmfFlood

CONSTANTS a, b, c, d, e, a1, b1, b2, c1, d1, e1, p1

MCNode == {a, b, c, d, e}
MCIface == {a1, b1, b2, c1, d1, e1}
MCPacket == {p1}
MCNodeOf == [i \in MCIface |->
    CASE i = a1 -> a [] i \in {b1, b2} -> b [] i = c1 -> c [] i = d1 -> d [] i = e1 -> e]
Both(links) == links \cup {<< l[2], l[1] >> : l \in links}
MCHears == Both({<< a1, b1 >>, << b2, d1 >>, << c1, d1 >>, << c1, e1 >>, << d1, e1 >>})
           \cup {<< b2, c1 >>}
MCRelayType ==
    [k \in {k \in MCIface \X MCIface : MCNodeOf[k[1]] = MCNodeOf[k[2]]} |->
        CASE MCNodeOf[k[1]] = b -> "CF" [] MCNodeOf[k[1]] = c -> "E_CDS" [] OTHER -> "S_MPR"]
MCLayered == {e1}
MCOrigin == [p \in MCPacket |-> a1]
MCInitSelectors == [n \in MCNode |-> IF n = d THEN {b2} ELSE {}]
MCInitNeighbors == [n \in MCNode |-> IF n = d THEN {b2, c1, e1} ELSE {}]
OnlyC == {c}
OnlyD == {d}
MCSelectors == {{b2, c1}}
MCNeighbors == {{b2, e1}}
MCForgetful == {c1}
=============================================================================
