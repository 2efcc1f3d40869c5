--------------------------- MODULE MCSmfFlowTable ---------------------------
(* SmfFlowTable for the tables of one node: the memberships (a group, or a   *)
(* flow that a neighbor acknowledged, on two interfaces), the forwarding     *)
(* entries without a policy, and with a policy for all groups; and, for the  *)
(* run that refutes it, with a policy for one group.                         *)
EXTENDS SmfFlowTable, TLC

CONSTANTS any, G, H, s, t, class, proto

Flow(dst, src) == << dst, src, class, proto, any >>
OneGroup(dst) == << dst, any, any, any, any >>
Wildcard == << any, any, any, any, any >>

Flows == {Flow(G, s), Flow(G, t), Flow(H, s)}
Memberships == {On(k, iface) : k \in {Flow(G, s), Flow(H, s), OneGroup(G), OneGroup(H)}, iface \in 1 .. 2}

TwoLengths == {Memberships, Flows \cup {Wildcard}}
ThreeLengths == {Flows \cup {Wildcard, OneGroup(G)}}
Policies == {Wildcard, OneGroup(G)}
Descriptions == Flows \cup {OneGroup(G), OneGroup(H), Wildcard}
                \cup {On(Flow(G, s), 1)}
=============================================================================
