-------------------------- MODULE MCSmfResequence --------------------------
(* SmfResequence with a host h on the LAN and a node m of the MANET.        *)
EXTENDS SmfResequence

CONSTANTS h, m, me, G, x

Addresses == {h, m, me, G}
Bodies == {x}

Pkt(version, src, own, mark, body) ==
    [version |-> version, src |-> src, dst |-> G, own |-> own, mark |-> mark, body |-> body]

Lan == {Pkt(4, h, None, << "seq", 0 >>, x), Pkt(6, h, None, None, x), Pkt(6, h, << "sec", 0 >>, None, x)}
Manet == {Pkt(6, m, None, None, x)}
Own == {Pkt(4, me, None, << "seq", 0 >>, x), Pkt(6, me, None, None, x)}
AllModes == {"idpd", "hybrid", "hash"}
=============================================================================
