---------------------------- MODULE SmfFlowKeys -----------------------------
(***************************************************************************)
(* Flow descriptions (class FlowDescription) and which of them match.  A   *)
(* key is << dst, src, class, protocol, iface >>; Open leaves a field      *)
(* open.  The prefix of a key is the bits of its leading fields that are   *)
(* not open.  Address masks (set by the adaptive routing code only) are    *)
(* left out.                                                               *)
(***************************************************************************)
EXTENDS Integers

CONSTANTS
    Open,     \* an open field: invalid address, class 3, protocol 255, index 0
    AddrBits  \* 32 or 128

ASSUME AddrAssumption == AddrBits \in {32, 128}

\* The bits of the first n fields, at n + 1: an address with its length and
\* its mask, a byte of class, a byte of protocol, an unsigned int.
Bits == << 0, AddrBits + 16, 2 * (AddrBits + 16), 2 * (AddrBits + 16) + 8,
           2 * (AddrBits + 16) + 16, 2 * (AddrBits + 16) + 48 >>

Lengths == {Bits[i] : i \in 1 .. 6}

\* How many leading fields are not open.
Depth(k) == CHOOSE n \in 0 .. 5 : /\ \A j \in 1 .. n : k[j] # Open
                                  /\ n < 5 => k[n + 1] = Open

PrefixSize(k) == Bits[Depth(k) + 1]

\* Two keys agree on the first m bits: on every field these bits reach.
Agree(k, d, m) == \A j \in 1 .. 5 : Bits[j] < m => k[j] = d[j]

\* The fields an iterator compares one by one.  The interface is compared as
\* part of a prefix, or not at all.
Fits(k, d, bimatch) ==
    LET fits(j) == d[j] = Open \/ k[j] = d[j] \/ (bimatch /\ k[j] = Open)
    IN (d[1] = Open => fits(2)) /\ fits(3) /\ fits(4)

\* The keys an iterator over K returns for description d: those below d
\* (bimatch false), or also those that are open where d is not.
SubMatches(d, K) == {k \in K : Fits(k, d, FALSE) /\ Agree(k, d, PrefixSize(d))}

BiMatches(d, K) ==
    {k \in K : /\ Fits(k, d, TRUE)
               /\ Agree(k, d, PrefixSize(d)) \/ Agree(k, d, PrefixSize(k))}

\* The same key, on one interface.
On(k, iface) == << k[1], k[2], k[3], k[4], iface >>
=============================================================================
