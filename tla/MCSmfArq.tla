------------------------------ MODULE MCSmfArq ------------------------------
(* SmfArq across the wrap of its numbers: two downstream interfaces, gaps of *)
(* up to two numbers repaired, three frames and a cache of two.              *)
EXTENDS SmfArq, TLC

CONSTANTS d1, d2

Two == {d1, d2}
Symmetry == Permutations({d1, d2})
MCLost == {9}
=============================================================================
