-------------------------- MODULE MCSmfMembership ---------------------------
(* SmfMembership with three memberships and ticks that wrap every twelve.    *)
EXTENDS SmfMembership, TLC

CONSTANTS a, b, c

Three == {a, b, c}
Symmetry == Permutations({a, b, c})
=============================================================================
