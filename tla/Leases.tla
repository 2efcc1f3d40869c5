------------------------------- MODULE Leases -------------------------------
(***************************************************************************)
(* What a table of timed memberships promises: each lasts Term from when   *)
(* it was last renewed, unless it is revoked; what has run out expires     *)
(* together, never early, and never later than the timer that serves it    *)
(* may be.                                                                 *)
(***************************************************************************)
EXTENDS Integers

CONSTANTS
    Member,  \* the memberships
    Term,    \* how long one lasts
    MaxLate, \* how late a timer may be
    Null     \* not held

VARIABLE left \* per member: what is left of its term, or Null

Held == {m \in Member : left[m] # Null}
RunOut == {m \in Held : left[m] <= 0}

Init == left = [m \in Member |-> Null]

Renew(m) == left' = [left EXCEPT ![m] = Term]

Revoke(m) == m \in Held /\ left' = [left EXCEPT ![m] = Null]

Expire ==
    /\ RunOut # {}
    /\ left' = [m \in Member |-> IF m \in RunOut THEN Null ELSE left[m]]

Pass ==
    /\ \A m \in Held : left[m] > -MaxLate
    /\ left' = [m \in Member |-> IF m \in Held THEN left[m] - 1 ELSE Null]

Next == Expire \/ Pass \/ \E m \in Member : Renew(m) \/ Revoke(m)

Spec == Init /\ [][Next]_left
=============================================================================
