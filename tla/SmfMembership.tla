--------------------------- MODULE SmfMembership ----------------------------
(***************************************************************************)
(* The elastic memberships of a node and the one timer that serves them    *)
(* (class MulticastFIB::MembershipTable and the timer of the controller).  *)
(* Every EM-ACK gives its membership a deadline, a tick of a counter that  *)
(* wraps.  The table keeps the memberships in a queue sorted by the bare   *)
(* number of the tick, and ring_leader points at the one to lapse first:   *)
(* around the wrap the leader stands in the middle of the queue, and what  *)
(* follows its last item is its head.  The timer is set for the leader.    *)
(*                                                                         *)
(* Only the ELASTIC flag has deadlines: memberships of the command line or *)
(* IGMP are flagged MANAGED without one.                                   *)
(***************************************************************************)
EXTENDS Integers, Sequences, FiniteSets, SequencesExt

CONSTANTS
    Member,              \* memberships
    TICKS,               \* how many ticks there are (2^32)
    DEFAULT_ACK_TIMEOUT, \* how long a membership lasts without an EM-ACK
    MaxLate,             \* for how long the timer may be due
    Null                 \* no leader

ASSUME TickAssumption ==
    /\ TICKS \in Nat /\ DEFAULT_ACK_TIMEOUT \in Nat \ {0} /\ MaxLate \in Nat
    /\ TICKS % 2 = 0 /\ 2 * (DEFAULT_ACK_TIMEOUT + MaxLate) < TICKS
ASSUME NullAssumption == Null \notin Member /\ Null \notin Int

VARIABLES
    ticker,           \* time_ticker: the present tick
    elastic_timeout,  \* per membership: its deadline
    membership_ring,  \* the queue of the memberships that have one
    ring_leader,      \* the one that lapses first, or Null
    timer_active,     \* membership_timer
    interval,         \* what it was last set to
    expires           \* in how many ticks it fires

timer == << timer_active, interval, expires >>
vars == << ticker, elastic_timeout, membership_ring, ring_leader, timer_active, interval, expires >>

Tick == 0 .. TICKS - 1
InRing == ToSet(membership_ring)

\* The difference of two ticks as an int.
Signed(n) == ((n + TICKS \div 2) % TICKS) - TICKS \div 2

-----------------------------------------------------------------------------
\* The table: a record of its queue, its leader and its deadlines

Table == [ring |-> membership_ring, leader |-> ring_leader, timeout |-> elastic_timeout]

\* The queue is sorted by number, a tie before the one that was there.
SortedIn(ring, timeout, m) ==
    LET before == {i \in DOMAIN ring : timeout[ring[i]] < timeout[m]}
        place == IF before = {} THEN 1 ELSE 1 + CHOOSE i \in before : \A j \in before : i >= j
    IN InsertAt(ring, place, m)

\* Where m is in the queue.
Place(ring, m) == CHOOSE i \in DOMAIN ring : ring[i] = m

\* A definition named X_Fault is X with a plausible bug, used nowhere: it is
\* put in the place of X to see a property catch the bug.
Removed_NoWrap(t, m) == \* what follows the last of the queue is nothing
    LET at == Place(t.ring, m)
    IN [ring |-> RemoveAt(t.ring, at),
        leader |-> IF m # t.leader THEN t.leader
                   ELSE IF at < Len(t.ring) THEN t.ring[at + 1] ELSE Null,
        timeout |-> t.timeout]

\* A membership leaves the queue; its successor leads if it was the leader.
Removed(t, m) ==
    LET at == Place(t.ring, m)
        rest == RemoveAt(t.ring, at)
    IN [ring |-> rest,
        leader |-> IF m # t.leader THEN t.leader
                   ELSE IF at < Len(t.ring) THEN t.ring[at + 1]
                   ELSE IF rest # << >> THEN Head(rest) ELSE Null,
        timeout |-> t.timeout]

\* MembershipTable::ActivateMembership
Activated(t, m, tick) ==
    LET out == IF m \in ToSet(t.ring) THEN Removed(t, m) ELSE t
        timeout == [t.timeout EXCEPT ![m] = tick]
    IN [ring |-> SortedIn(out.ring, timeout, m),
        leader |-> IF out.leader = Null \/ Signed(tick - timeout[out.leader]) <= 0 THEN m ELSE out.leader,
        timeout |-> timeout]

GetNextTimeout(t) == IF t.leader = Null THEN 0 ELSE t.timeout[t.leader]

SetTable(t) ==
    /\ membership_ring' = t.ring
    /\ ring_leader' = t.leader
    /\ elastic_timeout' = t.timeout

\* SetInterval and Reschedule.  A timer that is due, and set to fire at once,
\* stays due: it is served when the handler returns.
SetTimer(delta) ==
    /\ interval' = delta
    /\ expires' = IF delta = 0 /\ expires < 0 THEN expires ELSE delta
    /\ UNCHANGED timer_active

\* DeactivateTimer: the interval stays.
StopTimer ==
    /\ timer_active' = FALSE
    /\ expires' = 0
    /\ UNCHANGED interval

\* How long until the leader lapses, no less than zero.
Delta(t) == LET delta == Signed(GetNextTimeout(t) - ticker) IN IF delta < 0 THEN 0 ELSE delta

-----------------------------------------------------------------------------
Init ==
    /\ ticker = 0
    /\ elastic_timeout = [m \in Member |-> 0]
    /\ membership_ring = << >>
    /\ ring_leader = Null
    /\ timer_active = FALSE
    /\ interval = 0
    /\ expires = 0

\* An EM-ACK while the timer runs: the deadline moves, and the timer with the
\* leader's deadline.
HandleAck(m) ==
    LET t == Activated(Table, m, (ticker + DEFAULT_ACK_TIMEOUT) % TICKS)
    IN /\ timer_active
       /\ SetTable(t)
       /\ IF GetNextTimeout(t) # GetNextTimeout(Table) THEN SetTimer(Delta(t)) ELSE UNCHANGED timer
       /\ UNCHANGED ticker

\* The first EM-ACK: ticks start over, and the timer starts with whatever
\* interval it had last.
HandleFirstAck(m) ==
    /\ ~timer_active
    /\ SetTable(Activated(Table, m, DEFAULT_ACK_TIMEOUT))
    /\ ticker' = 0
    /\ timer_active' = TRUE
    /\ expires' = interval
    /\ UNCHANGED interval

DeactivateMembership_TimerLeft(m) == \* the timer is not stopped
    LET t == Removed(Table, m)
    IN /\ m \in InRing
       /\ SetTable(t)
       /\ IF t.leader # Null /\ GetNextTimeout(t) # GetNextTimeout(Table) THEN SetTimer(Delta(t))
          ELSE UNCHANGED timer
       /\ UNCHANGED ticker

\* Update: too many packets without an EM-ACK end the membership.
DeactivateMembership(m) ==
    LET t == Removed(Table, m)
    IN /\ m \in InRing
       /\ SetTable(t)
       /\ IF t.leader = Null THEN StopTimer
          ELSE IF GetNextTimeout(t) # GetNextTimeout(Table) THEN SetTimer(Delta(t))
          ELSE UNCHANGED timer
       /\ UNCHANGED ticker

\* The n-th to lead after the leader, going round, if all before it are removed.
Successor(n) ==
    LET i == Place(membership_ring, ring_leader) + n
    IN membership_ring[IF i <= Len(membership_ring) THEN i ELSE i - Len(membership_ring)]

\* The queue without the leader and the next n - 1.
WithoutFirst(n) ==
    LET len == Len(membership_ring)
        first == Place(membership_ring, ring_leader)
        next == first + n
    IN IF next <= len + 1 THEN SubSeq(membership_ring, 1, first - 1) \o SubSeq(membership_ring, next, len)
       ELSE SubSeq(membership_ring, next - len, first - 1)

\* How many leaders are removed until one has time left.
Lapsing ==
    LET Lapsed(m) == Signed(elastic_timeout[m] - ticker) <= 0
    IN CHOOSE n \in 0 .. Len(membership_ring) :
          /\ \A j \in 0 .. n - 1 : Lapsed(Successor(j))
          /\ n < Len(membership_ring) => ~Lapsed(Successor(n))

\* The table when those are gone.
WithoutLapsed ==
    [ring |-> WithoutFirst(Lapsing),
     leader |-> IF Lapsing = Len(membership_ring) THEN Null ELSE Successor(Lapsing),
     timeout |-> elastic_timeout]

\* The timer fires, and the memberships whose time is over are removed.
OnMembershipTimeout ==
    LET t == WithoutLapsed
    IN /\ timer_active
       /\ expires <= 0
       /\ SetTable(t)
       /\ IF t.leader # Null THEN SetTimer(Delta(t))
          ELSE /\ timer_active' = FALSE
               /\ expires' = 0
               /\ interval' = IF Cardinality({elastic_timeout[m] : m \in InRing}) > 1 THEN 0 ELSE interval
       /\ UNCHANGED ticker

\* Time passes while the timer runs; it is served at most MaxLate after it is due.
Pass ==
    /\ timer_active
    /\ expires > -MaxLate
    /\ ticker' = (ticker + 1) % TICKS
    /\ expires' = expires - 1
    /\ UNCHANGED << elastic_timeout, membership_ring, ring_leader, timer_active, interval >>

Next ==
    \/ \E m \in Member : HandleAck(m) \/ HandleFirstAck(m) \/ DeactivateMembership(m)
    \/ OnMembershipTimeout
    \/ Pass

Spec == Init /\ [][Next]_vars

-----------------------------------------------------------------------------
\* The timer runs while there is a leader, and the leader is in the queue.
TypeOK ==
    /\ ticker \in Tick
    /\ elastic_timeout \in [Member -> Tick]
    /\ membership_ring \in Seq(Member)
    /\ \A i, j \in DOMAIN membership_ring : membership_ring[i] = membership_ring[j] => i = j
    /\ ring_leader \in InRing \cup {Null}
    /\ timer_active = (ring_leader # Null)
    /\ interval \in 0 .. DEFAULT_ACK_TIMEOUT
    /\ expires \in -MaxLate .. DEFAULT_ACK_TIMEOUT

\* However the ticks wrap and whatever was revoked or renewed in between, a
\* membership lapses after its whole term without an EM-ACK, together with
\* all whose term is over, and no later than the timer is late.
Promise == INSTANCE Leases WITH
    Term <- DEFAULT_ACK_TIMEOUT,
    left <- [m \in Member |-> IF m \in InRing THEN Signed(elastic_timeout[m] - ticker) ELSE Null]

ImplementsLeases == Promise!Spec
=============================================================================
