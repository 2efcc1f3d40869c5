------------------------ MODULE SmfMembershipProofs ------------------------
(***************************************************************************)
(* Proofs about SmfMembership for any memberships, any range of ticks, any *)
(* term and any lateness of the timer that the range leaves room for.      *)
(*                                                                         *)
(* The queue is sorted by bare numbers.  Read from the leader on and round *)
(* to its front, it is sorted by what is left of each membership: that is  *)
(* what TableOK says of a table, and every operation keeps.                *)
(***************************************************************************)
EXTENDS SmfMembership, FiniteSetTheorems, SequenceTheorems, TLAPS

-----------------------------------------------------------------------------
\* Ticks

h == TICKS \div 2

LEMMA HalfOfTicks ==
    /\ h \in Nat \ {0} /\ TICKS = 2 * h
    /\ DEFAULT_ACK_TIMEOUT \in Nat \ {0} /\ MaxLate \in Nat
    /\ DEFAULT_ACK_TIMEOUT + MaxLate < h
BY TickAssumption DEF h

\* The remainder of a number at most one range off.
LEMMA Wrap ==
    ASSUME NEW half \in Nat \ {0}, NEW a \in Int, -(2 * half) <= a, a < 4 * half
    PROVE  a % (2 * half) = IF a < 0 THEN a + 2 * half ELSE IF a < 2 * half THEN a ELSE a - 2 * half
OBVIOUS

\* The difference of two ticks as an int.
LEMMA SignedValue ==
    ASSUME NEW d \in Int, -TICKS < d, d < TICKS
    PROVE  /\ Signed(d) = IF d < -h THEN d + TICKS ELSE IF d < h THEN d ELSE d - TICKS
           /\ Signed(d) \in Int /\ -h <= Signed(d) /\ Signed(d) < h
<1> DEFINE a == d + h
<1>1. h \in Nat \ {0} /\ TICKS = 2 * h
  BY HalfOfTicks
<1>2. a \in Int /\ -(2 * h) <= a /\ a < 4 * h
  BY <1>1
<1>3. Signed(d) = (a % (2 * h)) - h
  BY <1>1 DEF Signed, h
<1> HIDE DEF a
<1>4. a % (2 * h) = IF a < 0 THEN a + 2 * h ELSE IF a < 2 * h THEN a ELSE a - 2 * h
  BY <1>1, <1>2, Wrap
<1> QED
  BY <1>1, <1>3, <1>4 DEF a

\* The next tick, and the tick a term ahead.
LEMMA TicksAhead ==
    ASSUME NEW now \in Tick, NEW n \in 0 .. h
    PROVE  /\ (now + n) % TICKS \in Tick
           /\ (now + n) % TICKS = now + n \/ (now + n) % TICKS = now + n - TICKS
<1> DEFINE a == now + n
<1>1. h \in Nat \ {0} /\ TICKS = 2 * h
  BY HalfOfTicks
<1>2. a \in Int /\ -(2 * h) <= a /\ a < 4 * h /\ a >= 0
  BY <1>1 DEF Tick
<1> HIDE DEF a
<1>3. a % (2 * h) = IF a < 0 THEN a + 2 * h ELSE IF a < 2 * h THEN a ELSE a - 2 * h
  BY <1>1, <1>2, Wrap
<1> QED
  BY <1>1, <1>2, <1>3 DEF a, Tick

\* A tick later, one tick less is left.
LEMMA LaterLeft ==
    ASSUME NEW v \in Tick, NEW now \in Tick, Signed(v - now) > -h
    PROVE  Signed(v - ((now + 1) % TICKS)) = Signed(v - now) - 1
<1> DEFINE next == (now + 1) % TICKS
<1>1. next \in Tick /\ (next = now + 1 \/ next = now + 1 - TICKS)
  BY TicksAhead, HalfOfTicks
<1> HIDE DEF next
<1>2. /\ v - now \in Int /\ -TICKS < v - now /\ v - now < TICKS
      /\ v - next \in Int /\ -TICKS < v - next /\ v - next < TICKS
  BY <1>1, HalfOfTicks DEF Tick
<1>3. /\ Signed(v - now) = IF v - now < -h THEN v - now + TICKS ELSE IF v - now < h THEN v - now ELSE v - now - TICKS
      /\ Signed(v - next) = IF v - next < -h THEN v - next + TICKS ELSE IF v - next < h THEN v - next ELSE v - next - TICKS
  BY <1>2, SignedValue
<1> QED
  BY <1>1, <1>3, HalfOfTicks DEF next, Tick

\* What is set a term ahead has the term left, and outlasts another by what
\* the other has less.
LEMMA TermLeft ==
    ASSUME NEW now \in Tick, NEW v \in Tick,
           Signed(v - now) \in -MaxLate .. DEFAULT_ACK_TIMEOUT
    PROVE  LET tick == (now + DEFAULT_ACK_TIMEOUT) % TICKS IN
           /\ tick \in Tick
           /\ Signed(tick - now) = DEFAULT_ACK_TIMEOUT
           /\ Signed(tick - v) = DEFAULT_ACK_TIMEOUT - Signed(v - now)
<1> DEFINE tick == (now + DEFAULT_ACK_TIMEOUT) % TICKS
<1>1. tick \in Tick /\ (tick = now + DEFAULT_ACK_TIMEOUT \/ tick = now + DEFAULT_ACK_TIMEOUT - TICKS)
  BY TicksAhead, HalfOfTicks
<1> HIDE DEF tick
<1>2. /\ v - now \in Int /\ -TICKS < v - now /\ v - now < TICKS
      /\ tick - v \in Int /\ -TICKS < tick - v /\ tick - v < TICKS
      /\ tick - now \in Int /\ -TICKS < tick - now /\ tick - now < TICKS
  BY <1>1, HalfOfTicks DEF Tick
<1>3. /\ Signed(v - now) = IF v - now < -h THEN v - now + TICKS ELSE IF v - now < h THEN v - now ELSE v - now - TICKS
      /\ Signed(tick - v) = IF tick - v < -h THEN tick - v + TICKS ELSE IF tick - v < h THEN tick - v ELSE tick - v - TICKS
      /\ Signed(tick - now) = IF tick - now < -h THEN tick - now + TICKS ELSE IF tick - now < h THEN tick - now ELSE tick - now - TICKS
  BY <1>2, SignedValue
<1>4. Signed(tick - now) = DEFAULT_ACK_TIMEOUT
  BY <1>1, <1>3, HalfOfTicks DEF Tick
<1>5. Signed(tick - v) = DEFAULT_ACK_TIMEOUT - Signed(v - now)
  BY <1>1, <1>3, HalfOfTicks DEF Tick
<1> QED
  BY <1>1, <1>4, <1>5 DEF tick

\* Of two deadlines, what one has left more than the other is their difference,
\* or a lap more when its number is the smaller.
LEMMA LeftsDiffer ==
    ASSUME NEW now \in Tick, NEW v \in Tick, NEW w \in Tick,
           Signed(v - now) \in -MaxLate .. DEFAULT_ACK_TIMEOUT,
           Signed(w - now) \in -MaxLate .. DEFAULT_ACK_TIMEOUT,
           Signed(v - now) >= Signed(w - now)
    PROVE  Signed(v - now) - Signed(w - now) = IF v >= w THEN v - w ELSE v - w + TICKS
<1>1. /\ v - now \in Int /\ -TICKS < v - now /\ v - now < TICKS
      /\ w - now \in Int /\ -TICKS < w - now /\ w - now < TICKS
  BY HalfOfTicks DEF Tick
<1>2. /\ Signed(v - now) = IF v - now < -h THEN v - now + TICKS ELSE IF v - now < h THEN v - now ELSE v - now - TICKS
      /\ Signed(w - now) = IF w - now < -h THEN w - now + TICKS ELSE IF w - now < h THEN w - now ELSE w - now - TICKS
  BY <1>1, SignedValue
<1> QED
  BY <1>2, HalfOfTicks DEF Tick

-----------------------------------------------------------------------------
\* Sequences

LEMMA SeqElements ==
    ASSUME NEW S, NEW s \in Seq(S)
    PROVE  /\ Len(s) \in Nat /\ DOMAIN s = 1 .. Len(s)
           /\ \A i \in 1 .. Len(s) : s[i] \in S
           /\ Len(s) = 0 <=> s = << >>
           /\ ToSet(s) = {s[i] : i \in 1 .. Len(s)}
BY DEF ToSet

LEMMA NonEmpty ==
    ASSUME NEW s, NEW x \in ToSet(s)
    PROVE  s # << >>
BY DEF ToSet

\* u has the first a elements of s, and those from the b-th on.
IsCut(u, s, a, b) ==
    /\ u \in Seq(Member)
    /\ Len(u) = a + Len(s) - b + 1
    /\ \A i \in 1 .. Len(u) : u[i] = s[IF i <= a THEN i ELSE i - a + b - 1]

LEMMA CutElements ==
    ASSUME NEW s \in Seq(Member), NEW a \in 0 .. Len(s), NEW b \in a + 1 .. Len(s) + 1
    PROVE  IsCut(SubSeq(s, 1, a) \o SubSeq(s, b, Len(s)), s, a, b)
<1> DEFINE u == SubSeq(s, 1, a) \o SubSeq(s, b, Len(s))
           n == Len(s)
<1>1. n \in Nat /\ (\A i \in 1 .. n : s[i] \in Member) /\ a \in Nat /\ a <= n /\ b \in Nat /\ a < b /\ b <= n + 1
  BY SeqElements
<1> HIDE DEF n
<1>2. /\ SubSeq(s, 1, a) \in Seq(Member) /\ Len(SubSeq(s, 1, a)) = a
      /\ \A i \in 1 .. a : SubSeq(s, 1, a)[i] = s[i]
  <2>1. \A i \in 1 .. a : s[i] \in Member
    BY <1>1
  <2>2. /\ SubSeq(s, 1, a) \in Seq(Member)
        /\ Len(SubSeq(s, 1, a)) = IF 1 <= a THEN a - 1 + 1 ELSE 0
        /\ \A i \in 1 .. a - 1 + 1 : SubSeq(s, 1, a)[i] = s[1 + i - 1]
    BY <1>1, <2>1, SubSeqProperties
  <2> QED
    BY <1>1, <2>2
<1>3. /\ SubSeq(s, b, n) \in Seq(Member) /\ Len(SubSeq(s, b, n)) = n - b + 1
      /\ \A i \in 1 .. n - b + 1 : SubSeq(s, b, n)[i] = s[b + i - 1]
  <2>1. \A i \in b .. n : s[i] \in Member
    BY <1>1
  <2>2. /\ SubSeq(s, b, n) \in Seq(Member)
        /\ Len(SubSeq(s, b, n)) = IF b <= n THEN n - b + 1 ELSE 0
        /\ \A i \in 1 .. n - b + 1 : SubSeq(s, b, n)[i] = s[b + i - 1]
    BY <1>1, <2>1, SubSeqProperties
  <2> QED
    BY <1>1, <2>2
<1> DEFINE x == SubSeq(s, 1, a)
           y == SubSeq(s, b, n)
<1>4. /\ u = x \o y
      /\ x \in Seq(Member) /\ y \in Seq(Member) /\ Len(x) = a /\ Len(y) = n - b + 1
      /\ \A i \in 1 .. a : x[i] = s[i]
      /\ \A i \in 1 .. n - b + 1 : y[i] = s[b + i - 1]
  BY <1>2, <1>3 DEF n
<1> HIDE DEF x, y, u
<1>5. /\ u \in Seq(Member) /\ Len(u) = Len(x) + Len(y)
      /\ \A i \in 1 .. Len(x) + Len(y) : u[i] = IF i <= Len(x) THEN x[i] ELSE y[i - Len(x)]
  <2>1. /\ x \o y \in Seq(Member) /\ Len(x \o y) = Len(x) + Len(y)
        /\ \A i \in 1 .. Len(x) + Len(y) : (x \o y)[i] = IF i <= Len(x) THEN x[i] ELSE y[i - Len(x)]
    BY <1>4, ConcatProperties
  <2> QED
    BY <1>4, <2>1
<1>6. Len(u) = a + n - b + 1
  BY <1>1, <1>4, <1>5
<1>7. ASSUME NEW i \in 1 .. Len(u) PROVE u[i] = s[IF i <= a THEN i ELSE i - a + b - 1]
  <2>1. i \in Nat /\ i >= 1 /\ i <= a + n - b + 1
    BY <1>1, <1>6
  <2>2. CASE i <= a
    BY <1>4, <1>5, <2>1, <2>2
  <2>3. CASE ~(i <= a)
    <3>1. i - a \in 1 .. n - b + 1 /\ b + (i - a) - 1 = i - a + b - 1
      BY <1>1, <2>1, <2>3
    <3>2. u[i] = y[i - a]
      BY <1>4, <1>5, <2>1, <2>3
    <3> QED
      BY <1>4, <3>1, <3>2, <2>3
  <2> QED
    BY <2>2, <2>3
<1> QED
  BY <1>5, <1>6, <1>7 DEF n, u, IsCut

\* u has one element more than s, in place p.
IsInsert(u, s, p, e) ==
    /\ u \in Seq(Member)
    /\ Len(u) = Len(s) + 1
    /\ \A i \in 1 .. Len(s) + 1 :
          u[i] = IF i < p THEN s[i] ELSE IF i = p THEN e ELSE s[i - 1]

LEMMA InsertElements ==
    ASSUME NEW s \in Seq(Member), NEW e \in Member, NEW p \in 1 .. Len(s) + 1
    PROVE  IsInsert(InsertAt(s, p, e), s, p, e)
<1> DEFINE u == InsertAt(s, p, e)
           n == Len(s)
           x == SubSeq(s, 1, p - 1)
           z == SubSeq(s, p, n)
<1>1. n \in Nat /\ (\A i \in 1 .. n : s[i] \in Member) /\ p \in Nat /\ p >= 1 /\ p <= n + 1
  BY SeqElements
<1> HIDE DEF n
<1>2. x \in Seq(Member) /\ Len(x) = p - 1 /\ \A i \in 1 .. p - 1 : x[i] = s[i]
  <2>1. p - 1 \in Int /\ \A i \in 1 .. p - 1 : s[i] \in Member
    BY <1>1
  <2>2. /\ x \in Seq(Member)
        /\ Len(x) = IF 1 <= p - 1 THEN (p - 1) - 1 + 1 ELSE 0
        /\ \A i \in 1 .. (p - 1) - 1 + 1 : x[i] = s[1 + i - 1]
    BY <2>1, SubSeqProperties
  <2> HIDE DEF x
  <2> QED
    BY <1>1, <2>2
<1>3. z \in Seq(Member) /\ Len(z) = n - p + 1 /\ \A i \in 1 .. n - p + 1 : z[i] = s[p + i - 1]
  <2>1. \A i \in p .. n : s[i] \in Member
    BY <1>1
  <2>2. /\ z \in Seq(Member)
        /\ Len(z) = IF p <= n THEN n - p + 1 ELSE 0
        /\ \A i \in 1 .. n - p + 1 : z[i] = s[p + i - 1]
    BY <1>1, <2>1, SubSeqProperties
  <2> HIDE DEF z
  <2> QED
    BY <1>1, <2>2
<1>4. u = (x \o << e >>) \o z
  BY DEF InsertAt, n
<1> HIDE DEF x, z, u
<1>5. << e >> \in Seq(Member) /\ Len(<< e >>) = 1 /\ << e >>[1] = e
  OBVIOUS
<1> DEFINE y == x \o << e >>
<1>6. /\ y \in Seq(Member) /\ Len(y) = p
      /\ \A i \in 1 .. p : y[i] = IF i <= p - 1 THEN s[i] ELSE e
  <2>1. /\ y \in Seq(Member) /\ Len(y) = Len(x) + 1
        /\ \A i \in 1 .. Len(x) + 1 : y[i] = IF i <= Len(x) THEN x[i] ELSE << e >>[i - Len(x)]
    BY <1>2, <1>5, ConcatProperties
  <2> HIDE DEF y
  <2> QED
    BY <1>1, <1>2, <1>5, <2>1
<1>7. u = y \o z
  BY <1>4
<1> HIDE DEF y
<1>8. /\ u \in Seq(Member) /\ Len(u) = Len(y) + Len(z)
      /\ \A i \in 1 .. Len(y) + Len(z) : u[i] = IF i <= Len(y) THEN y[i] ELSE z[i - Len(y)]
  <2>1. /\ y \o z \in Seq(Member) /\ Len(y \o z) = Len(y) + Len(z)
        /\ \A i \in 1 .. Len(y) + Len(z) : (y \o z)[i] = IF i <= Len(y) THEN y[i] ELSE z[i - Len(y)]
    BY <1>3, <1>6, ConcatProperties
  <2> QED
    BY <1>7, <2>1
<1>9. ASSUME NEW i \in 1 .. n + 1 PROVE u[i] = IF i < p THEN s[i] ELSE IF i = p THEN e ELSE s[i - 1]
  <2>1. i \in Nat /\ i >= 1 /\ i <= Len(y) + Len(z)
    BY <1>1, <1>3, <1>6
  <2>2. CASE i <= p
    BY <1>1, <1>6, <1>8, <2>1, <2>2
  <2>3. CASE ~(i <= p)
    <3>1. i - p \in 1 .. n - p + 1 /\ p + (i - p) - 1 = i - 1
      BY <1>1, <2>1, <2>3
    <3>2. u[i] = z[i - p]
      BY <1>6, <1>8, <2>1, <2>3
    <3>3. z[i - p] = s[p + (i - p) - 1]
      BY <1>3, <3>1
    <3>4. u[i] = s[i - 1]
      BY <3>1, <3>2, <3>3
    <3>5. ~(i < p) /\ i # p
      BY <1>1, <2>1, <2>3
    <3> QED
      BY <3>4, <3>5
  <2> QED
    BY <2>2, <2>3
<1>10. Len(u) = n + 1
  BY <1>1, <1>3, <1>6, <1>8
<1> QED
  BY <1>8, <1>9, <1>10 DEF n, u, IsInsert

\* A set of numbers below n that holds whatever is less than one of its own is
\* an initial segment.
LEMMA InitialSegment ==
    ASSUME NEW n \in Nat, NEW X, X \subseteq 0 .. n - 1,
           \A i \in X, j \in 0 .. n - 1 : j <= i => j \in X
    PROVE  \E k \in 0 .. n : X = 0 .. k - 1
<1> DEFINE k == Cardinality(X)
<1>1. IsFiniteSet(0 .. n - 1) /\ Cardinality(0 .. n - 1) = n
  BY FS_Interval
<1>2. IsFiniteSet(X) /\ k \in Nat /\ k <= n
  BY <1>1, FS_Subset, FS_CardinalityType
<1>3. \A i \in X : i \in 0 .. k - 1
  <2> SUFFICES ASSUME NEW i \in X PROVE i \in 0 .. k - 1
    OBVIOUS
  <2>1. i \in Nat /\ 0 .. i \in SUBSET X
    OBVIOUS
  <2>2. IsFiniteSet(0 .. i) /\ Cardinality(0 .. i) = i + 1
    BY <2>1, FS_Interval
  <2>3. i + 1 <= k
    BY <1>2, <2>1, <2>2, FS_Subset
  <2> QED
    BY <1>2, <2>1, <2>3
<1>4. X \subseteq 0 .. k - 1
  BY <1>3
<1> HIDE DEF k
<1>5. IsFiniteSet(0 .. k - 1) /\ Cardinality(0 .. k - 1) = k
  BY <1>2, FS_Interval
<1>6. X = 0 .. k - 1
  BY <1>4, <1>5, FS_Subset DEF k
<1> QED
  BY <1>2, <1>6

-----------------------------------------------------------------------------
\* Tables

\* The deadline of the i-th in the queue, and what it has left.
Due(t, i) == t.timeout[t.ring[i]]
Left(t, i, now) == Signed(Due(t, i) - now)

\* The k-th leads: none has less left, and those before it in the queue lapse
\* after the wrap.
Leads(t, k, now) ==
    /\ t.leader = t.ring[k]
    /\ \A i \in 1 .. Len(t.ring) : Left(t, k, now) <= Left(t, i, now)
    /\ \A i \in 1 .. Len(t.ring) : i < k => Due(t, i) < Due(t, k)

TableOK(t, now) ==
    /\ t.ring \in Seq(Member)
    /\ t.timeout \in [Member -> Tick]
    /\ \A i, j \in 1 .. Len(t.ring) : t.ring[i] = t.ring[j] => i = j
    /\ \A i, j \in 1 .. Len(t.ring) : i < j => Due(t, i) <= Due(t, j)
    /\ \A i \in 1 .. Len(t.ring) : Left(t, i, now) \in -MaxLate .. DEFAULT_ACK_TIMEOUT
    /\ IF t.ring = << >> THEN t.leader = Null ELSE \E k \in 1 .. Len(t.ring) : Leads(t, k, now)

\* Going round from k, j does not come before i.
NotBefore(k, i, j) == IF i >= k THEN j >= i \/ j < k ELSE j >= i /\ j < k

LEMMA TableTypes ==
    ASSUME NEW t, NEW now \in Tick, TableOK(t, now)
    PROVE  /\ Len(t.ring) \in Nat
           /\ \A i \in 1 .. Len(t.ring) : t.ring[i] \in Member /\ Due(t, i) \in Tick /\ Left(t, i, now) \in Int
<1>1. Len(t.ring) \in Nat /\ \A i \in 1 .. Len(t.ring) : t.ring[i] \in Member
  BY SeqElements DEF TableOK
<1>2. \A i \in 1 .. Len(t.ring) : Due(t, i) \in Tick
  BY <1>1 DEF TableOK, Due
<1>3. \A i \in 1 .. Len(t.ring) : Left(t, i, now) \in Int
  BY HalfOfTicks DEF TableOK
<1> QED
  BY <1>1, <1>2, <1>3

\* Going round from the leader, what is left does not fall.
LEMMA Rotation ==
    ASSUME NEW t, NEW now \in Tick, TableOK(t, now), NEW k \in 1 .. Len(t.ring), Leads(t, k, now),
           NEW i \in 1 .. Len(t.ring), NEW j \in 1 .. Len(t.ring), NotBefore(k, i, j)
    PROVE  Left(t, i, now) <= Left(t, j, now)
<1>1. /\ Due(t, i) \in Tick /\ Due(t, j) \in Tick /\ Due(t, k) \in Tick
      /\ Left(t, i, now) \in Int /\ Left(t, j, now) \in Int /\ Left(t, k, now) \in Int
      /\ Len(t.ring) \in Nat
  BY TableTypes
<1>2. ASSUME NEW x \in 1 .. Len(t.ring)
      PROVE  /\ Left(t, x, now) - Left(t, k, now) = IF Due(t, x) >= Due(t, k) THEN Due(t, x) - Due(t, k) ELSE Due(t, x) - Due(t, k) + TICKS
             /\ x >= k <=> Due(t, x) >= Due(t, k)
  <2>1. /\ Due(t, x) \in Tick /\ Due(t, k) \in Tick
        /\ Left(t, x, now) \in -MaxLate .. DEFAULT_ACK_TIMEOUT
        /\ Left(t, k, now) \in -MaxLate .. DEFAULT_ACK_TIMEOUT
        /\ Left(t, x, now) >= Left(t, k, now)
    BY TableTypes, HalfOfTicks DEF TableOK, Leads
  <2>2. Left(t, x, now) - Left(t, k, now) = IF Due(t, x) >= Due(t, k) THEN Due(t, x) - Due(t, k) ELSE Due(t, x) - Due(t, k) + TICKS
    BY <2>1, LeftsDiffer DEF Left
  <2>3. x < k => Due(t, x) < Due(t, k)
    BY DEF Leads
  <2>4. x > k => Due(t, x) >= Due(t, k)
    BY DEF TableOK
  <2>5. x = k => Due(t, x) = Due(t, k)
    OBVIOUS
  <2> QED
    BY <2>1, <2>2, <2>3, <2>4, <2>5, HalfOfTicks DEF Tick
<1>3. i < j => Due(t, i) <= Due(t, j)
  BY DEF TableOK
<1>4. /\ Left(t, i, now) - Left(t, k, now) = IF i >= k THEN Due(t, i) - Due(t, k) ELSE Due(t, i) - Due(t, k) + TICKS
      /\ Left(t, j, now) - Left(t, k, now) = IF j >= k THEN Due(t, j) - Due(t, k) ELSE Due(t, j) - Due(t, k) + TICKS
  BY <1>2
<1> DEFINE a == Due(t, i)
           b == Due(t, j)
           c == Due(t, k)
           x == Left(t, i, now)
           y == Left(t, j, now)
           z == Left(t, k, now)
<1>5. /\ a \in Int /\ b \in Int /\ c \in Int /\ x \in Int /\ y \in Int /\ z \in Int
      /\ 0 <= b /\ a < TICKS /\ TICKS \in Int
      /\ i \in Int /\ j \in Int /\ k \in Int
  BY <1>1, HalfOfTicks DEF Tick
<1>6. i <= j => a <= b
  <2>1. i = j => a = b
    OBVIOUS
  <2> QED
    BY <1>3, <1>5, <2>1
<1>7. /\ x - z = IF i >= k THEN a - c ELSE a - c + TICKS
      /\ y - z = IF j >= k THEN b - c ELSE b - c + TICKS
  BY <1>4
<1>8. IF i >= k THEN j >= i \/ j < k ELSE j >= i /\ j < k
  BY DEF NotBefore
<1> HIDE DEF a, b, c, x, y, z
<1>9. x <= y
  BY <1>5, <1>6, <1>7, <1>8
<1> QED
  BY <1>9 DEF x, y

\* Some memberships leave the queue of t, u is left: the p-th that stays was the
\* e[p]-th.  The q-th, the first that stays going round from k, leads.
SomeLeave(t, k, u, e, q) ==
    /\ u.timeout = t.timeout
    /\ u.ring \in Seq(Member)
    /\ \A p \in 1 .. Len(u.ring) : e[p] \in 1 .. Len(t.ring) /\ u.ring[p] = t.ring[e[p]]
    /\ \A p, r \in 1 .. Len(u.ring) : p < r => e[p] < e[r]
    /\ q \in 1 .. Len(u.ring) /\ u.leader = u.ring[q]
    /\ \A p \in 1 .. Len(u.ring) : NotBefore(k, e[q], e[p])

\* The table that is left is in order.
LEMMA SomeLeaveOK ==
    ASSUME NEW t, NEW now \in Tick, TableOK(t, now), NEW k \in 1 .. Len(t.ring), Leads(t, k, now),
           NEW u, NEW e, NEW q, SomeLeave(t, k, u, e, q)
    PROVE  TableOK(u, now)
<1> USE DEF SomeLeave
<1>1. Len(t.ring) \in Nat /\ Len(u.ring) \in Nat
  BY TableTypes, SeqElements
<1>2. \A p \in 1 .. Len(u.ring) : Due(u, p) = Due(t, e[p]) /\ Left(u, p, now) = Left(t, e[p], now)
  BY DEF Due, Left
<1>3. u.timeout \in [Member -> Tick]
  BY DEF TableOK
<1>4. \A i, j \in 1 .. Len(u.ring) : u.ring[i] = u.ring[j] => i = j
  <2>1. ASSUME NEW i \in 1 .. Len(u.ring), NEW j \in 1 .. Len(u.ring), u.ring[i] = u.ring[j], i < j PROVE FALSE
    <3>1. e[i] = e[j]
      <4>1. e[i] \in 1 .. Len(t.ring) /\ e[j] \in 1 .. Len(t.ring) /\ t.ring[e[i]] = t.ring[e[j]]
        BY <2>1
      <4> QED
        BY <4>1 DEF TableOK
    <3>2. e[i] < e[j] /\ e[i] \in Nat
      BY <1>1, <2>1
    <3> QED
      BY <3>1, <3>2
  <2>2. ASSUME NEW i \in 1 .. Len(u.ring), NEW j \in 1 .. Len(u.ring), u.ring[i] = u.ring[j] PROVE i = j
    <3>1. i < j \/ j < i \/ i = j
      BY <1>1
    <3> QED
      BY <2>1, <2>2, <3>1
  <2> QED
    BY <2>2
<1>5. \A i, j \in 1 .. Len(u.ring) : i < j => Due(u, i) <= Due(u, j)
  <2> SUFFICES ASSUME NEW i \in 1 .. Len(u.ring), NEW j \in 1 .. Len(u.ring), i < j
               PROVE  Due(u, i) <= Due(u, j)
    OBVIOUS
  <2>1. e[i] \in 1 .. Len(t.ring) /\ e[j] \in 1 .. Len(t.ring) /\ e[i] < e[j]
    OBVIOUS
  <2>2. Due(t, e[i]) <= Due(t, e[j])
    BY <2>1 DEF TableOK
  <2> QED
    BY <1>2, <2>2
<1>6. \A i \in 1 .. Len(u.ring) : Left(u, i, now) \in -MaxLate .. DEFAULT_ACK_TIMEOUT
  BY <1>2 DEF TableOK
<1>7. Leads(u, q, now)
  <2>1. ASSUME NEW i \in 1 .. Len(u.ring) PROVE Left(u, q, now) <= Left(u, i, now)
    BY <1>2, Rotation
  <2>2. ASSUME NEW i \in 1 .. Len(u.ring), i < q PROVE Due(u, i) < Due(u, q)
    <3>1. e[i] \in 1 .. Len(t.ring) /\ e[q] \in 1 .. Len(t.ring) /\ e[i] < e[q]
      BY <2>2
    <3>2. e[q] >= k /\ e[i] < k
      BY <1>1, <3>1 DEF NotBefore
    <3>3. Due(t, e[i]) < Due(t, k) /\ Due(t, k) \in Tick /\ Due(t, e[i]) \in Tick /\ Due(t, e[q]) \in Tick
      BY <3>1, <3>2, TableTypes DEF Leads
    <3>4. Due(t, k) <= Due(t, e[q])
      <4>1. CASE e[q] = k
        BY <3>3, <4>1 DEF Tick
      <4>2. CASE e[q] # k
        <5>1. k < e[q]
          BY <1>1, <3>1, <3>2, <4>2
        <5> QED
          BY <3>1, <5>1 DEF TableOK
      <4> QED
        BY <4>1, <4>2
    <3> QED
      BY <1>2, <3>3, <3>4 DEF Tick
  <2> QED
    BY <2>1, <2>2 DEF Leads
<1>8. u.ring # << >>
  BY <1>1, SeqElements
<1> QED
  BY <1>3, <1>4, <1>5, <1>6, <1>7, <1>8 DEF TableOK

\* The leader is in the queue and has the least left; none leads an empty one.
LEMMA LeaderHasLeast ==
    ASSUME NEW t, NEW now \in Tick, TableOK(t, now)
    PROVE  /\ t.leader = Null <=> t.ring = << >>
           /\ t.leader # Null =>
                 /\ t.leader \in ToSet(t.ring) /\ t.leader \in Member
                 /\ \A m \in ToSet(t.ring) : Signed(t.timeout[t.leader] - now) <= Signed(t.timeout[m] - now)
           /\ \A m \in ToSet(t.ring) :
                 m \in Member /\ t.timeout[m] \in Tick
                 /\ Signed(t.timeout[m] - now) \in -MaxLate .. DEFAULT_ACK_TIMEOUT
<1>1. /\ ToSet(t.ring) = {t.ring[i] : i \in 1 .. Len(t.ring)}
      /\ \A i \in 1 .. Len(t.ring) : t.ring[i] \in Member
  BY SeqElements DEF TableOK
<1>2. ASSUME NEW m \in ToSet(t.ring)
      PROVE  m \in Member /\ t.timeout[m] \in Tick /\ Signed(t.timeout[m] - now) \in -MaxLate .. DEFAULT_ACK_TIMEOUT
  <2>1. PICK i \in 1 .. Len(t.ring) : m = t.ring[i]
    BY <1>1
  <2>2. Left(t, i, now) \in -MaxLate .. DEFAULT_ACK_TIMEOUT
    BY DEF TableOK
  <2> QED
    BY <1>1, <2>1, <2>2 DEF Left, Due, TableOK
<1>3. CASE t.ring = << >>
  BY <1>2, <1>3 DEF TableOK
<1>4. CASE t.ring # << >>
  <2>1. PICK k \in 1 .. Len(t.ring) : Leads(t, k, now)
    BY <1>4 DEF TableOK
  <2>2. t.leader = t.ring[k] /\ t.leader \in Member /\ t.leader \in ToSet(t.ring)
    BY <1>1, <2>1 DEF Leads
  <2>3. ASSUME NEW m \in ToSet(t.ring) PROVE Signed(t.timeout[t.leader] - now) <= Signed(t.timeout[m] - now)
    <3>1. PICK i \in 1 .. Len(t.ring) : m = t.ring[i]
      BY <1>1
    <3>2. Left(t, k, now) <= Left(t, i, now)
      BY <2>1 DEF Leads
    <3> QED
      BY <2>2, <3>1, <3>2 DEF Left, Due
  <2> QED
    BY <1>2, <1>4, <2>2, <2>3, NullAssumption
<1> QED
  BY <1>3, <1>4

\* Where a membership is in the queue.
LEMMA PlaceOf ==
    ASSUME NEW t, NEW now, TableOK(t, now), NEW m \in ToSet(t.ring)
    PROVE  /\ Place(t.ring, m) \in 1 .. Len(t.ring) /\ t.ring[Place(t.ring, m)] = m
           /\ \A i \in 1 .. Len(t.ring) : t.ring[i] = m => i = Place(t.ring, m)
<1>1. DOMAIN t.ring = 1 .. Len(t.ring) /\ ToSet(t.ring) = {t.ring[i] : i \in 1 .. Len(t.ring)}
  BY SeqElements DEF TableOK
<1>2. \E i \in DOMAIN t.ring : t.ring[i] = m
  BY <1>1
<1>3. Place(t.ring, m) \in DOMAIN t.ring /\ t.ring[Place(t.ring, m)] = m
  BY <1>2 DEF Place
<1> QED
  BY <1>1, <1>3 DEF TableOK

\* A membership leaves the queue, and the table is in order.
LEMMA RemovedOK ==
    ASSUME NEW t, NEW now \in Tick, TableOK(t, now), NEW m \in ToSet(t.ring)
    PROVE  LET u == Removed(t, m) IN
           /\ TableOK(u, now)
           /\ u.timeout = t.timeout
           /\ ToSet(u.ring) = ToSet(t.ring) \ {m}
<1> DEFINE u == Removed(t, m)
           at == Place(t.ring, m)
           n == Len(t.ring)
<1>1. /\ t.ring \in Seq(Member) /\ n \in Nat /\ at \in 1 .. n /\ t.ring[at] = m
      /\ \A i \in 1 .. n : t.ring[i] = m => i = at
      /\ ToSet(t.ring) = {t.ring[i] : i \in 1 .. n}
  BY PlaceOf, TableTypes, SeqElements DEF TableOK
<1>2. PICK k \in 1 .. n : Leads(t, k, now)
  BY <1>1, SeqElements DEF TableOK
<1>3. t.leader = t.ring[k]
  BY <1>2 DEF Leads
<1> DEFINE rest == RemoveAt(t.ring, at)
<1>4. /\ u.ring = rest /\ u.timeout = t.timeout
      /\ u.leader = IF m # t.leader THEN t.leader
                    ELSE IF at < n THEN t.ring[at + 1]
                    ELSE IF rest # << >> THEN Head(rest) ELSE Null
  BY DEF Removed
<1>5. /\ rest \in Seq(Member) /\ Len(rest) = n - 1
      /\ \A i \in 1 .. n - 1 : rest[i] = t.ring[IF i < at THEN i ELSE i + 1]
  <2> DEFINE cut == SubSeq(t.ring, 1, at - 1) \o SubSeq(t.ring, at + 1, n)
  <2>1. rest = cut
    BY DEF RemoveAt
  <2>2. at - 1 \in 0 .. n /\ at + 1 \in (at - 1) + 1 .. n + 1
    BY <1>1
  <2>3. /\ cut \in Seq(Member)
        /\ Len(cut) = (at - 1) + n - (at + 1) + 1
        /\ \A i \in 1 .. Len(cut) : cut[i] = t.ring[IF i <= at - 1 THEN i ELSE i - (at - 1) + (at + 1) - 1]
    <3>1. IsCut(cut, t.ring, at - 1, at + 1)
      BY <1>1, <2>2, CutElements
    <3> QED
      BY <1>1, <3>1 DEF IsCut
  <2> HIDE DEF cut, at, rest
  <2>4. Len(cut) = n - 1
    BY <1>1, <2>3
  <2>5. ASSUME NEW i \in 1 .. n - 1 PROVE cut[i] = t.ring[IF i < at THEN i ELSE i + 1]
    <3>1. (IF i <= at - 1 THEN i ELSE i - (at - 1) + (at + 1) - 1) = IF i < at THEN i ELSE i + 1
      BY <1>1
    <3> QED
      BY <2>3, <2>4, <3>1
  <2> QED
    BY <2>1, <2>3, <2>4, <2>5
<1> HIDE DEF u, at, rest
<1>6. ToSet(u.ring) = ToSet(t.ring) \ {m}
  <2>1. ToSet(u.ring) = {rest[i] : i \in 1 .. n - 1}
    BY <1>4, <1>5, SeqElements
  <2>2. ASSUME NEW x \in ToSet(u.ring) PROVE x \in ToSet(t.ring) \ {m}
    <3>1. PICK i \in 1 .. n - 1 : x = rest[i]
      BY <2>1
    <3> DEFINE j == IF i < at THEN i ELSE i + 1
    <3>2. j \in 1 .. n /\ j # at
      BY <1>1
    <3>3. x = t.ring[j]
      BY <1>5, <3>1
    <3> HIDE DEF j
    <3> QED
      BY <1>1, <3>2, <3>3
  <2>3. ASSUME NEW x \in ToSet(t.ring) \ {m} PROVE x \in ToSet(u.ring)
    <3>1. PICK j \in 1 .. n : x = t.ring[j]
      BY <1>1
    <3>2. j # at
      BY <1>1, <3>1
    <3> DEFINE i == IF j < at THEN j ELSE j - 1
    <3>3. i \in 1 .. n - 1 /\ (IF i < at THEN i ELSE i + 1) = j
      BY <1>1, <3>2
    <3> HIDE DEF i
    <3>4. rest[i] = x
      BY <1>5, <3>1, <3>3
    <3> QED
      BY <2>1, <3>3, <3>4
  <2> QED
    BY <2>2, <2>3
<1>7. CASE n = 1
  <2>1. rest = << >> /\ m = t.leader /\ ~(at < n)
    BY <1>1, <1>3, <1>5, <1>7, SeqElements
  <2>2. u.ring = << >> /\ u.leader = Null /\ u.timeout \in [Member -> Tick] /\ Len(u.ring) = 0
    BY <1>4, <2>1 DEF TableOK
  <2>3. u.ring \in Seq(Member)
    BY <1>4, <1>5
  <2> QED
    BY <2>2, <2>3, <1>4, <1>6 DEF TableOK, u
<1>8. CASE n # 1
  <2> DEFINE e == [p \in 1 .. n - 1 |-> IF p < at THEN p ELSE p + 1]
             q == IF m # t.leader THEN IF k < at THEN k ELSE k - 1
                  ELSE IF at < n THEN at ELSE 1
  <2>1. u.timeout = t.timeout /\ u.ring \in Seq(Member) /\ Len(u.ring) = n - 1
    BY <1>4, <1>5
  <2>2. \A p \in 1 .. n - 1 : e[p] \in 1 .. n /\ u.ring[p] = t.ring[e[p]]
    BY <1>1, <1>4, <1>5
  <2>3. \A p, r \in 1 .. n - 1 : p < r => e[p] < e[r]
    BY <1>1
  <2>4. m # t.leader => k # at
    BY <1>1, <1>3
  <2>5. m = t.leader => k = at
    BY <1>1, <1>3
  <2>6. q \in 1 .. n - 1
    <3>1. CASE m # t.leader /\ k < at
      BY <1>1, <3>1
    <3>2. CASE m # t.leader /\ ~(k < at)
      BY <1>1, <2>4, <3>2
    <3>3. CASE m = t.leader /\ at < n
      BY <1>1, <3>3
    <3>4. CASE m = t.leader /\ ~(at < n)
      <4>1. n - 1 \in Nat /\ n - 1 >= 1
        <5>1. n \in Nat /\ at \in 1 .. n
          BY <1>1
        <5> HIDE DEF n, q, e
        <5> QED
          BY <1>8, <5>1
      <4>2. q = 1
        BY <3>4
      <4> QED
        BY <4>1, <4>2
    <3> QED
      BY <3>1, <3>2, <3>3, <3>4
  <2>7. u.leader = u.ring[q]
    <3>1. CASE m # t.leader
      <4>1. e[q] = k
        BY <1>1, <2>4, <2>6, <3>1
      <4> QED
        BY <1>3, <1>4, <2>2, <2>6, <3>1, <4>1
    <3>2. CASE m = t.leader /\ at < n
      BY <1>1, <1>4, <1>5, <2>6, <3>2
    <3>3. CASE m = t.leader /\ ~(at < n)
      <4>1. Len(rest) # 0
        BY <1>1, <1>5, <1>8
      <4>2. rest # << >>
        BY <4>1
      <4>3. u.leader = Head(rest) /\ Head(rest) = rest[1] /\ q = 1
        BY <1>4, <1>5, <3>3, <4>2
      <4> QED
        BY <1>4, <4>3
    <3> QED
      BY <3>1, <3>2, <3>3
  <2>8. \A p \in 1 .. n - 1 : NotBefore(k, e[q], e[p])
    <3> SUFFICES ASSUME NEW p \in 1 .. n - 1 PROVE NotBefore(k, e[q], e[p])
      OBVIOUS
    <3>1. CASE m # t.leader
      <4>1. e[q] = k
        BY <1>1, <2>4, <2>6, <3>1
      <4> QED
        BY <1>1, <4>1 DEF NotBefore
    <3>2. CASE m = t.leader /\ at < n
      <4>1. e[q] = k + 1 /\ e[p] # k
        BY <1>1, <2>5, <2>6, <3>2
      <4> QED
        BY <1>1, <4>1 DEF NotBefore
    <3>3. CASE m = t.leader /\ ~(at < n)
      <4>1. e[q] = 1 /\ e[p] < k /\ 1 < k /\ e[p] >= 1
        BY <1>1, <1>8, <2>5, <2>6, <3>3
      <4> QED
        BY <1>1, <4>1 DEF NotBefore
    <3> QED
      BY <3>1, <3>2, <3>3
  <2> HIDE DEF e, q
  <2>9. SomeLeave(t, k, u, e, q)
    BY <2>1, <2>2, <2>3, <2>6, <2>7, <2>8 DEF SomeLeave
  <2>10. TableOK(u, now)
    BY <1>2, <2>9, SomeLeaveOK
  <2> QED
    BY <1>4, <1>6, <2>10 DEF u
<1> QED
  BY <1>7, <1>8

\* m enters the queue of t with the deadline tick, u is what results: m leads if
\* none has less left.
Entered(t, m, tick, u) ==
    /\ u.timeout = [t.timeout EXCEPT ![m] = tick]
    /\ u.ring = SortedIn(t.ring, u.timeout, m)
    /\ u.leader = IF t.leader = Null \/ Signed(tick - u.timeout[t.leader]) <= 0 THEN m ELSE t.leader

\* A deadline one term ahead.
TermAhead(now, tick) == tick = (now + DEFAULT_ACK_TIMEOUT) % TICKS

\* The table that results is in order.
LEMMA EnteredOK ==
    ASSUME NEW t, NEW now \in Tick, TableOK(t, now), NEW m \in Member, m \notin ToSet(t.ring),
           NEW tick, TermAhead(now, tick), NEW u, Entered(t, m, tick, u)
    PROVE  /\ TableOK(u, now)
           /\ ToSet(u.ring) = ToSet(t.ring) \cup {m}
<1> DEFINE n == Len(t.ring)
           before == {i \in DOMAIN t.ring : u.timeout[t.ring[i]] < u.timeout[m]}
           place == IF before = {} THEN 1 ELSE 1 + CHOOSE i \in before : \A j \in before : i >= j
<1>1. /\ n \in Nat /\ t.ring \in Seq(Member) /\ DOMAIN t.ring = 1 .. n
      /\ ToSet(t.ring) = {t.ring[i] : i \in 1 .. n}
      /\ \A i \in 1 .. n : t.ring[i] \in Member /\ t.ring[i] # m
  BY SeqElements DEF TableOK
<1>2. tick \in Tick /\ Signed(tick - now) = DEFAULT_ACK_TIMEOUT
  <2>1. Signed(now - now) \in -MaxLate .. DEFAULT_ACK_TIMEOUT
    <3>1. now - now = 0
      BY DEF Tick
    <3>2. Signed(0) = 0
      BY SignedValue, HalfOfTicks
    <3> QED
      BY <3>1, <3>2, HalfOfTicks
  <2> QED
    BY <2>1, TermLeft DEF TermAhead
<1>3. /\ u.timeout \in [Member -> Tick] /\ u.timeout[m] = tick
      /\ \A i \in 1 .. n : u.timeout[t.ring[i]] = Due(t, i) /\ Due(t, i) \in Tick
  <2>1. t.timeout \in [Member -> Tick]
    BY DEF TableOK
  <2>2. u.timeout = [t.timeout EXCEPT ![m] = tick]
    BY DEF Entered
  <2> QED
    BY <1>1, <1>2, <2>1, <2>2 DEF Due
<1>4. /\ place \in 1 .. n + 1
      /\ \A i \in 1 .. n : i < place => Due(t, i) <= tick
      /\ \A i \in 1 .. n : i >= place => Due(t, i) >= tick
  <2>1. before = {i \in 1 .. n : Due(t, i) < tick}
    BY <1>1, <1>3
  <2> HIDE DEF before
  <2>2. CASE before = {}
    <3>1. place = 1
      BY <2>2
    <3>2. ASSUME NEW i \in 1 .. n PROVE Due(t, i) >= tick
      <4>1. ~(Due(t, i) < tick) /\ Due(t, i) \in Tick
        BY <1>3, <2>1, <2>2
      <4> QED
        BY <1>2, <4>1 DEF Tick
    <3> HIDE DEF place
    <3> QED
      BY <1>1, <3>1, <3>2
  <2>3. CASE before # {}
    <3>1. \A i \in before, j \in 1 .. n : j < i => j \in before
      <4> SUFFICES ASSUME NEW i \in before, NEW j \in 1 .. n, j < i PROVE Due(t, j) < tick
        BY <2>1
      <4>1. i \in 1 .. n /\ Due(t, i) < tick
        BY <2>1
      <4>2. Due(t, j) <= Due(t, i)
        BY <4>1 DEF TableOK
      <4> QED
        BY <1>2, <1>3, <4>1, <4>2 DEF Tick
    <3> DEFINE X == {i - 1 : i \in before}
    <3>2. X \subseteq 0 .. n - 1 /\ \A i \in X, j \in 0 .. n - 1 : j <= i => j \in X
      <4>1. X \subseteq 0 .. n - 1
        BY <1>1, <2>1
      <4>2. ASSUME NEW i \in X, NEW j \in 0 .. n - 1, j <= i PROVE j \in X
        <5>1. i + 1 \in before /\ i \in 0 .. n - 1
          BY <1>1, <2>1
        <5>2. j + 1 \in 1 .. n /\ (j + 1 < i + 1 \/ j + 1 = i + 1) /\ (j + 1) - 1 = j
          BY <1>1, <4>2, <5>1
        <5>3. j + 1 \in before
          BY <3>1, <5>1, <5>2
        <5> QED
          BY <5>2, <5>3
      <4> QED
        BY <4>1, <4>2
    <3> HIDE DEF X
    <3>3. PICK g \in 0 .. n : X = 0 .. g - 1
      BY <1>1, <3>2, InitialSegment
    <3>4. before = 1 .. g
      <4>1. ASSUME NEW i \in before PROVE i \in 1 .. g
        <5>1. i \in 1 .. n /\ i - 1 \in X
          BY <2>1 DEF X
        <5> QED
          BY <1>1, <3>3, <5>1
      <4>2. ASSUME NEW i \in 1 .. g PROVE i \in before
        <5>1. i - 1 \in X
          BY <1>1, <3>3
        <5>2. PICK j \in before : i - 1 = j - 1
          BY <5>1 DEF X
        <5>3. j \in Int
          BY <1>1, <2>1
        <5> QED
          BY <5>2, <5>3
      <4> QED
        BY <4>1, <4>2
    <3>5. g \in before /\ \A j \in before : g >= j
      <4>1. g # 0
        BY <1>1, <2>3, <3>4
      <4> QED
        BY <1>1, <3>4, <4>1
    <3> DEFINE top == CHOOSE i \in before : \A j \in before : i >= j
    <3>6. top \in before /\ \A j \in before : top >= j
      BY <3>5
    <3> HIDE DEF top
    <3>7. top = g
      BY <1>1, <3>4, <3>5, <3>6
    <3>8. place = 1 + g
      BY <2>3, <3>7 DEF top
    <3>9. ASSUME NEW i \in 1 .. n
          PROVE  (i < place => Due(t, i) <= tick) /\ (i >= place => Due(t, i) >= tick)
      <4>1. i <= g <=> Due(t, i) < tick
        BY <1>1, <2>1, <3>4
      <4>2. i < place <=> i <= g
        BY <1>1, <3>8
      <4>3. i >= place <=> ~(i <= g)
        BY <1>1, <3>8
      <4> HIDE DEF place
      <4> QED
        BY <1>2, <1>3, <4>1, <4>2, <4>3 DEF Tick
    <3> HIDE DEF place
    <3> QED
      BY <1>1, <3>8, <3>9
  <2> QED
    BY <2>2, <2>3
<1> HIDE DEF place, before
<1>5. /\ u.ring \in Seq(Member) /\ Len(u.ring) = n + 1
      /\ \A i \in 1 .. n + 1 :
            u.ring[i] = IF i < place THEN t.ring[i] ELSE IF i = place THEN m ELSE t.ring[i - 1]
  <2>1. u.ring = InsertAt(t.ring, place, m)
    BY DEF Entered, SortedIn, place, before
  <2> DEFINE v == InsertAt(t.ring, place, m)
  <2>2. /\ v \in Seq(Member) /\ Len(v) = n + 1
        /\ \A i \in 1 .. n + 1 :
              v[i] = IF i < place THEN t.ring[i] ELSE IF i = place THEN m ELSE t.ring[i - 1]
    <3>1. t.ring \in Seq(Member) /\ place \in 1 .. Len(t.ring) + 1
      BY <1>1, <1>4
    <3>2. IsInsert(v, t.ring, place, m)
      BY <3>1, InsertElements
    <3> QED
      BY <1>1, <3>1, <3>2 DEF IsInsert
  <2> HIDE DEF v
  <2>3. u.ring = v
    BY <2>1 DEF v
  <2> QED
    BY <2>2, <2>3
\* Where the i-th of u was in t.
<1> DEFINE old(i) == IF i < place THEN i ELSE i - 1
<1>6. \A i \in 1 .. n + 1 : i # place =>
         old(i) \in 1 .. n /\ u.ring[i] = t.ring[old(i)] /\ Due(u, i) = Due(t, old(i)) /\ Left(u, i, now) = Left(t, old(i), now)
  <2> SUFFICES ASSUME NEW i \in 1 .. n + 1, i # place
               PROVE  old(i) \in 1 .. n /\ u.ring[i] = t.ring[old(i)] /\ Due(u, i) = Due(t, old(i)) /\ Left(u, i, now) = Left(t, old(i), now)
    OBVIOUS
  <2>1. old(i) \in 1 .. n
    BY <1>1, <1>4
  <2>2. u.ring[i] = t.ring[old(i)]
    BY <1>1, <1>4, <1>5
  <2> HIDE DEF old
  <2> QED
    BY <1>3, <2>1, <2>2 DEF Due, Left
<1>7. u.ring[place] = m /\ Due(u, place) = tick /\ Left(u, place, now) = DEFAULT_ACK_TIMEOUT
  <2>1. u.ring[place] = m
    BY <1>1, <1>4, <1>5
  <2> QED
    BY <1>2, <1>3, <2>1 DEF Due, Left
<1>8. \A i, j \in 1 .. n + 1 : u.ring[i] = u.ring[j] => i = j
  <2> SUFFICES ASSUME NEW i \in 1 .. n + 1, NEW j \in 1 .. n + 1, u.ring[i] = u.ring[j] PROVE i = j
    OBVIOUS
  <2>0. \A x \in 1 .. n + 1 : x # place => u.ring[x] # m
    <3> SUFFICES ASSUME NEW x \in 1 .. n + 1, x # place PROVE u.ring[x] # m
      OBVIOUS
    <3>1. old(x) \in 1 .. n /\ u.ring[x] = t.ring[old(x)]
      BY <1>6
    <3> HIDE DEF old
    <3> QED
      BY <1>1, <3>1
  <2>1. CASE i = place \/ j = place
    BY <1>7, <2>0, <2>1
  <2>2. CASE i # place /\ j # place
    <3>1. old(i) = old(j)
      <4>1. /\ old(i) \in 1 .. n /\ u.ring[i] = t.ring[old(i)]
            /\ old(j) \in 1 .. n /\ u.ring[j] = t.ring[old(j)]
        BY <1>6, <2>2
      <4> HIDE DEF old
      <4> QED
        BY <4>1 DEF TableOK
    <3> QED
      BY <1>1, <1>4, <2>2, <3>1
  <2> QED
    BY <2>1, <2>2
<1>9. \A i, j \in 1 .. n + 1 : i < j => Due(u, i) <= Due(u, j)
  <2> SUFFICES ASSUME NEW i \in 1 .. n + 1, NEW j \in 1 .. n + 1, i < j PROVE Due(u, i) <= Due(u, j)
    OBVIOUS
  <2>1. CASE i = place
    <3>1. j # place /\ old(j) >= place /\ old(j) \in 1 .. n
      BY <1>1, <1>4, <2>1
    <3> QED
      BY <1>4, <1>6, <1>7, <2>1, <3>1
  <2>2. CASE j = place
    <3>1. i # place /\ old(i) < place /\ old(i) \in 1 .. n
      BY <1>1, <1>4, <2>2
    <3> QED
      BY <1>4, <1>6, <1>7, <2>2, <3>1
  <2>3. CASE i # place /\ j # place
    <3>1. old(i) < old(j) /\ old(i) \in 1 .. n /\ old(j) \in 1 .. n
      BY <1>1, <1>4, <2>3
    <3>2. Due(t, old(i)) <= Due(t, old(j))
      BY <3>1 DEF TableOK
    <3> QED
      BY <1>6, <2>3, <3>2
  <2> QED
    BY <2>1, <2>2, <2>3
<1>10. \A i \in 1 .. n + 1 : Left(u, i, now) \in -MaxLate .. DEFAULT_ACK_TIMEOUT
  <2> SUFFICES ASSUME NEW i \in 1 .. n + 1 PROVE Left(u, i, now) \in -MaxLate .. DEFAULT_ACK_TIMEOUT
    OBVIOUS
  <2>1. CASE i = place
    BY <1>7, <2>1, HalfOfTicks
  <2>2. CASE i # place
    BY <1>6, <2>2 DEF TableOK
  <2> QED
    BY <2>1, <2>2
<1>11. ToSet(u.ring) = ToSet(t.ring) \cup {m}
  <2>1. ToSet(u.ring) = {u.ring[i] : i \in 1 .. n + 1}
    BY <1>5, SeqElements
  <2>2. ASSUME NEW x \in ToSet(u.ring) PROVE x \in ToSet(t.ring) \cup {m}
    BY <1>1, <1>6, <1>7, <2>1
  <2>3. ASSUME NEW x \in ToSet(t.ring) PROVE x \in ToSet(u.ring)
    <3>1. PICK j \in 1 .. n : x = t.ring[j]
      BY <1>1
    <3> DEFINE i == IF j < place THEN j ELSE j + 1
    <3>2. i \in 1 .. n + 1 /\ i # place /\ old(i) = j
      BY <1>1, <1>4
    <3> HIDE DEF i, old
    <3>3. u.ring[i] = x
      BY <1>6, <3>1, <3>2
    <3> QED
      BY <2>1, <3>2, <3>3
  <2>4. m \in ToSet(u.ring)
    BY <1>4, <1>7, <2>1
  <2> QED
    BY <2>2, <2>3, <2>4
<1> HIDE DEF old
<1>12. \E q \in 1 .. n + 1 : Leads(u, q, now)
  <2>1. CASE t.leader = Null
    <3>1. n = 0 /\ u.leader = m
      BY <1>1, <2>1, LeaderHasLeast, SeqElements DEF Entered
    <3>2. place = 1 /\ Len(u.ring) = 1
      BY <1>4, <1>5, <3>1
    <3>3. Leads(u, 1, now)
      BY <1>7, <3>1, <3>2, HalfOfTicks DEF Leads
    <3> QED
      BY <3>1, <3>3
  <2>2. CASE t.leader # Null
    <3>0. t.ring # << >>
      BY <2>2, LeaderHasLeast
    <3>1. PICK k \in 1 .. n : Leads(t, k, now)
      BY <3>0 DEF TableOK
    <3>2. t.leader = t.ring[k] /\ \A i \in 1 .. n : Left(t, k, now) <= Left(t, i, now)
      BY <3>1 DEF Leads
    <3>3. Signed(tick - u.timeout[t.leader]) = DEFAULT_ACK_TIMEOUT - Left(t, k, now)
      <4>1. u.timeout[t.leader] = Due(t, k) /\ Due(t, k) \in Tick
        BY <1>3, <3>2
      <4>2. Signed(Due(t, k) - now) \in -MaxLate .. DEFAULT_ACK_TIMEOUT
        BY DEF Left, TableOK
      <4> QED
        BY <4>1, <4>2, TermLeft DEF Left, TermAhead
    <3>4. /\ Left(t, k, now) \in -MaxLate .. DEFAULT_ACK_TIMEOUT
          /\ \A i \in 1 .. n : Left(t, i, now) \in -MaxLate .. DEFAULT_ACK_TIMEOUT
      BY DEF TableOK
    <3>5. CASE Left(t, k, now) = DEFAULT_ACK_TIMEOUT
      <4>1. u.leader = m
        BY <3>3, <3>5, HalfOfTicks DEF Entered
      <4>2. \A i \in 1 .. n : Left(t, i, now) = DEFAULT_ACK_TIMEOUT
        BY <3>2, <3>4, <3>5, HalfOfTicks
      <4>3. \A i \in 1 .. n : Due(t, i) = tick
        <5> SUFFICES ASSUME NEW i \in 1 .. n PROVE Due(t, i) = tick
          OBVIOUS
        <5>1. /\ Due(t, i) \in Tick /\ Signed(Due(t, i) - now) = DEFAULT_ACK_TIMEOUT
              /\ Signed(tick - now) = DEFAULT_ACK_TIMEOUT
          BY <1>2, <1>3, <4>2 DEF Left
        <5>2. DEFAULT_ACK_TIMEOUT \in -MaxLate .. DEFAULT_ACK_TIMEOUT /\ DEFAULT_ACK_TIMEOUT \in Int
          BY HalfOfTicks
        <5>3. 0 = IF Due(t, i) >= tick THEN Due(t, i) - tick ELSE Due(t, i) - tick + TICKS
          BY <1>2, <5>1, <5>2, LeftsDiffer
        <5>4. Due(t, i) \in Int /\ tick \in Int /\ 0 <= Due(t, i) /\ tick < TICKS /\ TICKS \in Int
          BY <1>2, <5>1, HalfOfTicks DEF Tick
        <5> QED
          BY <5>3, <5>4
      <4>4. place = 1
        <5>1. before = {}
          BY <1>1, <1>2, <1>3, <4>3 DEF before, Tick
        <5> QED
          BY <5>1 DEF place
      <4>5. \A i \in 1 .. n + 1 : Left(u, i, now) = DEFAULT_ACK_TIMEOUT
        BY <1>6, <1>7, <4>2
      <4>6. Leads(u, 1, now)
        BY <1>1, <1>5, <1>7, <4>1, <4>4, <4>5, HalfOfTicks DEF Leads
      <4> QED
        BY <1>1, <4>6
    <3>6. CASE Left(t, k, now) # DEFAULT_ACK_TIMEOUT
      <4>1. u.leader = t.leader /\ Left(t, k, now) < DEFAULT_ACK_TIMEOUT
        BY <2>2, <3>3, <3>4, <3>6, HalfOfTicks DEF Entered
      <4> DEFINE q == IF k < place THEN k ELSE k + 1
      <4>2. q \in 1 .. n + 1 /\ q # place /\ old(q) = k
        BY <1>1, <1>4 DEF old
      <4>3. u.leader = u.ring[q] /\ Left(u, q, now) = Left(t, k, now) /\ Due(u, q) = Due(t, k)
        <5> HIDE DEF q
        <5> QED
          BY <1>6, <3>2, <4>1, <4>2
      <4>4. \A i \in 1 .. n + 1 : Left(u, q, now) <= Left(u, i, now)
        <5> SUFFICES ASSUME NEW i \in 1 .. n + 1 PROVE Left(u, q, now) <= Left(u, i, now)
          OBVIOUS
        <5> HIDE DEF q
        <5>1. CASE i = place
          BY <1>7, <3>4, <4>1, <4>3, <5>1, HalfOfTicks
        <5>2. CASE i # place
          BY <1>6, <3>2, <4>3, <5>2
        <5> QED
          BY <5>1, <5>2
      <4>5. \A i \in 1 .. n + 1 : i < q => Due(u, i) < Due(u, q)
        <5> SUFFICES ASSUME NEW i \in 1 .. n + 1, i < q PROVE Due(u, i) < Due(u, q)
          OBVIOUS
        <5>1. CASE i = place
          <6>1. place <= k
            BY <1>1, <1>4, <5>1
          <6>2. tick <= Due(t, k) /\ Due(t, k) \in Tick
            BY <1>3, <1>4, <6>1
          <6>3. tick # Due(t, k)
            BY <1>2, <3>6 DEF Left
          <6> HIDE DEF q
          <6> QED
            BY <1>2, <1>7, <4>3, <5>1, <6>2, <6>3 DEF Tick
        <5>2. CASE i # place
          <6>1. old(i) \in 1 .. n /\ old(i) < k
            BY <1>1, <1>4, <5>2 DEF old
          <6>2. Due(t, old(i)) < Due(t, k)
            BY <3>1, <6>1 DEF Leads
          <6> HIDE DEF q
          <6> QED
            BY <1>6, <4>3, <5>2, <6>2
        <5> QED
          BY <5>1, <5>2
      <4> HIDE DEF q
      <4>6. Leads(u, q, now)
        BY <1>5, <4>3, <4>4, <4>5 DEF Leads
      <4> QED
        BY <4>2, <4>6
    <3> QED
      BY <3>5, <3>6
  <2> QED
    BY <2>1, <2>2
<1>13. u.ring # << >>
  BY <1>1, <1>5, SeqElements
<1>14. TableOK(u, now)
  BY <1>3, <1>5, <1>8, <1>9, <1>10, <1>12, <1>13 DEF TableOK
<1> QED
  BY <1>11, <1>14

\* A membership is activated, or its deadline moves, and the table is in order.
LEMMA ActivatedOK ==
    ASSUME NEW t, NEW now \in Tick, TableOK(t, now), NEW m \in Member,
           NEW tick, TermAhead(now, tick)
    PROVE  LET u == Activated(t, m, tick) IN
           /\ TableOK(u, now)
           /\ ToSet(u.ring) = ToSet(t.ring) \cup {m}
           /\ u.timeout = [t.timeout EXCEPT ![m] = tick]
<1> DEFINE u == Activated(t, m, tick)
           out == IF m \in ToSet(t.ring) THEN Removed(t, m) ELSE t
<1>1. TableOK(out, now) /\ ToSet(out.ring) = ToSet(t.ring) \ {m} /\ out.timeout = t.timeout
  <2>1. CASE m \in ToSet(t.ring)
    BY <2>1, RemovedOK
  <2>2. CASE m \notin ToSet(t.ring)
    BY <2>2
  <2> QED
    BY <2>1, <2>2
<1>2. u.timeout = [t.timeout EXCEPT ![m] = tick]
  BY DEF Activated
<1>3. Entered(out, m, tick, u)
  <2>1. u.ring = SortedIn(out.ring, u.timeout, m)
    BY DEF Activated
  <2>2. u.leader = IF out.leader = Null \/ Signed(tick - u.timeout[out.leader]) <= 0 THEN m ELSE out.leader
    BY DEF Activated
  <2> HIDE DEF u, out
  <2> QED
    BY <1>1, <1>2, <2>1, <2>2 DEF Entered
<1> HIDE DEF u, out
<1>4. m \notin ToSet(out.ring)
  BY <1>1
<1>5. TableOK(u, now) /\ ToSet(u.ring) = ToSet(out.ring) \cup {m}
  BY <1>1, <1>3, <1>4, EnteredOK
<1> QED
  BY <1>1, <1>2, <1>5 DEF u

\* The timer removes just those whose time is over, and the table is in order.
LEMMA WithoutLapsedOK ==
    ASSUME ticker \in Tick, TableOK(Table, ticker), ring_leader # Null
    PROVE  /\ TableOK(WithoutLapsed, ticker)
           /\ WithoutLapsed.timeout = elastic_timeout
           /\ ToSet(WithoutLapsed.ring) = {m \in InRing : Signed(elastic_timeout[m] - ticker) > 0}
<1> DEFINE t == Table
           u == WithoutLapsed
           ring == membership_ring
           len == Len(membership_ring)
           k == Place(membership_ring, ring_leader)
           n == Lapsing
<1>1. t.ring = ring /\ t.leader = ring_leader /\ t.timeout = elastic_timeout
  BY DEF Table
<1>2. /\ u.ring = WithoutFirst(n) /\ u.timeout = elastic_timeout
      /\ u.leader = IF n = len THEN Null ELSE Successor(n)
  BY DEF WithoutLapsed
<1> HIDE DEF t, u
<1>3. /\ len \in Nat /\ ring \in Seq(Member) /\ k \in 1 .. len /\ ring[k] = ring_leader
      /\ InRing = {ring[i] : i \in 1 .. len}
      /\ \A i \in 1 .. len : ring[i] = ring_leader => i = k
  <2>1. TableOK(t, ticker)
    BY DEF t
  <2>2. t.leader \in ToSet(t.ring)
    BY <1>1, <2>1, LeaderHasLeast
  <2>3. /\ Place(t.ring, t.leader) \in 1 .. Len(t.ring) /\ t.ring[Place(t.ring, t.leader)] = t.leader
        /\ \A i \in 1 .. Len(t.ring) : t.ring[i] = t.leader => i = Place(t.ring, t.leader)
    BY <2>1, <2>2, PlaceOf
  <2>4. t.ring \in Seq(Member)
    BY <2>1 DEF TableOK
  <2> QED
    BY <1>1, <2>3, <2>4, SeqElements DEF InRing
<1>4. TableOK(t, ticker) /\ Leads(t, k, ticker)
  <2>1. TableOK(t, ticker)
    BY DEF t
  <2>2. t.ring # << >>
    BY <1>1, <2>1, LeaderHasLeast
  <2>3. PICK i \in 1 .. Len(t.ring) : Leads(t, i, ticker)
    BY <2>1, <2>2 DEF TableOK
  <2>4. i = k
    BY <1>1, <1>3, <2>3 DEF Leads
  <2> QED
    BY <2>1, <2>3, <2>4
\* The place of the j-th going round, and what is left of the membership there.
<1> DEFINE pos(j) == IF k + j <= len THEN k + j ELSE k + j - len
           left(i) == Left(t, i, ticker)
<1>5. \A j \in Int : Successor(j) = ring[pos(j)]
  <2> SUFFICES ASSUME NEW j \in Int PROVE Successor(j) = ring[pos(j)]
    OBVIOUS
  <2>1. CASE k + j <= len
    BY <2>1 DEF Successor
  <2>2. CASE ~(k + j <= len)
    BY <1>3, <2>2 DEF Successor
  <2> QED
    BY <2>1, <2>2
<1>6. \A i \in 1 .. len : left(i) = Signed(elastic_timeout[ring[i]] - ticker) /\ left(i) \in Int
  <2>1. \A i \in 1 .. len : left(i) = Signed(elastic_timeout[ring[i]] - ticker)
    BY <1>1 DEF Left, Due
  <2>2. \A i \in 1 .. len : left(i) \in Int
    BY <1>1, <1>4, TableTypes
  <2> QED
    BY <2>1, <2>2
<1>7. \A i, j \in 1 .. len : NotBefore(k, i, j) => left(i) <= left(j)
  <2> HIDE DEF k
  <2> QED
    BY <1>1, <1>3, <1>4, Rotation
<1> HIDE DEF k, left, ring, len
<1>8. \A j \in 0 .. len - 1 : pos(j) \in 1 .. len
  BY <1>3
<1>9. /\ n \in 0 .. len
      /\ \A j \in 0 .. n - 1 : left(pos(j)) <= 0
      /\ n < len => ~(left(pos(n)) <= 0)
  <2> DEFINE X == {j \in 0 .. len - 1 : left(pos(j)) <= 0}
  <2>1. X \subseteq 0 .. len - 1 /\ \A i \in X, j \in 0 .. len - 1 : j <= i => j \in X
    <3> SUFFICES ASSUME NEW i \in X, NEW j \in 0 .. len - 1, j <= i PROVE left(pos(j)) <= 0
      OBVIOUS
    <3>1. i \in 0 .. len - 1 /\ left(pos(i)) <= 0 /\ pos(i) \in 1 .. len /\ pos(j) \in 1 .. len
      BY <1>8
    <3>2. NotBefore(k, pos(j), pos(i))
      BY <1>3, <3>1 DEF NotBefore
    <3> HIDE DEF pos
    <3> QED
      BY <1>6, <1>7, <3>1, <3>2
  <2> HIDE DEF X
  <2>2. PICK g \in 0 .. len : X = 0 .. g - 1
    BY <1>3, <2>1, InitialSegment
  <2> DEFINE P(l) == /\ \A j \in 0 .. l - 1 : Signed(elastic_timeout[Successor(j)] - ticker) <= 0
                     /\ l < len => ~(Signed(elastic_timeout[Successor(l)] - ticker) <= 0)
  <2>3. \A j \in 0 .. len - 1 : Signed(elastic_timeout[Successor(j)] - ticker) = left(pos(j))
    BY <1>5, <1>6, <1>8
  <2> HIDE DEF pos
  <2>4. P(g)
    <3>1. ASSUME NEW j \in 0 .. g - 1 PROVE Signed(elastic_timeout[Successor(j)] - ticker) <= 0
      <4>1. j \in X /\ j \in 0 .. len - 1
        BY <1>3, <2>2
      <4> QED
        BY <2>3, <4>1 DEF X
    <3>2. ASSUME g < len PROVE ~(Signed(elastic_timeout[Successor(g)] - ticker) <= 0)
      <4>1. g \in 0 .. len - 1 /\ g \notin X
        BY <1>3, <2>2, <3>2
      <4> QED
        BY <2>3, <4>1 DEF X
    <3> QED
      BY <3>1, <3>2
  <2>5. n = CHOOSE l \in 0 .. len : P(l)
    BY DEF Lapsing, len
  <2> HIDE DEF P, n
  <2>6. n \in 0 .. len /\ P(n)
    BY <2>4, <2>5
  <2>7. ASSUME NEW j \in 0 .. n - 1 PROVE left(pos(j)) <= 0
    <3>1. j \in 0 .. len - 1
      BY <1>3, <2>6
    <3> QED
      BY <2>3, <2>6, <3>1 DEF P
  <2>8. ASSUME n < len PROVE ~(left(pos(n)) <= 0)
    <3>1. n \in 0 .. len - 1
      BY <1>3, <2>6, <2>8
    <3> QED
      BY <2>3, <2>6, <2>8, <3>1 DEF P
  <2> QED
    BY <2>6, <2>7, <2>8
<1> HIDE DEF n, pos
<1> DEFINE e == [p \in 1 .. len - n |-> IF k + n <= len + 1 THEN IF p < k THEN p ELSE p + n
                                        ELSE p + (k + n - len) - 1]
<1>10. /\ u.ring \in Seq(Member) /\ Len(u.ring) = len - n
       /\ \A p \in 1 .. len - n : e[p] \in 1 .. len /\ u.ring[p] = ring[e[p]]
  <2>1. CASE k + n <= len + 1
    <3> DEFINE cut == SubSeq(ring, 1, k - 1) \o SubSeq(ring, k + n, len)
    <3>1. u.ring = cut
      BY <1>2, <2>1 DEF WithoutFirst, k, len, ring
    <3>2. k - 1 \in 0 .. len /\ k + n \in (k - 1) + 1 .. len + 1
      BY <1>3, <1>9, <2>1
    <3>3. /\ cut \in Seq(Member)
          /\ Len(cut) = (k - 1) + len - (k + n) + 1
          /\ \A i \in 1 .. Len(cut) : cut[i] = ring[IF i <= k - 1 THEN i ELSE i - (k - 1) + (k + n) - 1]
      <4>1. Len(ring) = len
        BY DEF len, ring
      <4>2. k - 1 \in 0 .. Len(ring) /\ k + n \in (k - 1) + 1 .. Len(ring) + 1
        BY <3>2, <4>1
      <4>3. IsCut(cut, ring, k - 1, k + n)
        BY <1>3, <4>1, <4>2, CutElements
      <4> QED
        BY <4>1, <4>3 DEF IsCut
    <3> HIDE DEF cut
    <3>4. Len(cut) = len - n
      BY <1>3, <1>9, <3>3
    <3>5. ASSUME NEW p \in 1 .. len - n PROVE e[p] \in 1 .. len /\ u.ring[p] = ring[e[p]]
      <4>1. len \in Nat /\ k \in 1 .. len /\ n \in 0 .. len /\ k + n <= len + 1 /\ p \in 1 .. len - n
        BY <1>3, <1>9, <2>1
      <4>2. e[p] = IF p < k THEN p ELSE p + n
        BY <4>1
      <4> HIDE DEF e
      <4>3. (IF p <= k - 1 THEN p ELSE p - (k - 1) + (k + n) - 1) = e[p]
        BY <4>1, <4>2
      <4>4. e[p] \in 1 .. len
        BY <4>1, <4>2
      <4> QED
        BY <3>1, <3>3, <3>4, <4>3, <4>4
    <3> QED
      BY <3>1, <3>3, <3>4, <3>5
  <2>2. CASE ~(k + n <= len + 1)
    <3> DEFINE from == (k + n) - len
               end == SubSeq(ring, from, k - 1)
    <3>1. u.ring = end
      BY <1>2, <2>2 DEF WithoutFirst, k, len, ring
    <3>2. from \in Int /\ k - 1 \in Int /\ from >= 1 /\ k - 1 <= len
      BY <1>3, <1>9, <2>2
    <3>3. \A i \in 1 .. len : ring[i] \in Member
      <4>1. Len(ring) = len
        BY DEF len, ring
      <4> QED
        BY <1>3, <4>1, SeqElements
    <3>4. \A i \in from .. k - 1 : ring[i] \in Member
      <4> HIDE DEF from
      <4> QED
        BY <1>3, <3>2, <3>3
    <3>5. /\ end \in Seq(Member)
          /\ Len(end) = IF from <= k - 1 THEN (k - 1) - from + 1 ELSE 0
          /\ \A i \in 1 .. (k - 1) - from + 1 : end[i] = ring[from + i - 1]
      <4> HIDE DEF from
      <4> QED
        BY <3>2, <3>4, SubSeqProperties
    <3> HIDE DEF end
    <3>6. Len(end) = len - n /\ (k - 1) - from + 1 = len - n
      BY <1>3, <1>9, <3>5
    <3>7. ASSUME NEW p \in 1 .. len - n PROVE e[p] \in 1 .. len /\ u.ring[p] = ring[e[p]]
      <4>1. from + p - 1 = e[p]
        BY <1>3, <1>9, <2>2
      <4>2. e[p] \in 1 .. len
        BY <1>3, <1>9, <2>2
      <4> HIDE DEF e, from
      <4> QED
        BY <3>1, <3>5, <3>6, <4>1, <4>2
    <3> QED
      BY <3>1, <3>5, <3>6, <3>7
  <2> QED
    BY <2>1, <2>2
<1>11. ASSUME NEW p \in 1 .. len - n PROVE NotBefore(k, pos(n), e[p])
  BY <1>3, <1>9, <1>11 DEF NotBefore, pos
<1>12. \A p, r \in 1 .. len - n : p < r => e[p] < e[r]
  BY <1>3, <1>9
<1>13. ASSUME NEW i \in 1 .. len, left(i) > 0 PROVE \E p \in 1 .. len - n : e[p] = i
  <2> DEFINE j == IF i >= k THEN i - k ELSE i - k + len
  <2>1. j \in 0 .. len - 1 /\ pos(j) = i
    BY <1>3 DEF pos
  <2>2. j >= n
    <3> HIDE DEF j
    <3>1. ASSUME j < n PROVE FALSE
      <4>1. j \in 0 .. n - 1
        BY <1>9, <2>1, <3>1
      <4>2. left(i) <= 0
        BY <1>9, <2>1, <4>1
      <4> QED
        BY <1>6, <1>13, <4>2
    <3> QED
      BY <1>9, <2>1, <3>1
  <2>3. CASE k + n <= len + 1
    <3>1. CASE i < k
      <4>1. i \in 1 .. len - n /\ e[i] = i
        BY <1>3, <1>9, <2>3, <3>1
      <4> QED
        BY <4>1
    <3>2. CASE ~(i < k)
      <4>1. i - n \in 1 .. len - n /\ e[i - n] = i
        BY <1>3, <1>9, <2>2, <2>3, <3>2
      <4> QED
        BY <4>1
    <3> QED
      BY <3>1, <3>2
  <2>4. CASE ~(k + n <= len + 1)
    <3> DEFINE p == i - (k + n - len) + 1
    <3>1. p \in 1 .. len - n
      BY <1>3, <1>9, <2>2, <2>4
    <3>2. e[p] = i
      BY <1>3, <1>9, <2>4, <3>1
    <3> QED
      BY <3>1, <3>2
  <2> QED
    BY <2>3, <2>4
<1> HIDE DEF e
<1>14. ToSet(u.ring) = {m \in InRing : Signed(elastic_timeout[m] - ticker) > 0}
  <2>1. ToSet(u.ring) = {u.ring[p] : p \in 1 .. len - n}
    BY <1>10, SeqElements
  <2>2. ASSUME NEW m \in ToSet(u.ring)
        PROVE  m \in InRing /\ Signed(elastic_timeout[m] - ticker) > 0
    <3>1. PICK p \in 1 .. len - n : m = ring[e[p]] /\ e[p] \in 1 .. len
      BY <1>10, <2>1
    <3>2. n < len /\ n \in 0 .. len - 1
      BY <1>3, <1>9
    <3>3. pos(n) \in 1 .. len /\ left(pos(n)) > 0
      <4>1. pos(n) \in 1 .. len /\ ~(left(pos(n)) <= 0) /\ left(pos(n)) \in Int
        BY <1>6, <1>8, <1>9, <3>2
      <4> QED
        BY <4>1
    <3>4. left(pos(n)) <= left(e[p])
      BY <1>7, <1>11, <3>1, <3>3
    <3>5. left(e[p]) > 0
      BY <1>6, <3>1, <3>3, <3>4
    <3> QED
      BY <1>3, <1>6, <3>1, <3>5
  <2>3. ASSUME NEW m \in InRing, Signed(elastic_timeout[m] - ticker) > 0 PROVE m \in ToSet(u.ring)
    <3>1. PICK i \in 1 .. len : m = ring[i]
      BY <1>3
    <3>2. left(i) > 0
      BY <1>6, <2>3, <3>1
    <3>3. PICK p \in 1 .. len - n : e[p] = i
      BY <1>13, <3>2
    <3> QED
      BY <1>10, <2>1, <3>1, <3>3
  <2> QED
    BY <2>2, <2>3
<1>15. CASE n = len
  <2>1. Len(u.ring) = 0
    BY <1>3, <1>10, <1>15
  <2>2. u.ring = << >> /\ u.leader = Null
    BY <1>2, <1>10, <1>15, <2>1, SeqElements
  <2>3. u.timeout \in [Member -> Tick]
    BY <1>1, <1>2, <1>4 DEF TableOK
  <2>4. TableOK(u, ticker)
    BY <1>10, <2>1, <2>2, <2>3 DEF TableOK
  <2> QED
    BY <1>2, <1>14, <2>4 DEF u
<1>16. CASE n # len
  <2>0. n < len /\ n \in 0 .. len - 1 /\ len - n \in Nat /\ len - n >= 1
    BY <1>3, <1>9, <1>16
  <2> DEFINE q == IF k + n <= len THEN k ELSE 1
  <2>1. q \in 1 .. len - n
    BY <1>3, <2>0
  <2>2. e[q] = pos(n)
    BY <1>3, <2>0, <2>1 DEF e, pos
  <2>3. u.leader = u.ring[q]
    <3>1. u.leader = ring[pos(n)]
      BY <1>2, <1>5, <1>16, <2>0
    <3> HIDE DEF q
    <3> QED
      BY <1>10, <2>1, <2>2, <3>1
  <2> HIDE DEF q
  <2>4. SomeLeave(t, k, u, e, q)
    <3>1. u.timeout = t.timeout /\ t.ring = ring /\ Len(t.ring) = len
      BY <1>1, <1>2 DEF len, ring
    <3>2. \A p \in 1 .. Len(u.ring) : NotBefore(k, e[q], e[p])
      BY <1>10, <1>11, <2>2
    <3> QED
      BY <1>10, <1>12, <2>1, <2>3, <3>1, <3>2 DEF SomeLeave
  <2>5. k \in 1 .. Len(t.ring)
    BY <1>1, <1>3 DEF len, ring
  <2>6. TableOK(u, ticker)
    BY <1>4, <2>4, <2>5, SomeLeaveOK
  <2> QED
    BY <1>2, <1>14, <2>6 DEF u
<1> QED
  BY <1>15, <1>16

-----------------------------------------------------------------------------
\* The invariant

\* The table is in order; the timer runs while there is a leader, and fires no
\* later than the leader lapses.
MemberInv ==
    /\ ticker \in Tick
    /\ TableOK(Table, ticker)
    /\ timer_active \in BOOLEAN /\ (timer_active <=> ring_leader # Null)
    /\ interval \in 0 .. DEFAULT_ACK_TIMEOUT
    /\ expires \in -MaxLate .. DEFAULT_ACK_TIMEOUT
    /\ timer_active => expires <= Signed(elastic_timeout[ring_leader] - ticker)

\* What is left of a membership, as Leases sees it.
LeftOf(m) == IF m \in InRing THEN Signed(elastic_timeout[m] - ticker) ELSE Null

\* An empty table is in order at any time.
LEMMA EmptyOK ==
    ASSUME NEW t, NEW now, TableOK(t, now), t.leader = Null, now \in Tick, NEW later \in Tick
    PROVE  TableOK(t, later) /\ t.ring = << >> /\ ToSet(t.ring) = {}
<1>1. t.ring = << >>
  BY LeaderHasLeast
<1>2. Len(t.ring) = 0
  BY <1>1
<1> QED
  BY <1>1, <1>2 DEF TableOK, ToSet

\* What is stored is the table there is.
LEMMA TableIsSet ==
    ASSUME NEW t, SetTable(t)
    PROVE  /\ Table'.ring = t.ring /\ Table'.leader = t.leader /\ Table'.timeout = t.timeout
           /\ InRing' = ToSet(t.ring)
BY DEF SetTable, Table, InRing

LEMMA TableParts ==
    /\ Table.ring = membership_ring /\ Table.leader = ring_leader /\ Table.timeout = elastic_timeout
    /\ InRing = ToSet(Table.ring)
BY DEF Table, InRing

\* Only the parts of a table matter.
LEMMA SameTable ==
    ASSUME NEW t, NEW u, NEW now, TableOK(t, now),
           u.ring = t.ring, u.leader = t.leader, u.timeout = t.timeout
    PROVE  TableOK(u, now)
BY DEF TableOK, Leads, Left, Due

\* The timer, set for a leader that has no less left than the last one had.
LEMMA TimerSet ==
    ASSUME NEW t, TableOK(t, ticker), ticker \in Tick, t.leader # Null,
           expires \in -MaxLate .. DEFAULT_ACK_TIMEOUT,
           expires <= Signed(t.timeout[t.leader] - ticker),
           SetTimer(Delta(t))
    PROVE  /\ interval' \in 0 .. DEFAULT_ACK_TIMEOUT
           /\ expires' \in -MaxLate .. DEFAULT_ACK_TIMEOUT
           /\ expires' <= Signed(t.timeout[t.leader] - ticker)
           /\ timer_active' = timer_active
<1> DEFINE left == Signed(t.timeout[t.leader] - ticker)
<1>1. left \in -MaxLate .. DEFAULT_ACK_TIMEOUT
  BY LeaderHasLeast
<1>2. Delta(t) = IF left < 0 THEN 0 ELSE left
  BY DEF Delta, GetNextTimeout
<1>3. /\ interval' = Delta(t) /\ timer_active' = timer_active
      /\ expires' = IF Delta(t) = 0 /\ expires < 0 THEN expires ELSE Delta(t)
  BY DEF SetTimer
<1> HIDE DEF left
<1> QED
  BY <1>1, <1>2, <1>3, HalfOfTicks DEF left

LEMMA InitMember == Init => MemberInv
<1> SUFFICES ASSUME Init PROVE MemberInv
  OBVIOUS
<1>1. 0 \in Tick
  BY HalfOfTicks DEF Tick
<1>2. Table.ring = << >> /\ Table.leader = Null /\ Table.timeout = [m \in Member |-> 0] /\ Len(Table.ring) = 0
  BY TableParts DEF Init
<1>3. Table.timeout \in [Member -> Tick] /\ Table.ring \in Seq(Member)
  BY <1>1, <1>2
<1>4. TableOK(Table, 0)
  BY <1>2, <1>3 DEF TableOK
<1>5. timer_active = FALSE /\ ring_leader = Null /\ ticker = 0 /\ interval = 0 /\ expires = 0
  BY DEF Init
<1>6. 0 \in 0 .. DEFAULT_ACK_TIMEOUT /\ 0 \in -MaxLate .. DEFAULT_ACK_TIMEOUT
  BY HalfOfTicks
<1> QED
  BY <1>1, <1>4, <1>5, <1>6 DEF MemberInv

LEMMA TablePrimed ==
    /\ TableOK(Table, ticker)' <=> TableOK(Table', ticker')
    /\ \A m : LeftOf(m)' = IF m \in InRing' THEN Signed(elastic_timeout'[m] - ticker') ELSE Null
BY DEF TableOK, Leads, Left, Due, LeftOf, Signed

\* A deadline one term ahead has one term left.
LEMMA TermIsLeft ==
    ASSUME NEW now \in Tick, NEW tick, TermAhead(now, tick)
    PROVE  tick \in Tick /\ Signed(tick - now) = DEFAULT_ACK_TIMEOUT
<1>1. now - now = 0
  BY DEF Tick
<1>2. Signed(0) = 0
  BY SignedValue, HalfOfTicks
<1>3. Signed(now - now) \in -MaxLate .. DEFAULT_ACK_TIMEOUT
  BY <1>1, <1>2, HalfOfTicks
<1> QED
  BY <1>3, TermLeft DEF TermAhead

\* Another table with a leader, and the timer set for it or left as it is.
LEMMA NewTable ==
    ASSUME MemberInv, timer_active, NEW t, TableOK(t, ticker), t.leader # Null,
           expires <= Signed(t.timeout[t.leader] - ticker),
           SetTable(t), SetTimer(Delta(t)) \/ UNCHANGED timer, UNCHANGED ticker
    PROVE  MemberInv'
<1>1. /\ Table'.ring = t.ring /\ Table'.leader = t.leader /\ Table'.timeout = t.timeout
      /\ ring_leader' = t.leader /\ elastic_timeout' = t.timeout
  BY TableIsSet DEF SetTable
<1>2. TableOK(Table', ticker)
  BY <1>1, SameTable
<1>3. TableOK(Table, ticker)'
  BY <1>2, TablePrimed
<1>4. /\ interval' \in 0 .. DEFAULT_ACK_TIMEOUT
      /\ expires' \in -MaxLate .. DEFAULT_ACK_TIMEOUT
      /\ expires' <= Signed(t.timeout[t.leader] - ticker)
      /\ timer_active' = timer_active
  <2>1. CASE SetTimer(Delta(t))
    BY <2>1, TimerSet DEF MemberInv
  <2>2. CASE UNCHANGED timer
    BY <2>2 DEF timer, MemberInv
  <2> QED
    BY <2>1, <2>2
<1>5. expires' <= Signed(elastic_timeout'[ring_leader'] - ticker')
  BY <1>1, <1>4
<1> QED
  BY <1>1, <1>3, <1>4, <1>5 DEF MemberInv

LEMMA HandleAckOK ==
    ASSUME MemberInv, NEW m \in Member, HandleAck(m)
    PROVE  /\ MemberInv'
           /\ \A x \in Member : LeftOf(x)' = IF x = m THEN DEFAULT_ACK_TIMEOUT ELSE LeftOf(x)
<1> DEFINE tick == (ticker + DEFAULT_ACK_TIMEOUT) % TICKS
           t == Activated(Table, m, tick)
<1>1. /\ timer_active /\ SetTable(t) /\ UNCHANGED ticker
      /\ SetTimer(Delta(t)) \/ UNCHANGED timer
  BY DEF HandleAck
<1>2. ticker \in Tick /\ TableOK(Table, ticker) /\ ring_leader # Null
  BY <1>1 DEF MemberInv
<1>3. TermAhead(ticker, tick)
  BY DEF TermAhead
<1> HIDE DEF tick
<1>4. tick \in Tick /\ Signed(tick - ticker) = DEFAULT_ACK_TIMEOUT
  BY <1>2, <1>3, TermIsLeft
<1>5. /\ TableOK(t, ticker)
      /\ ToSet(t.ring) = InRing \cup {m}
      /\ t.timeout = [elastic_timeout EXCEPT ![m] = tick]
  BY <1>2, <1>3, ActivatedOK, TableParts
<1> HIDE DEF t
<1>6. /\ ToSet(t.ring) # {}
      /\ t.leader # Null /\ t.leader \in ToSet(t.ring)
  <2>1. t.ring # << >>
    <3>1. m \in ToSet(t.ring)
      BY <1>5
    <3> QED
      BY <3>1, NonEmpty
  <2> QED
    BY <1>2, <1>5, <2>1, LeaderHasLeast
<1>7. /\ elastic_timeout \in [Member -> Tick] /\ InRing \subseteq Member
      /\ \A x \in InRing : /\ Signed(elastic_timeout[ring_leader] - ticker) <= Signed(elastic_timeout[x] - ticker)
                           /\ Signed(elastic_timeout[x] - ticker) \in -MaxLate .. DEFAULT_ACK_TIMEOUT
      /\ ring_leader \in InRing
  <2>1. /\ Table.leader \in ToSet(Table.ring)
        /\ \A x \in ToSet(Table.ring) :
              /\ Signed(Table.timeout[Table.leader] - ticker) <= Signed(Table.timeout[x] - ticker)
              /\ x \in Member
              /\ Signed(Table.timeout[x] - ticker) \in -MaxLate .. DEFAULT_ACK_TIMEOUT
    BY <1>2, TableParts, LeaderHasLeast
  <2>2. Table.timeout \in [Member -> Tick]
    BY <1>2 DEF TableOK
  <2> QED
    BY <2>1, <2>2, TableParts
<1>8. expires <= Signed(t.timeout[t.leader] - ticker)
  <2>1. expires <= Signed(elastic_timeout[ring_leader] - ticker) /\ expires \in -MaxLate .. DEFAULT_ACK_TIMEOUT
    BY <1>1 DEF MemberInv
  <2>2. CASE t.leader = m
    BY <1>4, <1>5, <1>7, <2>1, <2>2, HalfOfTicks
  <2>3. CASE t.leader # m
    <3>1. t.leader \in InRing /\ t.timeout[t.leader] = elastic_timeout[t.leader]
      BY <1>5, <1>6, <1>7, <2>3
    <3> QED
      BY <1>7, <2>1, <3>1, HalfOfTicks
  <2> QED
    BY <2>2, <2>3
<1>9. MemberInv'
  BY <1>1, <1>5, <1>6, <1>8, NewTable
<1>10. ASSUME NEW x \in Member PROVE LeftOf(x)' = IF x = m THEN DEFAULT_ACK_TIMEOUT ELSE LeftOf(x)
  <2>1. InRing' = InRing \cup {m} /\ elastic_timeout' = [elastic_timeout EXCEPT ![m] = tick] /\ ticker' = ticker
    BY <1>1, <1>5, TableIsSet DEF SetTable
  <2>2. LeftOf(x)' = IF x \in InRing' THEN Signed(elastic_timeout'[x] - ticker') ELSE Null
    BY TablePrimed
  <2>3. CASE x = m
    BY <1>4, <1>7, <2>1, <2>2, <2>3
  <2>4. CASE x # m
    BY <1>7, <2>1, <2>2, <2>4 DEF LeftOf
  <2> QED
    BY <2>3, <2>4
<1> QED
  BY <1>9, <1>10

LEMMA HandleFirstAckOK ==
    ASSUME MemberInv, NEW m \in Member, HandleFirstAck(m)
    PROVE  /\ MemberInv'
           /\ \A x \in Member : LeftOf(x)' = IF x = m THEN DEFAULT_ACK_TIMEOUT ELSE LeftOf(x)
<1> DEFINE tick == DEFAULT_ACK_TIMEOUT
           t == Activated(Table, m, tick)
<1>1. ~timer_active /\ SetTable(t) /\ ticker' = 0 /\ timer_active' = TRUE /\ expires' = interval /\ interval' = interval
  BY DEF HandleFirstAck
<1>2. ticker \in Tick /\ TableOK(Table, ticker) /\ ring_leader = Null /\ interval \in 0 .. DEFAULT_ACK_TIMEOUT
  BY <1>1 DEF MemberInv
<1>3. 0 \in Tick /\ TermAhead(0, tick)
  <2>1. (0 + DEFAULT_ACK_TIMEOUT) % TICKS = DEFAULT_ACK_TIMEOUT
    <3>1. DEFAULT_ACK_TIMEOUT \in Nat /\ DEFAULT_ACK_TIMEOUT < TICKS /\ TICKS \in Nat /\ 0 + DEFAULT_ACK_TIMEOUT = DEFAULT_ACK_TIMEOUT
      BY HalfOfTicks
    <3> QED
      BY <3>1
  <2> QED
    BY <2>1, HalfOfTicks DEF TermAhead, Tick
<1> HIDE DEF tick
<1>4. tick \in Tick /\ Signed(tick - 0) = DEFAULT_ACK_TIMEOUT
  BY <1>3, TermIsLeft
<1>5. TableOK(Table, 0) /\ InRing = {}
  BY <1>2, <1>3, EmptyOK, TableParts
<1>6. /\ TableOK(t, 0)
      /\ ToSet(t.ring) = {m}
      /\ t.timeout = [elastic_timeout EXCEPT ![m] = tick]
  BY <1>3, <1>5, ActivatedOK, TableParts
<1> HIDE DEF t
<1>7. t.leader = m /\ t.leader # Null
  <2>1. t.ring # << >>
    <3>1. m \in ToSet(t.ring)
      BY <1>6
    <3> QED
      BY <3>1, NonEmpty
  <2>2. t.leader # Null /\ t.leader \in ToSet(t.ring)
    BY <1>3, <1>6, <2>1, LeaderHasLeast
  <2> QED
    BY <1>6, <2>2
<1>8. /\ elastic_timeout' = t.timeout /\ ring_leader' = m /\ InRing' = {m}
      /\ Table'.ring = t.ring /\ Table'.leader = t.leader /\ Table'.timeout = t.timeout
  BY <1>1, <1>6, <1>7, TableIsSet DEF SetTable
<1>9. t.timeout[m] = tick
  <2>1. elastic_timeout \in [Member -> Tick]
    BY <1>5, TableParts DEF TableOK
  <2> QED
    BY <1>6, <2>1
<1>10. TableOK(Table, ticker)'
  <2>1. TableOK(Table', 0)
    BY <1>6, <1>8, SameTable
  <2> QED
    BY <1>1, <2>1, TablePrimed
<1>11. expires' <= Signed(elastic_timeout'[ring_leader'] - ticker')
  BY <1>1, <1>2, <1>4, <1>8, <1>9, HalfOfTicks
<1>12. MemberInv'
  <2>1. expires' \in -MaxLate .. DEFAULT_ACK_TIMEOUT
    BY <1>1, <1>2, HalfOfTicks
  <2>2. ring_leader' # Null
    BY <1>7, <1>8
  <2> QED
    BY <1>1, <1>2, <1>3, <1>10, <1>11, <2>1, <2>2 DEF MemberInv
<1>13. ASSUME NEW x \in Member PROVE LeftOf(x)' = IF x = m THEN DEFAULT_ACK_TIMEOUT ELSE LeftOf(x)
  <2>1. LeftOf(x)' = IF x \in InRing' THEN Signed(elastic_timeout'[x] - ticker') ELSE Null
    BY TablePrimed
  <2>2. LeftOf(x) = Null
    BY <1>5 DEF LeftOf
  <2>3. CASE x = m
    BY <1>1, <1>4, <1>8, <1>9, <2>1, <2>3
  <2>4. CASE x # m
    BY <1>8, <2>1, <2>2, <2>4
  <2> QED
    BY <2>3, <2>4
<1> QED
  BY <1>12, <1>13

\* What the invariant says of the memberships in the queue.
LEMMA HeldHaveLeft ==
    ASSUME MemberInv
    PROVE  /\ elastic_timeout \in [Member -> Tick] /\ InRing \subseteq Member
           /\ ring_leader = Null => InRing = {}
           /\ ring_leader # Null =>
                 /\ ring_leader \in InRing
                 /\ \A x \in InRing : Signed(elastic_timeout[ring_leader] - ticker) <= Signed(elastic_timeout[x] - ticker)
           /\ \A x \in InRing : Signed(elastic_timeout[x] - ticker) \in -MaxLate .. DEFAULT_ACK_TIMEOUT
<1>1. ticker \in Tick /\ TableOK(Table, ticker)
  BY DEF MemberInv
<1>2. /\ \A x \in ToSet(Table.ring) :
            /\ x \in Member
            /\ Signed(Table.timeout[x] - ticker) \in -MaxLate .. DEFAULT_ACK_TIMEOUT
      /\ Table.leader # Null =>
            /\ Table.leader \in ToSet(Table.ring)
            /\ \A x \in ToSet(Table.ring) : Signed(Table.timeout[Table.leader] - ticker) <= Signed(Table.timeout[x] - ticker)
  BY <1>1, LeaderHasLeast
<1>3. Table.timeout \in [Member -> Tick]
  BY <1>1 DEF TableOK
<1>4. ring_leader = Null => InRing = {}
  BY <1>1, EmptyOK, TableParts
<1> QED
  BY <1>2, <1>3, <1>4, TableParts

\* A leader that was in the queue before gives the timer no less time.
LEMMA LaterLeader ==
    ASSUME MemberInv, timer_active, NEW m \in InRing
    PROVE  expires <= Signed(elastic_timeout[m] - ticker)
<1>1. /\ expires <= Signed(elastic_timeout[ring_leader] - ticker)
      /\ expires \in -MaxLate .. DEFAULT_ACK_TIMEOUT /\ ring_leader # Null
  BY DEF MemberInv
<1>2. /\ Signed(elastic_timeout[ring_leader] - ticker) \in -MaxLate .. DEFAULT_ACK_TIMEOUT
      /\ Signed(elastic_timeout[m] - ticker) \in -MaxLate .. DEFAULT_ACK_TIMEOUT
      /\ Signed(elastic_timeout[ring_leader] - ticker) <= Signed(elastic_timeout[m] - ticker)
  BY <1>1, HeldHaveLeft
<1> QED
  BY <1>1, <1>2, HalfOfTicks

\* An empty table, and the timer stopped.
LEMMA NoTable ==
    ASSUME MemberInv, NEW t, TableOK(t, ticker), t.leader = Null, SetTable(t),
           timer_active' = FALSE, expires' = 0, interval' \in 0 .. DEFAULT_ACK_TIMEOUT, UNCHANGED ticker
    PROVE  MemberInv'
<1>1. /\ Table'.ring = t.ring /\ Table'.leader = t.leader /\ Table'.timeout = t.timeout
      /\ ring_leader' = Null
  BY TableIsSet DEF SetTable
<1>2. TableOK(Table', ticker)
  BY <1>1, SameTable
<1>3. TableOK(Table, ticker)'
  BY <1>2, TablePrimed
<1>4. 0 \in -MaxLate .. DEFAULT_ACK_TIMEOUT
  BY HalfOfTicks
<1> QED
  BY <1>1, <1>3, <1>4 DEF MemberInv

LEMMA DeactivateOK ==
    ASSUME MemberInv, NEW m \in Member, DeactivateMembership(m)
    PROVE  /\ MemberInv' /\ LeftOf(m) # Null
           /\ \A x \in Member : LeftOf(x)' = IF x = m THEN Null ELSE LeftOf(x)
<1> DEFINE t == Removed(Table, m)
<1>1. /\ m \in InRing /\ SetTable(t) /\ UNCHANGED ticker
      /\ t.leader = Null => StopTimer
      /\ t.leader # Null => SetTimer(Delta(t)) \/ UNCHANGED timer
  BY DEF DeactivateMembership
<1>2. ticker \in Tick /\ TableOK(Table, ticker) /\ timer_active
  <2>1. ring_leader # Null
    BY <1>1, HeldHaveLeft
  <2> QED
    BY <2>1 DEF MemberInv
<1>3. TableOK(t, ticker) /\ t.timeout = elastic_timeout /\ ToSet(t.ring) = InRing \ {m}
  BY <1>1, <1>2, RemovedOK, TableParts
<1> HIDE DEF t
<1>4. ASSUME t.leader = Null PROVE MemberInv'
  <2>1. timer_active' = FALSE /\ expires' = 0 /\ interval' = interval
    BY <1>1, <1>4 DEF StopTimer
  <2>2. interval' \in 0 .. DEFAULT_ACK_TIMEOUT
    BY <2>1 DEF MemberInv
  <2> QED
    BY <1>1, <1>3, <1>4, <2>1, <2>2, NoTable
<1>5. ASSUME t.leader # Null PROVE MemberInv'
  <2>1. t.leader \in InRing
    BY <1>2, <1>3, <1>5, LeaderHasLeast
  <2>2. expires <= Signed(t.timeout[t.leader] - ticker)
    BY <1>2, <1>3, <2>1, LaterLeader
  <2> QED
    BY <1>1, <1>2, <1>3, <1>5, <2>2, NewTable
<1>6. LeftOf(m) # Null
  <2>1. Signed(elastic_timeout[m] - ticker) \in Int
    BY <1>1, HeldHaveLeft, HalfOfTicks
  <2> QED
    BY <1>1, <2>1, NullAssumption DEF LeftOf
<1>7. ASSUME NEW x \in Member PROVE LeftOf(x)' = IF x = m THEN Null ELSE LeftOf(x)
  <2>1. InRing' = InRing \ {m} /\ elastic_timeout' = elastic_timeout /\ ticker' = ticker
    BY <1>1, <1>3, TableIsSet DEF SetTable
  <2>2. LeftOf(x)' = IF x \in InRing' THEN Signed(elastic_timeout'[x] - ticker') ELSE Null
    BY TablePrimed
  <2> QED
    BY <2>1, <2>2 DEF LeftOf
<1> QED
  BY <1>4, <1>5, <1>6, <1>7

LEMMA OnMembershipTimeoutOK ==
    ASSUME MemberInv, OnMembershipTimeout
    PROVE  /\ MemberInv'
           /\ \A x \in Member : LeftOf(x)' = IF LeftOf(x) # Null /\ LeftOf(x) <= 0 THEN Null ELSE LeftOf(x)
<1> DEFINE t == WithoutLapsed
<1>1. /\ timer_active /\ expires <= 0 /\ SetTable(t) /\ UNCHANGED ticker
      /\ t.leader # Null => SetTimer(Delta(t))
      /\ t.leader = Null => timer_active' = FALSE /\ expires' = 0 /\ interval' \in {0, interval}
  BY DEF OnMembershipTimeout
<1>2. ticker \in Tick /\ TableOK(Table, ticker) /\ ring_leader # Null
  BY <1>1 DEF MemberInv
<1>3. /\ TableOK(t, ticker) /\ t.timeout = elastic_timeout
      /\ ToSet(t.ring) = {m \in InRing : Signed(elastic_timeout[m] - ticker) > 0}
  BY <1>2, WithoutLapsedOK
<1> HIDE DEF t
<1>4. ASSUME t.leader = Null PROVE MemberInv'
  <2>1. timer_active' = FALSE /\ expires' = 0 /\ interval' \in {0, interval}
    BY <1>1, <1>4
  <2>2. interval' \in 0 .. DEFAULT_ACK_TIMEOUT
    BY <2>1, HalfOfTicks DEF MemberInv
  <2> QED
    BY <1>1, <1>3, <1>4, <2>1, <2>2, NoTable
<1>5. ASSUME t.leader # Null PROVE MemberInv'
  <2>1. t.leader \in InRing
    BY <1>2, <1>3, <1>5, LeaderHasLeast
  <2>2. expires <= Signed(t.timeout[t.leader] - ticker)
    BY <1>1, <1>2, <1>3, <2>1, LaterLeader
  <2> QED
    BY <1>1, <1>2, <1>3, <1>5, <2>2, NewTable
<1>6. ASSUME NEW x \in Member
      PROVE  LeftOf(x)' = IF LeftOf(x) # Null /\ LeftOf(x) <= 0 THEN Null ELSE LeftOf(x)
  <2>1. /\ InRing' = {m \in InRing : Signed(elastic_timeout[m] - ticker) > 0}
        /\ elastic_timeout' = elastic_timeout /\ ticker' = ticker
    BY <1>1, <1>3, TableIsSet DEF SetTable
  <2>2. LeftOf(x)' = IF x \in InRing' THEN Signed(elastic_timeout'[x] - ticker') ELSE Null
    BY TablePrimed
  <2>3. CASE x \notin InRing
    BY <2>1, <2>2, <2>3 DEF LeftOf
  <2>4. CASE x \in InRing
    <3>1. Signed(elastic_timeout[x] - ticker) \in Int
      BY <2>4, HeldHaveLeft, HalfOfTicks
    <3>2. LeftOf(x) = Signed(elastic_timeout[x] - ticker) /\ LeftOf(x) # Null
      BY <2>4, <3>1, NullAssumption DEF LeftOf
    <3> QED
      BY <2>1, <2>2, <2>4, <3>1, <3>2
  <2> QED
    BY <2>3, <2>4
<1> QED
  BY <1>4, <1>5, <1>6

LEMMA PassOK ==
    ASSUME MemberInv, Pass
    PROVE  /\ MemberInv'
           /\ \A x \in Member : LeftOf(x) # Null => LeftOf(x) > -MaxLate
           /\ \A x \in Member : LeftOf(x)' = IF LeftOf(x) # Null THEN LeftOf(x) - 1 ELSE Null
<1>1. /\ timer_active /\ expires > -MaxLate /\ ticker' = (ticker + 1) % TICKS /\ expires' = expires - 1
      /\ timer_active' = timer_active /\ interval' = interval
      /\ elastic_timeout' = elastic_timeout /\ membership_ring' = membership_ring /\ ring_leader' = ring_leader
  BY DEF Pass
<1>2. /\ ticker \in Tick /\ TableOK(Table, ticker) /\ ring_leader # Null
      /\ expires \in -MaxLate .. DEFAULT_ACK_TIMEOUT
  BY <1>1 DEF MemberInv
<1>3. ticker' \in Tick
  BY <1>1, <1>2, TicksAhead, HalfOfTicks
<1>4. Table' = Table /\ InRing' = InRing
  BY <1>1 DEF Table, InRing
<1>5. ASSUME NEW x \in InRing
      PROVE  /\ Signed(elastic_timeout[x] - ticker) \in Int /\ Signed(elastic_timeout[x] - ticker) > -MaxLate
             /\ Signed(elastic_timeout[x] - ticker) <= DEFAULT_ACK_TIMEOUT
             /\ Signed(elastic_timeout[x] - ticker') = Signed(elastic_timeout[x] - ticker) - 1
  <2>1. /\ Signed(elastic_timeout[x] - ticker) \in -MaxLate .. DEFAULT_ACK_TIMEOUT
        /\ elastic_timeout[x] \in Tick
    BY HeldHaveLeft
  <2>2. Signed(elastic_timeout[x] - ticker) > -MaxLate
    BY <1>1, <1>2, <2>1, LaterLeader, HalfOfTicks
  <2>3. Signed(elastic_timeout[x] - ticker) > -h
    BY <2>1, <2>2, HalfOfTicks
  <2> QED
    BY <1>1, <1>2, <2>1, <2>2, <2>3, LaterLeft, HalfOfTicks
<1>6. TableOK(Table, ticker')
  <2>1. ASSUME NEW i \in 1 .. Len(Table.ring)
        PROVE  /\ Left(Table, i, ticker') = Left(Table, i, ticker) - 1
               /\ Left(Table, i, ticker) > -MaxLate /\ Left(Table, i, ticker) \in Int
               /\ Left(Table, i, ticker) <= DEFAULT_ACK_TIMEOUT
    <3>1. Table.ring[i] \in InRing
      BY <1>2, TableParts, SeqElements DEF TableOK
    <3> QED
      BY <1>5, <3>1, TableParts DEF Left, Due
  <2>2. \A i \in 1 .. Len(Table.ring) : Left(Table, i, ticker') \in -MaxLate .. DEFAULT_ACK_TIMEOUT
    BY <2>1, HalfOfTicks
  <2>3. ASSUME NEW k \in 1 .. Len(Table.ring), Leads(Table, k, ticker) PROVE Leads(Table, k, ticker')
    <3>1. \A i \in 1 .. Len(Table.ring) : Left(Table, k, ticker') <= Left(Table, i, ticker')
      BY <2>1, <2>3 DEF Leads
    <3> QED
      BY <2>3, <3>1 DEF Leads
  <2> QED
    BY <1>2, <2>2, <2>3 DEF TableOK
<1>7. MemberInv'
  <2>1. TableOK(Table, ticker)'
    BY <1>4, <1>6, TablePrimed
  <2>2. expires' \in -MaxLate .. DEFAULT_ACK_TIMEOUT
    BY <1>1, <1>2, HalfOfTicks
  <2>3. expires' <= Signed(elastic_timeout'[ring_leader'] - ticker')
    <3>1. ring_leader \in InRing
      BY <1>2, HeldHaveLeft
    <3>2. expires <= Signed(elastic_timeout[ring_leader] - ticker)
      BY <1>1 DEF MemberInv
    <3> QED
      BY <1>1, <1>2, <1>5, <3>1, <3>2, HalfOfTicks
  <2> QED
    BY <1>1, <1>3, <2>1, <2>2, <2>3 DEF MemberInv
<1>8. ASSUME NEW x \in Member
      PROVE  /\ LeftOf(x) # Null => LeftOf(x) > -MaxLate
             /\ LeftOf(x)' = IF LeftOf(x) # Null THEN LeftOf(x) - 1 ELSE Null
  <2>1. LeftOf(x)' = IF x \in InRing THEN Signed(elastic_timeout[x] - ticker') ELSE Null
    BY <1>1, <1>4, TablePrimed
  <2>2. CASE x \in InRing
    BY <1>5, <2>1, <2>2, NullAssumption DEF LeftOf
  <2>3. CASE x \notin InRing
    BY <2>1, <2>3 DEF LeftOf
  <2> QED
    BY <2>2, <2>3
<1> QED
  BY <1>7, <1>8

\* Nothing happens.
LEMMA StutterOK ==
    ASSUME MemberInv, UNCHANGED vars
    PROVE  MemberInv' /\ \A x : LeftOf(x)' = LeftOf(x)
<1>1. Table' = Table /\ InRing' = InRing
  BY DEF vars, Table, InRing
<1>2. TableOK(Table, ticker)'
  BY <1>1, TablePrimed DEF MemberInv, vars
<1> QED
  BY <1>1, <1>2, TablePrimed DEF MemberInv, vars, LeftOf

LEMMA NextMember == MemberInv /\ [Next]_vars => MemberInv'
BY HandleAckOK, HandleFirstAckOK, DeactivateOK, OnMembershipTimeoutOK, PassOK, StutterOK DEF Next

LEMMA SpecMember == Spec => []MemberInv
BY InitMember, NextMember, PTL DEF Spec

\* Type correctness of the table and its timer: the queue holds no membership
\* twice, the leader is in it, and the timer runs just while there is one.
THEOREM QueueHasLeader == Spec => []TypeOK
<1>1. MemberInv => TypeOK
  <2> SUFFICES ASSUME MemberInv PROVE TypeOK
    OBVIOUS
  <2>1. TableOK(Table, ticker) /\ ticker \in Tick
    BY DEF MemberInv
  <2>2. /\ membership_ring \in Seq(Member) /\ DOMAIN membership_ring = 1 .. Len(membership_ring)
        /\ \A i, j \in 1 .. Len(membership_ring) : membership_ring[i] = membership_ring[j] => i = j
    <3>1. /\ Table.ring \in Seq(Member) /\ DOMAIN Table.ring = 1 .. Len(Table.ring)
          /\ \A i, j \in 1 .. Len(Table.ring) : Table.ring[i] = Table.ring[j] => i = j
      BY <2>1, SeqElements DEF TableOK
    <3> QED
      BY <3>1, TableParts
  <2>3. elastic_timeout \in [Member -> Tick] /\ ring_leader \in InRing \cup {Null}
    BY HeldHaveLeft
  <2>4. timer_active = (ring_leader # Null)
    BY Zenon DEF MemberInv
  <2> QED
    BY <2>1, <2>2, <2>3, <2>4 DEF MemberInv, TypeOK
<1> QED
  BY <1>1, SpecMember, PTL

-----------------------------------------------------------------------------
\* Refinement

\* The variable of Leases.
Lefts == [m \in Member |-> IF m \in InRing THEN Signed(elastic_timeout[m] - ticker) ELSE Null]

LEMMA LeftsAre ==
    /\ Lefts = [m \in Member |-> LeftOf(m)]
    /\ Lefts' = [m \in Member |-> LeftOf(m)']
BY DEF Lefts, LeftOf

\* The actions of Leases, said of Lefts.
LEMMA PromiseOfLefts ==
    /\ Promise!Init <=> Lefts = [m \in Member |-> Null]
    /\ \A m : Promise!Renew(m) <=> Lefts' = [Lefts EXCEPT ![m] = DEFAULT_ACK_TIMEOUT]
    /\ \A m : Promise!Revoke(m) <=>
          m \in {x \in Member : Lefts[x] # Null} /\ Lefts' = [Lefts EXCEPT ![m] = Null]
    /\ Promise!RunOut = {m \in {x \in Member : Lefts[x] # Null} : Lefts[m] <= 0}
    /\ Promise!Expire <=>
          /\ Promise!RunOut # {}
          /\ Lefts' = [m \in Member |-> IF m \in Promise!RunOut THEN Null ELSE Lefts[m]]
    /\ Promise!Pass <=>
          /\ \A m \in {x \in Member : Lefts[x] # Null} : Lefts[m] > -MaxLate
          /\ Lefts' = [m \in Member |-> IF m \in {x \in Member : Lefts[x] # Null} THEN Lefts[m] - 1 ELSE Null]
<1>1. Promise!Init <=> Lefts = [m \in Member |-> Null]
  BY DEF Promise!Init, Lefts
<1>2. ASSUME NEW m
      PROVE  Promise!Renew(m) <=> Lefts' = [Lefts EXCEPT ![m] = DEFAULT_ACK_TIMEOUT]
  BY DEF Promise!Renew, Lefts
<1>3. ASSUME NEW m
      PROVE  Promise!Revoke(m) <=>
                m \in {x \in Member : Lefts[x] # Null} /\ Lefts' = [Lefts EXCEPT ![m] = Null]
  BY DEF Promise!Revoke, Promise!Held, Lefts
<1>4. Promise!RunOut = {m \in {x \in Member : Lefts[x] # Null} : Lefts[m] <= 0}
  BY DEF Promise!RunOut, Promise!Held, Lefts
<1>5. Promise!Expire <=>
          /\ Promise!RunOut # {}
          /\ Lefts' = [m \in Member |-> IF m \in Promise!RunOut THEN Null ELSE Lefts[m]]
  BY DEF Promise!Expire, Lefts
<1>6. Promise!Pass <=>
          /\ \A m \in {x \in Member : Lefts[x] # Null} : Lefts[m] > -MaxLate
          /\ Lefts' = [m \in Member |-> IF m \in {x \in Member : Lefts[x] # Null} THEN Lefts[m] - 1 ELSE Null]
  BY DEF Promise!Pass, Promise!Held, Lefts
<1> QED
  BY <1>1, <1>2, <1>3, <1>4, <1>5, <1>6

\* However the ticks wrap and whatever is revoked or renewed in between, a
\* membership lapses after its whole term without an EM-ACK, together with all
\* whose term is over, and no later than the timer is late: HandleAck renews,
\* DeactivateMembership revokes, OnMembershipTimeout lets what has run out
\* expire, if anything has.
THEOREM MembershipImplementsLeases == Spec => ImplementsLeases
<1>1. Init => Promise!Init
  <2> SUFFICES ASSUME Init PROVE Promise!Init
    OBVIOUS
  <2>1. membership_ring = << >> /\ Table.ring = membership_ring
    BY TableParts DEF Init
  <2>2. InRing = {}
    BY <2>1 DEF InRing, ToSet
  <2>3. Lefts = [m \in Member |-> Null]
    BY <2>2, LeftsAre DEF LeftOf
  <2> QED
    BY <2>3, PromiseOfLefts
<1>2. MemberInv /\ [Next]_vars => [Promise!Next]_Lefts
  <2> SUFFICES ASSUME MemberInv, [Next]_vars PROVE Promise!Next \/ Lefts' = Lefts
    OBVIOUS
  <2>1. ASSUME NEW m \in Member, HandleAck(m) \/ HandleFirstAck(m) PROVE Promise!Next
    <3>1. \A x \in Member : LeftOf(x)' = IF x = m THEN DEFAULT_ACK_TIMEOUT ELSE LeftOf(x)
      BY <2>1, HandleAckOK, HandleFirstAckOK
    <3>2. Lefts' = [Lefts EXCEPT ![m] = DEFAULT_ACK_TIMEOUT]
      BY <3>1, LeftsAre
    <3> QED
      BY <3>2, PromiseOfLefts DEF Promise!Next
  <2>2. ASSUME NEW m \in Member, DeactivateMembership(m) PROVE Promise!Next
    <3>1. LeftOf(m) # Null /\ \A x \in Member : LeftOf(x)' = IF x = m THEN Null ELSE LeftOf(x)
      BY <2>2, DeactivateOK
    <3>2. Lefts' = [Lefts EXCEPT ![m] = Null] /\ Lefts[m] # Null
      BY <3>1, LeftsAre
    <3> QED
      BY <3>2, PromiseOfLefts DEF Promise!Next
  <2>3. ASSUME OnMembershipTimeout PROVE Promise!Next \/ Lefts' = Lefts
    <3>1. \A x \in Member : LeftOf(x)' = IF LeftOf(x) # Null /\ LeftOf(x) <= 0 THEN Null ELSE LeftOf(x)
      BY <2>3, OnMembershipTimeoutOK
    <3>2. Promise!RunOut = {x \in Member : LeftOf(x) # Null /\ LeftOf(x) <= 0}
      BY LeftsAre, PromiseOfLefts
    <3>3. Lefts' = [m \in Member |-> IF m \in Promise!RunOut THEN Null ELSE Lefts[m]]
      BY <3>1, <3>2, LeftsAre
    <3>4. CASE Promise!RunOut = {}
      <4>1. Lefts' = [m \in Member |-> Lefts[m]]
        BY <3>3, <3>4
      <4> QED
        BY <4>1, LeftsAre
    <3>5. CASE Promise!RunOut # {}
      BY <3>3, <3>5, PromiseOfLefts DEF Promise!Next
    <3> QED
      BY <3>4, <3>5
  <2>4. ASSUME Pass PROVE Promise!Next
    <3>1. /\ \A x \in Member : LeftOf(x) # Null => LeftOf(x) > -MaxLate
          /\ \A x \in Member : LeftOf(x)' = IF LeftOf(x) # Null THEN LeftOf(x) - 1 ELSE Null
      BY <2>4, PassOK
    <3>2. {x \in Member : Lefts[x] # Null} = {x \in Member : LeftOf(x) # Null}
      BY LeftsAre
    <3>3. \A m \in {x \in Member : Lefts[x] # Null} : Lefts[m] > -MaxLate
      BY <3>1, LeftsAre
    <3>4. Lefts' = [m \in Member |-> IF m \in {x \in Member : Lefts[x] # Null} THEN Lefts[m] - 1 ELSE Null]
      BY <3>1, <3>2, LeftsAre
    <3> QED
      BY <3>3, <3>4, PromiseOfLefts DEF Promise!Next
  <2>5. CASE UNCHANGED vars
    BY <2>5, StutterOK, LeftsAre
  <2> QED
    BY <2>1, <2>2, <2>3, <2>4, <2>5 DEF Next
<1>3. MemberInv /\ [Next]_vars
      => [Promise!Next]_[m \in Member |-> IF m \in InRing THEN Signed(elastic_timeout[m] - ticker) ELSE Null]
  BY <1>2 DEF Lefts
<1> QED
  BY <1>1, <1>3, SpecMember, PTL DEF Spec, ImplementsLeases, Promise!Spec
=============================================================================
