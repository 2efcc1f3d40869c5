------------------------- MODULE SmfDpdWindowProofs -------------------------
(***************************************************************************)
(* Proofs about SmfDpdWindow for every set of flows and of packet ids, all *)
(* the id sizes the code takes, every window and every age.                *)
(***************************************************************************)
EXTENDS SmfDpdWindow, FiniteSetTheorems, SequenceTheorems, TLAPS

-----------------------------------------------------------------------------
\* Sequence numbers

\* h is half the range of the numbers of n bits.
Half(n, h) == 2 ^ n = 2 * h /\ 2 ^ (n - 1) = h

LEMMA Halves == \A n \in 8 .. 32 : \E h \in Nat \ {0} : Half(n, h)
<1> SUFFICES ASSUME NEW n \in 8 .. 32 PROVE \E h \in Nat \ {0} : Half(n, h)
  OBVIOUS
<1>1. /\ Half(8, 128) /\ Half(9, 256) /\ Half(10, 512) /\ Half(11, 1024)
      /\ Half(12, 2048) /\ Half(13, 4096) /\ Half(14, 8192) /\ Half(15, 16384)
      /\ Half(16, 32768) /\ Half(17, 65536) /\ Half(18, 131072) /\ Half(19, 262144)
      /\ Half(20, 524288) /\ Half(21, 1048576) /\ Half(22, 2097152)
      /\ Half(23, 4194304) /\ Half(24, 8388608) /\ Half(25, 16777216)
      /\ Half(26, 33554432) /\ Half(27, 67108864) /\ Half(28, 134217728)
      /\ Half(29, 268435456) /\ Half(30, 536870912) /\ Half(31, 1073741824)
      /\ Half(32, 2147483648)
  BY DEF Half
<1>2. CASE n \in 8 .. 16
  <2>1. n = 8 \/ n = 9 \/ n = 10 \/ n = 11 \/ n = 12 \/ n = 13 \/ n = 14 \/ n = 15 \/ n = 16
    BY <1>2
  <2> QED
    BY <1>1, <2>1
<1>3. CASE n \in 17 .. 24
  <2>1. n = 17 \/ n = 18 \/ n = 19 \/ n = 20 \/ n = 21 \/ n = 22 \/ n = 23 \/ n = 24
    BY <1>3
  <2> QED
    BY <1>1, <2>1
<1>4. CASE n \in 25 .. 32
  <2>1. n = 25 \/ n = 26 \/ n = 27 \/ n = 28 \/ n = 29 \/ n = 30 \/ n = 31 \/ n = 32
    BY <1>4
  <2> QED
    BY <1>1, <2>1
<1> QED
  BY <1>2, <1>3, <1>4

\* The remainder of a number at most one range off.
LEMMA Wrap ==
    ASSUME NEW h \in Nat \ {0}, NEW a \in Int, -(2 * h) <= a, a < 4 * h
    PROVE  a % (2 * h) = IF a < 0 THEN a + 2 * h ELSE IF a < 2 * h THEN a ELSE a - 2 * h
OBVIOUS

\* What the distance of two numbers is: it lies within half the range on either
\* side, and it leads from the one to the other.
LEMMA DeltaLeads ==
    ASSUME NEW n, NEW h \in Nat \ {0}, Half(n, h),
           NEW a \in 0 .. 2 * h - 1, NEW b \in 0 .. 2 * h - 1
    PROVE  LET d == Delta(n, a, b) IN
           /\ d \in Int /\ -h <= d /\ d <= h
           /\ a = b + d \/ a = b + d - 2 * h \/ a = b + d + 2 * h
<1> DEFINE raw == a - b
           low == raw % (2 * h)
<1>1. low = IF raw < 0 THEN raw + 2 * h ELSE raw
  <2>1. raw \in Int /\ -(2 * h) <= raw /\ raw < 4 * h /\ raw < 2 * h
    OBVIOUS
  <2> HIDE DEF raw
  <2> QED
    BY <2>1, Wrap
<1>2. Delta(n, a, b) = IF low < h THEN low
                       ELSE IF raw # h \/ a < b THEN low - 2 * h ELSE raw
  BY DEF Delta, Half
<1> HIDE DEF low
<1> QED
  BY <1>1, <1>2

\* How far a number lies behind the last one.
LEMMA BehindValue ==
    ASSUME NEW w, NEW h \in Nat \ {0}, Half(w.size, h),
           w.last \in 0 .. 2 * h - 1, NEW s \in 0 .. 2 * h - 1
    PROVE  Behind(w, s) = IF s <= w.last THEN w.last - s ELSE w.last - s + 2 * h
<1> DEFINE raw == w.last - s
<1>1. raw \in Int /\ -(2 * h) <= raw /\ raw < 4 * h /\ raw < 2 * h
  OBVIOUS
<1>2. Behind(w, s) = raw % (2 * h)
  BY DEF Behind, Half
<1>3. s <= w.last <=> ~(raw < 0)
  OBVIOUS
<1> HIDE DEF raw
<1>4. Behind(w, s) = IF raw < 0 THEN raw + 2 * h ELSE raw
  BY <1>1, <1>2, Wrap
<1> QED
  BY <1>3, <1>4 DEF raw

-----------------------------------------------------------------------------
\* One flow's window

\* A window whose bits are numbers of packets of its size, the last one among
\* them and none further behind it than the window reaches.
Good(w) ==
    /\ w \in WindowType /\ ValidSize(w.size)
    /\ w.last \in w.bits
    /\ \A s \in w.bits : /\ Behind(w, s) < window_size
                         /\ \E p \in Packet : p.size = w.size /\ p.seq = s

\* The numbers of packets of a size that is valid.
LEMMA Numbers ==
    ASSUME NEW n, ValidSize(n)
    PROVE  \E h \in Nat \ {0} :
              /\ Half(n, h) /\ window_size \in 1 .. h
              /\ \A p \in Packet : p.size = n => p.seq \in 0 .. 2 * h - 1
<1>1. n \in 8 .. 32
  BY DEF ValidSize
<1>2. PICK h \in Nat \ {0} : Half(n, h)
  BY <1>1, Halves
<1>3. window_size \in 1 .. h
  BY <1>2, WindowAssumption DEF ValidSize, Half
<1>4. ASSUME NEW p \in Packet, p.size = n PROVE p.seq \in 0 .. 2 * h - 1
  <2>1. p.seq \in Nat /\ p.seq < 2 ^ n
    BY <1>1, <1>4, PacketAssumption
  <2> QED
    BY <1>2, <2>1 DEF Half
<1> QED
  BY <1>2, <1>3, <1>4

\* The window a new number leaves, in the code's three cases.
LEMMA AdvanceCases ==
    ASSUME NEW w, w \in WindowType, NEW seq
    PROVE  LET x == Advance(w, seq)
               d == Delta(w.size, seq, w.last)
           IN \/ /\ d > 0 /\ d < window_size
                 /\ x.size = w.size /\ x.last = seq
                 /\ x.bits = (w.bits \ {(w.last - window_size + 1 + k) % 2 ^ w.size :
                                           k \in 0 .. d - 1}) \cup {seq}
              \/ /\ ~(d > 0 /\ d < window_size)
                 /\ d < 0 /\ -d < window_size
                 /\ x.size = w.size /\ x.last = w.last /\ x.bits = w.bits \cup {seq}
              \/ /\ ~(d > 0 /\ d < window_size)
                 /\ ~(d < 0 /\ -d < window_size)
                 /\ x.size = w.size /\ x.last = seq /\ x.bits = {seq}
BY DEF Advance, SetAhead, SetBehind, UnsetBits, Window, WindowType

\* The numbers the window leaves behind when it slides by d are exactly those
\* that lie less than d before its end.
LEMMA SlidesOut ==
    ASSUME NEW w, NEW h \in Nat \ {0}, Half(w.size, h), window_size \in 1 .. h,
           w.last \in 0 .. 2 * h - 1, NEW s \in 0 .. 2 * h - 1,
           NEW d \in 1 .. window_size - 1
    PROVE  Behind(w, s) < window_size =>
              (s \in {(w.last - window_size + 1 + k) % 2 ^ w.size : k \in 0 .. d - 1}
               <=> Behind(w, s) + d >= window_size)
<1> DEFINE b == Behind(w, s)
           at(k) == w.last - window_size + 1 + k
<1>1. b = IF s <= w.last THEN w.last - s ELSE w.last - s + 2 * h
  BY BehindValue
<1> HIDE DEF b
<1>2. ASSUME NEW k \in 0 .. d - 1
      PROVE  at(k) % (2 * h) = IF at(k) < 0 THEN at(k) + 2 * h ELSE at(k)
  <2>1. at(k) \in Int /\ -(2 * h) <= at(k) /\ at(k) < 4 * h /\ at(k) < 2 * h
    OBVIOUS
  <2> HIDE DEF at
  <2> QED
    BY <2>1, Wrap
<1>3. ASSUME NEW k \in 0 .. d - 1, s = at(k) % (2 * h) PROVE b >= window_size - d
  <2>1. s = IF at(k) < 0 THEN at(k) + 2 * h ELSE at(k)
    BY <1>2, <1>3
  <2>2. b = window_size - 1 - k
    BY <1>1, <2>1
  <2> QED
    BY <2>2
<1>4. ASSUME b < window_size, b + d >= window_size
      PROVE  \E k \in 0 .. d - 1 : s = at(k) % (2 * h)
  <2> DEFINE k == window_size - 1 - b
  <2>1. b \in Nat
    BY <1>1
  <2>2. k \in 0 .. d - 1
    BY <1>4, <2>1
  <2>3. s = IF at(k) < 0 THEN at(k) + 2 * h ELSE at(k)
    BY <1>1
  <2> QED
    BY <1>2, <2>2, <2>3
<1>5. 2 ^ w.size = 2 * h
  BY DEF Half
<1> QED
  BY <1>1, <1>3, <1>4, <1>5 DEF b

\* Sliding, filling and starting over keep a window good.
LEMMA AdvanceGood ==
    ASSUME NEW w, Good(w), NEW p \in Packet, p.size = w.size, ~Seen(w, p.seq)
    PROVE  LET x == Advance(w, p.seq) IN
           /\ Good(x)
           /\ x.size = w.size
           /\ p.seq \in x.bits
           /\ x.bits \subseteq w.bits \cup {p.seq}
           /\ \/ (x.last - w.last) % 2 ^ w.size >= window_size
              \/ {s \in w.bits : Behind(x, s) < window_size} \subseteq x.bits
<1> DEFINE seq == p.seq
           x == Advance(w, seq)
           d == Delta(w.size, seq, w.last)
<1>1. PICK h \in Nat \ {0} :
         /\ Half(w.size, h) /\ window_size \in 1 .. h
         /\ \A r \in Packet : r.size = w.size => r.seq \in 0 .. 2 * h - 1
  BY Numbers DEF Good
<1>2. \A s \in w.bits : s \in 0 .. 2 * h - 1
  BY <1>1 DEF Good
<1>3. seq \in 0 .. 2 * h - 1 /\ w.last \in 0 .. 2 * h - 1 /\ w.last \in w.bits
  BY <1>1, <1>2 DEF Good
<1>4. /\ d \in Int /\ -h <= d /\ d <= h
      /\ seq = w.last + d \/ seq = w.last + d - 2 * h \/ seq = w.last + d + 2 * h
  BY <1>1, <1>3, DeltaLeads
<1>5. d # 0 /\ (d < 0 /\ -d < window_size => seq \notin w.bits)
  BY DEF Seen
<1>6. \A s \in w.bits : Behind(w, s) < window_size /\ \E r \in Packet : r.size = w.size /\ r.seq = s
  BY DEF Good
<1>7. /\ w.size \in {r.size : r \in Packet} /\ w.bits \subseteq {r.seq : r \in Packet}
      /\ seq \in {r.seq : r \in Packet} /\ ValidSize(w.size) /\ w \in WindowType
  BY DEF Good, WindowType
<1>8. window_size \in Nat
  BY WindowAssumption
<1> HIDE DEF seq, d
<1>9. ASSUME x.size = w.size
      PROVE  /\ x.last \in 0 .. 2 * h - 1 => \A s \in 0 .. 2 * h - 1 :
                  Behind(x, s) = IF s <= x.last THEN x.last - s ELSE x.last - s + 2 * h
  BY <1>1, <1>9, BehindValue
<1>10. \A s \in 0 .. 2 * h - 1 :
          Behind(w, s) = IF s <= w.last THEN w.last - s ELSE w.last - s + 2 * h
  BY <1>1, <1>3, BehindValue
<1>11. x \in WindowType
  BY <1>7 DEF Advance, SetAhead, SetBehind, UnsetBits, Window, WindowType
<1>12. CASE /\ d > 0 /\ d < window_size
            /\ x.size = w.size /\ x.last = seq
            /\ x.bits = (w.bits \ {(w.last - window_size + 1 + k) % 2 ^ w.size :
                                      k \in 0 .. d - 1}) \cup {seq}
  <2> DEFINE out == {(w.last - window_size + 1 + k) % 2 ^ w.size : k \in 0 .. d - 1}
  <2>0. d \in 1 .. window_size - 1
    BY <1>4, <1>8, <1>12
  <2>1. \A s \in w.bits : s \in out <=> Behind(w, s) + d >= window_size
    BY <1>1, <1>2, <1>3, <1>6, <2>0, SlidesOut
  <2>2. x.bits = (w.bits \ out) \cup {seq}
    BY <1>12
  <2> HIDE DEF out, x
  <2>3. ASSUME NEW s \in w.bits PROVE Behind(x, s) < window_size <=> Behind(w, s) + d < window_size
    BY <1>1, <1>2, <1>3, <1>4, <1>6, <1>8, <1>9, <1>10, <1>12, <2>3
  <2>4. Behind(x, seq) = 0
    BY <1>3, <1>9, <1>12
  <2>5. \A s \in w.bits : Behind(w, s) \in Int
    BY <1>2, <1>3, <1>10
  <2>6. ASSUME NEW s \in x.bits
        PROVE  Behind(x, s) < window_size /\ \E r \in Packet : r.size = x.size /\ r.seq = s
    <3>1. CASE s = seq
      BY <1>8, <1>12, <2>4, <3>1, WindowAssumption DEF seq
    <3>2. CASE s \in w.bits /\ s \notin out
      BY <1>6, <1>8, <1>12, <2>0, <2>1, <2>3, <2>5, <3>2
    <3> QED
      BY <2>2, <3>1, <3>2
  <2>7. \A s \in w.bits : Behind(x, s) < window_size => s \in x.bits
    BY <1>8, <2>0, <2>1, <2>2, <2>3, <2>5
  <2>8. Good(x)
    BY <1>7, <1>11, <1>12, <2>2, <2>6 DEF Good, x
  <2> QED
    BY <1>12, <2>2, <2>7, <2>8 DEF x, seq
<1>13. CASE /\ d < 0 /\ -d < window_size
            /\ x.size = w.size /\ x.last = w.last /\ x.bits = w.bits \cup {seq}
  <2> HIDE DEF x
  <2>1. \A s : Behind(x, s) = Behind(w, s)
    BY <1>13 DEF Behind
  <2>2. Behind(w, seq) = -d
    BY <1>1, <1>3, <1>4, <1>10, <1>13
  <2>3. ASSUME NEW s \in x.bits
        PROVE  Behind(x, s) < window_size /\ \E r \in Packet : r.size = x.size /\ r.seq = s
    BY <1>6, <1>13, <2>1, <2>2 DEF seq
  <2>4. Good(x)
    BY <1>3, <1>7, <1>11, <1>13, <2>3 DEF Good, x
  <2> QED
    BY <1>13, <2>4 DEF x, seq
<1>14. CASE /\ ~(d > 0 /\ d < window_size)
            /\ ~(d < 0 /\ -d < window_size)
            /\ x.size = w.size /\ x.last = seq /\ x.bits = {seq}
  <2> HIDE DEF x
  <2>1. Behind(x, seq) = 0
    BY <1>3, <1>9, <1>14
  <2>2. Good(x)
    BY <1>7, <1>11, <1>14, <2>1, WindowAssumption DEF Good, x, seq
  <2>3. (seq - w.last) % (2 * h) >= window_size
    <3> DEFINE raw == seq - w.last
    <3>1. raw \in Int /\ -(2 * h) <= raw /\ raw < 4 * h /\ raw < 2 * h
      BY <1>3
    <3>2. raw = d \/ raw = d - 2 * h \/ raw = d + 2 * h
      BY <1>3, <1>4
    <3>3. d >= window_size \/ d <= -window_size
      BY <1>4, <1>5, <1>8, <1>14
    <3> HIDE DEF raw
    <3>4. raw % (2 * h) = IF raw < 0 THEN raw + 2 * h ELSE raw
      BY <3>1, Wrap
    <3>5. raw % (2 * h) >= window_size
      BY <1>1, <1>4, <3>1, <3>2, <3>3, <3>4
    <3> QED
      BY <3>5 DEF raw
  <2> QED
    BY <1>1, <1>14, <2>2, <2>3 DEF Half, x, seq
<1> QED
  BY <1>7, <1>12, <1>13, <1>14, AdvanceCases DEF d

\* The first packet's window is good.
LEMMA FreshGood ==
    ASSUME NEW p \in Packet, ValidSize(p.size)
    PROVE  Good(Fresh(p)) /\ Fresh(p).size = p.size /\ Fresh(p).bits = {p.seq}
<1> DEFINE x == Fresh(p)
<1>1. x.size = p.size /\ x.bits = {p.seq} /\ x.last = p.seq /\ x \in WindowType
  BY DEF Fresh, Window, WindowType
<1> HIDE DEF x
<1>2. PICK h \in Nat \ {0} : Half(p.size, h) /\ p.seq \in 0 .. 2 * h - 1
  BY Numbers
<1>3. Behind(x, p.seq) = 0
  BY <1>1, <1>2, BehindValue
<1> QED
  BY <1>1, <1>3, WindowAssumption DEF Good, x

\* What a good window calls seen is what it holds.
LEMMA SeenIsHeld ==
    ASSUME NEW w, Good(w), NEW p \in Packet, p.size = w.size
    PROVE  Seen(w, p.seq) <=> p.seq \in w.bits
<1> DEFINE seq == p.seq
           d == Delta(w.size, seq, w.last)
<1>1. PICK h \in Nat \ {0} :
         /\ Half(w.size, h) /\ window_size \in 1 .. h
         /\ \A r \in Packet : r.size = w.size => r.seq \in 0 .. 2 * h - 1
  BY Numbers DEF Good
<1>2. seq \in 0 .. 2 * h - 1 /\ w.last \in 0 .. 2 * h - 1 /\ w.last \in w.bits
  BY <1>1 DEF Good
<1>3. /\ d \in Int /\ -h <= d /\ d <= h
      /\ seq = w.last + d \/ seq = w.last + d - 2 * h \/ seq = w.last + d + 2 * h
  BY <1>1, <1>2, DeltaLeads
<1>4. Behind(w, seq) = IF seq <= w.last THEN w.last - seq ELSE w.last - seq + 2 * h
  BY <1>1, <1>2, BehindValue
<1>5. Seen(w, seq) <=> d = 0 \/ (d < 0 /\ -d < window_size /\ seq \in w.bits)
  BY DEF Seen
<1>6. seq \in w.bits => Behind(w, seq) < window_size
  BY DEF Good
<1> HIDE DEF seq, d
<1>7. d = 0 => seq = w.last
  BY <1>2, <1>3
<1>8. ASSUME Behind(w, seq) < window_size PROVE d = 0 \/ (d < 0 /\ -d < window_size)
  BY <1>1, <1>2, <1>3, <1>4, <1>8
<1> QED
  BY <1>2, <1>5, <1>6, <1>7, <1>8 DEF seq

-----------------------------------------------------------------------------
\* The list of flows

FlowType == [window : WindowType, age : 0 .. AgeMax + 1]

\* The list holds every flow once, the one updated longest ago first.
ListInv ==
    /\ list \in Seq(FlowId)
    /\ \A m, n \in 1 .. Len(list) : list[m] = list[n] => m = n
    /\ Flows = {list[n] : n \in 1 .. Len(list)}
    /\ \A m, n \in 1 .. Len(list) : m <= n => flow[list[n]].age <= flow[list[m]].age

WindowInv ==
    /\ flow \in [FlowId -> FlowType \cup {NoFlow}]
    /\ \A f \in Flows : Good(flow[f].window)
    /\ ListInv
    /\ answer \subseteq [flow : FlowId, id : Packet, isDuplicate : BOOLEAN]
    /\ Cardinality(answer) <= 1

LEMMA ListElements ==
    ASSUME NEW S, NEW s \in Seq(S)
    PROVE  Len(s) \in Nat /\ \A n \in 1 .. Len(s) : s[n] \in S
OBVIOUS

LEMMA AppendElements ==
    ASSUME NEW S, NEW s \in Seq(S), NEW e \in S
    PROVE  /\ Append(s, e) \in Seq(S)
           /\ Len(Append(s, e)) = Len(s) + 1
           /\ \A n \in 1 .. Len(s) + 1 :
                Append(s, e)[n] = IF n = Len(s) + 1 THEN e ELSE s[n]
OBVIOUS

\* What unlinking f leaves.
LEMMA WithoutElements ==
    ASSUME ListInv, NEW f \in Flows
    PROVE  \E at \in 1 .. Len(list) :
              /\ list[at] = f
              /\ Without(f) \in Seq(FlowId) /\ Len(Without(f)) = Len(list) - 1
              /\ \A n \in 1 .. Len(list) - 1 :
                    Without(f)[n] = IF n < at THEN list[n] ELSE list[n + 1]
<1> DEFINE at == CHOOSE n \in 1 .. Len(list) : list[n] = f
           len == Len(list)
           t == [n \in 1 .. len - 1 |-> IF n < at THEN list[n] ELSE list[n + 1]]
<1>1. at \in 1 .. len /\ list[at] = f
  BY DEF ListInv
<1>2. len \in Nat /\ \A n \in 1 .. len : list[n] \in FlowId
  BY ListElements DEF ListInv
<1>3. Without(f) = t
  BY DEF Without
<1> HIDE DEF at, len
<1>4. t \in [1 .. len - 1 -> FlowId] /\ len - 1 \in Nat
  BY <1>1, <1>2
<1>5. \A n \in 1 .. len - 1 : t[n] = IF n < at THEN list[n] ELSE list[n + 1]
  OBVIOUS
<1> HIDE DEF t
<1>6. t \in Seq(FlowId) /\ Len(t) = len - 1
  BY <1>4
<1> QED
  BY <1>1, <1>3, <1>5, <1>6 DEF len

\* Moving f behind the others keeps the order of the others.
LEMMA MovedToTail ==
    ASSUME ListInv, NEW f \in Flows
    PROVE  LET t == Append(Without(f), f) IN
           /\ t \in Seq(FlowId) /\ Len(t) = Len(list) /\ Len(list) \in Nat \ {0}
           /\ t[Len(t)] = f
           /\ \A m, n \in 1 .. Len(t) : t[m] = t[n] => m = n
           /\ {t[n] : n \in 1 .. Len(t)} = Flows
           /\ \A n \in 1 .. Len(t) - 1 : t[n] # f
           /\ \A m, n \in 1 .. Len(t) - 1 : m <= n =>
                 \E i, j \in 1 .. Len(list) : i <= j /\ t[m] = list[i] /\ t[n] = list[j]
<1> DEFINE len == Len(list)
           t == Append(Without(f), f)
<1>1. PICK at \in 1 .. len :
         /\ list[at] = f
         /\ Without(f) \in Seq(FlowId) /\ Len(Without(f)) = len - 1
         /\ \A n \in 1 .. len - 1 : Without(f)[n] = IF n < at THEN list[n] ELSE list[n + 1]
  BY WithoutElements
<1>2. len \in Nat /\ len # 0 /\ f \in FlowId
  BY <1>1, ListElements DEF ListInv
<1>3. /\ t \in Seq(FlowId) /\ Len(t) = len
      /\ \A n \in 1 .. len : t[n] = IF n = len THEN f ELSE Without(f)[n]
  <2>1. /\ t \in Seq(FlowId) /\ Len(t) = (len - 1) + 1
        /\ \A n \in 1 .. (len - 1) + 1 : t[n] = IF n = (len - 1) + 1 THEN f ELSE Without(f)[n]
    BY <1>1, <1>2, AppendElements
  <2>2. (len - 1) + 1 = len
    BY <1>2
  <2> QED
    BY <2>1, <2>2
<1> DEFINE old(n) == IF n < at THEN n ELSE n + 1
<1>4. \A n \in 1 .. len - 1 : /\ n \in 1 .. len /\ n # len
                              /\ old(n) \in 1 .. len /\ old(n) # at
  BY <1>2
<1>5. \A n \in 1 .. len - 1 : t[n] = list[old(n)]
  BY <1>1, <1>3, <1>4
<1>6. \A m, n \in 1 .. len - 1 : (old(m) = old(n) => m = n) /\ (m <= n => old(m) <= old(n))
  BY <1>2
<1>7. \A i \in 1 .. len : i # at => \E n \in 1 .. len - 1 : i = old(n)
  <2> SUFFICES ASSUME NEW i \in 1 .. len, i # at PROVE \E n \in 1 .. len - 1 : i = old(n)
    OBVIOUS
  <2>1. CASE i < at
    <3>1. i \in 1 .. len - 1 /\ i = old(i)
      BY <1>2, <2>1
    <3> QED
      BY <3>1
  <2>2. CASE i > at
    <3>1. i - 1 \in 1 .. len - 1 /\ i = old(i - 1)
      BY <1>2, <2>2
    <3> QED
      BY <3>1
  <2> QED
    BY <1>2, <2>1, <2>2
<1> HIDE DEF len, t, old
<1>8. \A n \in 1 .. len : n = len \/ n \in 1 .. len - 1
  BY <1>2
<1>9. \A n \in 1 .. len - 1 : t[n] # f
  BY <1>1, <1>4, <1>5 DEF ListInv, len
<1>10. t[len] = f /\ len \in 1 .. len
  BY <1>2, <1>3
<1>11. \A m, n \in 1 .. len : t[m] = t[n] => m = n
  <2> SUFFICES ASSUME NEW m \in 1 .. len, NEW n \in 1 .. len, t[m] = t[n] PROVE m = n
    OBVIOUS
  <2>1. CASE m \in 1 .. len - 1 /\ n \in 1 .. len - 1
    BY <1>4, <1>5, <1>6, <2>1 DEF ListInv, len
  <2>2. CASE m = len \/ n = len
    BY <1>8, <1>9, <1>10, <2>2
  <2> QED
    BY <1>8, <2>1, <2>2
<1>12. {t[n] : n \in 1 .. len} = Flows
  <2>1. \A n \in 1 .. len : t[n] \in Flows
    BY <1>4, <1>5, <1>8, <1>10 DEF ListInv, len
  <2>2. ASSUME NEW g \in Flows PROVE \E n \in 1 .. len : g = t[n]
    <3>1. PICK i \in 1 .. len : g = list[i]
      BY DEF ListInv, len
    <3>2. CASE i = at
      BY <1>1, <1>10, <3>1, <3>2
    <3>3. CASE i # at
      BY <1>4, <1>5, <1>7, <3>1, <3>3
    <3> QED
      BY <3>2, <3>3
  <2> QED
    BY <2>1, <2>2
<1>13. ASSUME NEW m \in 1 .. len - 1, NEW n \in 1 .. len - 1, m <= n
       PROVE  \E i, j \in 1 .. len : i <= j /\ t[m] = list[i] /\ t[n] = list[j]
  BY <1>4, <1>5, <1>6, <1>13
<1>14. /\ t \in Seq(FlowId) /\ Len(t) = Len(list) /\ Len(list) \in Nat \ {0}
       /\ t[Len(t)] = f
       /\ \A m, n \in 1 .. Len(t) : t[m] = t[n] => m = n
       /\ {t[n] : n \in 1 .. Len(t)} = Flows
       /\ \A n \in 1 .. Len(t) - 1 : t[n] # f
  BY <1>2, <1>3, <1>9, <1>10, <1>11, <1>12 DEF len
<1>15. \A m, n \in 1 .. Len(t) - 1 : m <= n =>
          \E i, j \in 1 .. Len(list) : i <= j /\ t[m] = list[i] /\ t[n] = list[j]
  BY <1>3, <1>13 DEF len
<1> QED
  BY <1>14, <1>15 DEF t

\* A set of positions that holds all positions before each of its own is the
\* first so many.
LEMMA InitialSegment ==
    ASSUME NEW len \in Nat, NEW P, P \subseteq 1 .. len,
           \A n \in P : 1 .. n \subseteq P
    PROVE  Cardinality(P) \in 0 .. len /\ P = 1 .. Cardinality(P)
<1> DEFINE g == Cardinality(P)
<1>1. IsFiniteSet(1 .. len) /\ Cardinality(1 .. len) = len
  BY FS_Interval
<1>2. IsFiniteSet(P) /\ g <= len /\ g \in Nat
  BY <1>1, FS_Subset, FS_CardinalityType
<1>3. IsFiniteSet(1 .. g) /\ Cardinality(1 .. g) = g
  BY <1>2, FS_Interval
<1> HIDE DEF g
<1>4. ASSUME NEW n \in P PROVE n \in 1 .. g
  <2>1. n \in Nat /\ n >= 1 /\ 1 .. n \in SUBSET P
    BY <1>4
  <2>2. Cardinality(1 .. n) = n
    BY <2>1, FS_Interval
  <2>3. n <= g
    BY <1>2, <2>1, <2>2, FS_Subset DEF g
  <2> QED
    BY <1>2, <2>1, <2>3
<1>5. P = 1 .. g
  BY <1>3, <1>4, FS_Subset DEF g
<1> QED
  BY <1>2, <1>5 DEF g

\* The flows Prune drops are those that stand before the first fresh one, and
\* these are all that are stale.
LEMMA StaleFlows ==
    ASSUME WindowInv
    PROVE  LET g == Cardinality(StaleFront) IN
           /\ g \in 0 .. Len(list) /\ StaleFront = 1 .. g
           /\ \A n \in 1 .. Len(list) : n <= g <=> flow[list[n]].age > AgeMax
<1> DEFINE len == Len(list)
           age(n) == flow[list[n]].age
<1>1. /\ len \in Nat
      /\ \A n \in 1 .. len : list[n] \in Flows
      /\ \A m, n \in 1 .. len : m <= n => age(n) <= age(m)
  BY ListElements DEF WindowInv, ListInv
<1>2. \A n \in 1 .. len : age(n) \in Int
  <2>1. \A f \in Flows : flow[f] \in FlowType
    BY DEF WindowInv, Flows
  <2>2. \A x \in FlowType : x.age \in Int
    BY DEF FlowType
  <2> QED
    BY <1>1, <2>1, <2>2
<1> HIDE DEF len, age
<1>3. StaleFront = {n \in 1 .. len : \A k \in 1 .. n : age(k) > AgeMax}
  BY DEF StaleFront, len, age
<1>4. ASSUME NEW n \in StaleFront PROVE 1 .. n \subseteq StaleFront
  <2>1. n \in 1 .. len /\ \A k \in 1 .. n : age(k) > AgeMax
    BY <1>3
  <2> SUFFICES ASSUME NEW m \in 1 .. n PROVE m \in 1 .. len /\ \A k \in 1 .. m : age(k) > AgeMax
    BY <1>3
  <2> QED
    BY <1>1, <2>1
<1>5. Cardinality(StaleFront) \in 0 .. len /\ StaleFront = 1 .. Cardinality(StaleFront)
  BY <1>1, <1>3, <1>4, InitialSegment
<1>6. ASSUME NEW n \in 1 .. len PROVE n \in StaleFront <=> age(n) > AgeMax
  <2>1. ASSUME age(n) > AgeMax, NEW k \in 1 .. n PROVE age(k) > AgeMax
    <3>1. k \in 1 .. len /\ k <= n
      BY <1>1, <2>1
    <3> QED
      BY <1>1, <1>2, <2>1, <3>1, AgeAssumption
  <2>2. n \in 1 .. n
    BY <1>1
  <2> QED
    BY <1>3, <2>1, <2>2
<1>7. \A n \in 1 .. len : n <= Cardinality(StaleFront) <=> n \in StaleFront
  BY <1>1, <1>5
<1> QED
  BY <1>5, <1>6, <1>7 DEF len, age

-----------------------------------------------------------------------------
\* The windows of all flows

\* A flow that has a window is in the list.
LEMMA FlowsHaveWindows ==
    ASSUME flow \in [FlowId -> FlowType \cup {NoFlow}]
    PROVE  \A f \in Flows : f \in FlowId /\ flow[f] \in FlowType
BY DEF Flows

LEMMA NoWindow == \A x \in FlowType : x # NoFlow
BY NoFlowAssumption DEF FlowType

LEMMA AnswerType ==
    ASSUME NEW f \in FlowId, NEW p \in Packet, NEW b \in BOOLEAN
    PROVE  /\ Answer(f, p, b) \subseteq [flow : FlowId, id : Packet, isDuplicate : BOOLEAN]
           /\ Cardinality(Answer(f, p, b)) <= 1
<1> DEFINE a == [flow |-> f, id |-> p, isDuplicate |-> b]
<1>1. a \in [flow : FlowId, id : Packet, isDuplicate : BOOLEAN]
  OBVIOUS
<1> HIDE DEF a
<1>2. Cardinality({a}) = 1
  BY FS_Singleton
<1> QED
  BY <1>1, <1>2 DEF Answer, a

LEMMA InitWindows == Init => WindowInv
<1> SUFFICES ASSUME Init PROVE WindowInv
  OBVIOUS
<1>1. Flows = {} /\ Cardinality({}) = 0 /\ answer = {}
  BY FS_EmptySet DEF Init, Flows
<1>2. flow \in [FlowId -> FlowType \cup {NoFlow}]
  BY DEF Init
<1>3. list \in Seq(FlowId) /\ Len(list) = 0
  BY DEF Init
<1>4. ListInv
  BY <1>1, <1>3 DEF ListInv
<1>5. Cardinality(answer) <= 1
  BY <1>1
<1> QED
  BY <1>1, <1>2, <1>4, <1>5 DEF WindowInv

\* A new flow goes behind the others with age 0.
LEMMA NewFlowOK ==
    ASSUME WindowInv, NEW f \in FlowId, NEW p \in Packet, NewFlow(f, p)
    PROVE  /\ WindowInv'
           /\ Flows' = Flows \cup {f}
           /\ \A g \in Flows : flow'[g] = flow[g]
           /\ flow'[f].window = Fresh(p)
<1> DEFINE x == [window |-> Fresh(p), age |-> 0]
           len == Len(list)
<1>1. Good(Fresh(p))
  BY FreshGood DEF NewFlow
<1>2. x \in FlowType /\ x.window = Fresh(p) /\ x.age = 0
  BY <1>1, AgeAssumption DEF Good, FlowType
<1>3. /\ flow' = [flow EXCEPT ![f] = x] /\ f \notin Flows
      /\ list' = Append(list, f) /\ answer' = Answer(f, p, FALSE)
  BY DEF NewFlow
<1> HIDE DEF x
<1>4. /\ flow' \in [FlowId -> FlowType \cup {NoFlow}]
      /\ \A g \in FlowId : flow'[g] = IF g = f THEN x ELSE flow[g]
  BY <1>2, <1>3 DEF WindowInv
<1>5. Flows' = Flows \cup {f} /\ \A g \in Flows : g \in FlowId /\ g # f
  BY <1>2, <1>3, <1>4, NoWindow DEF Flows
<1>6. \A g \in Flows' : Good(flow'[g].window)
  BY <1>1, <1>2, <1>4, <1>5 DEF WindowInv
<1>7. /\ list' \in Seq(FlowId) /\ Len(list') = len + 1 /\ len \in Nat
      /\ \A n \in 1 .. len + 1 : list'[n] = IF n = len + 1 THEN f ELSE list[n]
  BY <1>3, ListElements, AppendElements DEF WindowInv, ListInv
<1>8. /\ \A n \in 1 .. len + 1 : n = len + 1 \/ n \in 1 .. len
      /\ \A n \in 1 .. len : n \in 1 .. len + 1 /\ n # len + 1
      /\ len + 1 \in 1 .. len + 1
  BY <1>7
<1>9. \A n \in 1 .. len : list[n] \in Flows
  BY DEF WindowInv, ListInv
<1> HIDE DEF len
<1>10. ListInv'
  <2>1. \A m, n \in 1 .. len + 1 : list'[m] = list'[n] => m = n
    <3> SUFFICES ASSUME NEW m \in 1 .. len + 1, NEW n \in 1 .. len + 1, list'[m] = list'[n]
                 PROVE  m = n
      OBVIOUS
    <3>1. CASE m \in 1 .. len /\ n \in 1 .. len
      BY <1>7, <1>8, <3>1 DEF WindowInv, ListInv, len
    <3>2. CASE m = len + 1 \/ n = len + 1
      BY <1>3, <1>7, <1>8, <1>9, <3>2
    <3> QED
      BY <1>8, <3>1, <3>2
  <2>2. Flows' = {list'[n] : n \in 1 .. len + 1}
    <3>1. Flows = {list[n] : n \in 1 .. len}
      BY DEF WindowInv, ListInv, len
    <3> QED
      BY <1>5, <1>7, <1>8, <3>1
  <2>3. \A m, n \in 1 .. len + 1 : m <= n => flow'[list'[n]].age <= flow'[list'[m]].age
    <3> SUFFICES ASSUME NEW m \in 1 .. len + 1, NEW n \in 1 .. len + 1, m <= n
                 PROVE  flow'[list'[n]].age <= flow'[list'[m]].age
      OBVIOUS
    <3>1. CASE n \in 1 .. len
      <4>1. m \in 1 .. len
        BY <1>7, <1>8, <3>1
      <4>2. list'[m] = list[m] /\ list'[n] = list[n]
        BY <1>7, <1>8, <3>1, <4>1
      <4>3. flow'[list[m]] = flow[list[m]] /\ flow'[list[n]] = flow[list[n]]
        BY <1>4, <1>5, <1>9, <3>1, <4>1
      <4>4. flow[list[n]].age <= flow[list[m]].age
        BY <3>1, <4>1 DEF WindowInv, ListInv, len
      <4> QED
        BY <4>2, <4>3, <4>4
    <3>2. CASE n = len + 1
      <4>1. flow'[list'[n]].age = 0
        BY <1>2, <1>4, <1>7, <1>8, <3>2
      <4>2. list'[m] \in FlowId /\ flow'[list'[m]] \in FlowType
        <5>1. list'[m] \in Flows'
          BY <2>2
        <5> QED
          BY <1>4, <5>1 DEF Flows
      <4>3. \A y \in FlowType : y.age \in Nat
        BY AgeAssumption DEF FlowType
      <4> QED
        BY <4>1, <4>2, <4>3
    <3> QED
      BY <1>8, <3>1, <3>2
  <2> QED
    BY <1>7, <2>1, <2>2, <2>3 DEF ListInv
<1> QED
  BY <1>2, <1>3, <1>4, <1>5, <1>6, <1>10, AnswerType DEF WindowInv

\* A new packet of a known flow.
LEMMA AcceptOK ==
    ASSUME WindowInv, NEW f \in FlowId, NEW p \in Packet, Accept(f, p)
    PROVE  /\ WindowInv'
           /\ Flows' = Flows
           /\ \A g \in Flows \ {f} : flow'[g] = flow[g]
           /\ flow'[f].window = Advance(flow[f].window, p.seq)
<1> DEFINE w == flow[f].window
           x == [window |-> Advance(w, p.seq), age |-> 0]
           len == Len(list)
<1>0. f \in Flows /\ p.size = w.size /\ ~Seen(w, p.seq) /\ Good(w)
  BY DEF Accept, WindowInv
<1>1. Good(Advance(w, p.seq))
  BY <1>0, AdvanceGood
<1>2. x \in FlowType /\ x.window = Advance(w, p.seq) /\ x.age = 0
  BY <1>1, AgeAssumption DEF Good, FlowType
<1>3. /\ flow' = [flow EXCEPT ![f] = x]
      /\ list' = Append(Without(f), f) /\ answer' = Answer(f, p, FALSE)
  <2>1. f \in DOMAIN flow
    BY DEF WindowInv
  <2> QED
    BY <2>1 DEF Accept
<1> HIDE DEF x
<1>4. /\ flow' \in [FlowId -> FlowType \cup {NoFlow}]
      /\ \A g \in FlowId : flow'[g] = IF g = f THEN x ELSE flow[g]
  BY <1>2, <1>3 DEF WindowInv
<1>5. Flows' = Flows /\ \A g \in Flows : g \in FlowId
  BY <1>0, <1>2, <1>3, <1>4, NoWindow DEF Flows
<1>6. \A g \in Flows' : Good(flow'[g].window)
  BY <1>1, <1>2, <1>4, <1>5 DEF WindowInv
<1>7. /\ list' \in Seq(FlowId) /\ Len(list') = len /\ len \in Nat \ {0}
      /\ list'[len] = f
      /\ \A m, n \in 1 .. len : list'[m] = list'[n] => m = n
      /\ {list'[n] : n \in 1 .. len} = Flows
      /\ \A n \in 1 .. len - 1 : list'[n] # f
      /\ \A m, n \in 1 .. len - 1 : m <= n =>
           \E i, j \in 1 .. len : i <= j /\ list'[m] = list[i] /\ list'[n] = list[j]
  <2> DEFINE t == Append(Without(f), f)
  <2>1. /\ t \in Seq(FlowId) /\ Len(t) = Len(list) /\ Len(list) \in Nat \ {0}
        /\ t[Len(t)] = f
        /\ \A m, n \in 1 .. Len(t) : t[m] = t[n] => m = n
        /\ {t[n] : n \in 1 .. Len(t)} = Flows
        /\ \A n \in 1 .. Len(t) - 1 : t[n] # f
        /\ \A m, n \in 1 .. Len(t) - 1 : m <= n =>
             \E i, j \in 1 .. Len(list) : i <= j /\ t[m] = list[i] /\ t[n] = list[j]
    BY <1>0, MovedToTail DEF WindowInv
  <2>2. list' = t
    BY <1>3
  <2> HIDE DEF t
  <2> QED
    BY <2>1, <2>2
<1> HIDE DEF len
<1>8. \A m, n \in 1 .. len : m <= n => flow'[list'[n]].age <= flow'[list'[m]].age
  <2> SUFFICES ASSUME NEW m \in 1 .. len, NEW n \in 1 .. len, m <= n
               PROVE  flow'[list'[n]].age <= flow'[list'[m]].age
    OBVIOUS
  <2>1. CASE n # len
    <3>1. m \in 1 .. len - 1 /\ n \in 1 .. len - 1
      BY <1>7, <2>1
    <3>2. PICK i, j \in 1 .. len : i <= j /\ list'[m] = list[i] /\ list'[n] = list[j]
      BY <1>7, <3>1
    <3>3. list'[m] # f /\ list'[n] # f /\ list'[m] \in FlowId /\ list'[n] \in FlowId
      BY <1>5, <1>7, <3>1
    <3>4. flow'[list'[m]] = flow[list[i]] /\ flow'[list'[n]] = flow[list[j]]
      BY <1>4, <3>2, <3>3
    <3>5. flow[list[j]].age <= flow[list[i]].age
      BY <3>2 DEF WindowInv, ListInv, len
    <3> QED
      BY <3>4, <3>5
  <2>2. CASE n = len
    <3>1. flow'[list'[n]].age = 0
      BY <1>2, <1>4, <1>7, <2>2
    <3>2. list'[m] \in Flows' /\ flow'[list'[m]] \in FlowType
      <4>1. list'[m] \in Flows'
        BY <1>5, <1>7
      <4> QED
        BY <1>4, <4>1 DEF Flows
    <3>3. \A y \in FlowType : y.age \in Nat
      BY AgeAssumption DEF FlowType
    <3> QED
      BY <3>1, <3>2, <3>3
  <2> QED
    BY <2>1, <2>2
<1>9. ListInv'
  BY <1>5, <1>7, <1>8 DEF ListInv
<1>10. \A g \in Flows \ {f} : flow'[g] = flow[g]
  BY <1>4, <1>5
<1>11. flow'[f].window = Advance(w, p.seq)
  BY <1>2, <1>4
<1> QED
  BY <1>3, <1>4, <1>5, <1>6, <1>9, <1>10, <1>11, AnswerType DEF WindowInv

LEMMA DropElements ==
    ASSUME NEW S, NEW s \in Seq(S), NEW g \in 0 .. Len(s)
    PROVE  /\ SubSeq(s, g + 1, Len(s)) \in Seq(S)
           /\ Len(SubSeq(s, g + 1, Len(s))) = Len(s) - g
           /\ \A n \in 1 .. Len(s) - g : SubSeq(s, g + 1, Len(s))[n] = s[g + n]
<1> DEFINE len == Len(s)
<1>1. len \in Nat /\ \A n \in 1 .. len : s[n] \in S
  OBVIOUS
<1>2. g \in 0 .. len
  OBVIOUS
<1> HIDE DEF len
<1>3. g + 1 \in Int /\ len \in Int /\ \A n \in g + 1 .. len : s[n] \in S
  BY <1>1, <1>2
<1>4. /\ SubSeq(s, g + 1, len) \in Seq(S)
      /\ Len(SubSeq(s, g + 1, len)) = IF g + 1 <= len THEN len - (g + 1) + 1 ELSE 0
      /\ \A n \in 1 .. len - (g + 1) + 1 : SubSeq(s, g + 1, len)[n] = s[g + 1 + n - 1]
  BY <1>3, SubSeqProperties
<1>5. /\ SubSeq(s, g + 1, len) \in Seq(S)
      /\ Len(SubSeq(s, g + 1, len)) = len - g
      /\ \A n \in 1 .. len - g : SubSeq(s, g + 1, len)[n] = s[g + n]
  BY <1>1, <1>2, <1>4
<1> QED
  BY <1>5 DEF len

\* Prune drops exactly the stale flows and leaves the windows of the others.
LEMMA PruneOK ==
    ASSUME WindowInv, Prune
    PROVE  /\ WindowInv'
           /\ Flows' = {f \in Flows : flow[f].age <= AgeMax}
           /\ \A f \in Flows' : flow'[f].window = flow[f].window
<1> DEFINE len == Len(list)
           g == Cardinality(StaleFront)
           gone == {list[n] : n \in StaleFront}
<1>1. /\ g \in 0 .. len /\ StaleFront = 1 .. g
      /\ \A n \in 1 .. len : n <= g <=> flow[list[n]].age > AgeMax
      /\ len \in Nat
  BY StaleFlows, ListElements DEF WindowInv, ListInv
<1>2. /\ list' = SubSeq(list, g + 1, len)
      /\ flow' = [f \in FlowId |-> IF f \in gone \/ f \notin Flows THEN NoFlow
                                   ELSE [flow[f] EXCEPT !.age = @ + 1]]
      /\ answer' = {}
  BY DEF Prune
<1>3. /\ list' \in Seq(FlowId) /\ Len(list') = len - g
      /\ \A n \in 1 .. len - g : list'[n] = list[g + n]
  BY <1>1, <1>2, DropElements DEF WindowInv, ListInv
<1>4. /\ \A m, n \in 1 .. len : list[m] = list[n] => m = n
      /\ Flows = {list[n] : n \in 1 .. len}
      /\ \A m, n \in 1 .. len : m <= n => flow[list[n]].age <= flow[list[m]].age
  BY DEF WindowInv, ListInv
<1>5. \A f \in Flows : f \in FlowId /\ flow[f] \in FlowType /\ flow[f].age \in Nat
  <2>1. \A x \in FlowType : x.age \in Nat
    BY AgeAssumption DEF FlowType
  <2> QED
    BY <2>1, FlowsHaveWindows DEF WindowInv
<1> HIDE DEF len, g
<1>6. gone = {f \in Flows : flow[f].age > AgeMax}
  <2>1. gone = {list[n] : n \in 1 .. g}
    BY <1>1
  <2> HIDE DEF gone
  <2>2. \A n \in 1 .. g : n \in 1 .. len /\ n <= g
    BY <1>1
  <2>3. \A n \in 1 .. len : n <= g => n \in 1 .. g
    BY <1>1
  <2> QED
    BY <1>1, <1>4, <2>1, <2>2, <2>3
<1> HIDE DEF gone
<1>7. \A f \in Flows : f \notin gone <=> flow[f].age <= AgeMax
  BY <1>5, <1>6, AgeAssumption
<1>8. ASSUME NEW f \in Flows, f \notin gone
      PROVE  /\ flow'[f] = [flow[f] EXCEPT !.age = @ + 1]
             /\ flow'[f] \in FlowType
             /\ flow'[f].window = flow[f].window /\ flow'[f].age = flow[f].age + 1
  <2>1. flow'[f] = [flow[f] EXCEPT !.age = @ + 1]
    BY <1>2, <1>5, <1>8
  <2>2. flow[f] \in FlowType /\ flow[f].age \in 0 .. AgeMax
    BY <1>5, <1>7, <1>8, AgeAssumption
  <2> QED
    BY <2>1, <2>2, AgeAssumption DEF FlowType
<1>9. Flows' = Flows \ gone
  <2>1. \A f \in FlowId : (f \in gone \/ f \notin Flows) => flow'[f] = NoFlow
    BY <1>2
  <2> QED
    BY <1>5, <1>8, <2>1, NoWindow DEF Flows
<1>10. Flows' = {f \in Flows : flow[f].age <= AgeMax}
  BY <1>7, <1>9
<1>11. flow' \in [FlowId -> FlowType \cup {NoFlow}]
  <2>1. \A f \in FlowId : flow'[f] \in FlowType \cup {NoFlow}
    BY <1>2, <1>8
  <2>2. flow' = [f \in FlowId |-> flow'[f]]
    BY <1>2
  <2> QED
    BY <2>1, <2>2
<1>12. \A f \in Flows' : Good(flow'[f].window)
  BY <1>8, <1>9 DEF WindowInv
<1>13. /\ \A n \in 1 .. len - g : g + n \in 1 .. len /\ ~(g + n <= g)
       /\ \A n \in 1 .. len : ~(n <= g) => n - g \in 1 .. len - g /\ g + (n - g) = n
       /\ \A m, n \in 1 .. len - g : (g + m = g + n => m = n) /\ (m <= n => g + m <= g + n)
  BY <1>1
<1>14. \A n \in 1 .. len : list[n] \in Flows /\ (list[n] \in gone <=> n <= g)
  BY <1>1, <1>4, <1>6
<1>15. ListInv'
  <2>1. \A m, n \in 1 .. len - g : list'[m] = list'[n] => m = n
    BY <1>3, <1>4, <1>13
  <2>2. Flows' = {list'[n] : n \in 1 .. len - g}
    <3>1. \A n \in 1 .. len - g : list'[n] \in Flows \ gone
      BY <1>3, <1>13, <1>14
    <3>2. ASSUME NEW f \in Flows, f \notin gone PROVE \E n \in 1 .. len - g : f = list'[n]
      <4>1. PICK n \in 1 .. len : f = list[n]
        BY <1>4
      <4> QED
        BY <1>3, <1>13, <1>14, <3>2, <4>1
    <3> QED
      BY <1>9, <3>1, <3>2
  <2>3. \A m, n \in 1 .. len - g : m <= n => flow'[list'[n]].age <= flow'[list'[m]].age
    <3> SUFFICES ASSUME NEW m \in 1 .. len - g, NEW n \in 1 .. len - g, m <= n
                 PROVE  flow'[list'[n]].age <= flow'[list'[m]].age
      OBVIOUS
    <3>1. /\ list'[m] = list[g + m] /\ list'[n] = list[g + n]
          /\ list'[m] \in Flows \ gone /\ list'[n] \in Flows \ gone
      BY <1>3, <1>9, <2>2
    <3>2. flow[list[g + n]].age <= flow[list[g + m]].age
      BY <1>4, <1>13
    <3> DEFINE x == list[g + m]
               y == list[g + n]
    <3>3. x \in Flows \ gone /\ y \in Flows \ gone
      BY <3>1
    <3>4. flow[x].age \in Nat /\ flow[y].age \in Nat
      BY <1>5, <3>3
    <3>5. flow'[x].age = flow[x].age + 1 /\ flow'[y].age = flow[y].age + 1
      BY <1>8, <3>3
    <3>6. flow[y].age <= flow[x].age
      BY <3>2
    <3>7. flow'[y].age <= flow'[x].age
      <4> HIDE DEF x, y
      <4> QED
        BY <3>4, <3>5, <3>6
    <3> QED
      BY <3>1, <3>7
  <2> QED
    BY <1>3, <2>1, <2>2, <2>3 DEF ListInv
<1>16. answer' = {} /\ Cardinality({}) = 0
  BY <1>2, FS_EmptySet
<1>17. Cardinality(answer') <= 1
  BY <1>16
<1> QED
  BY <1>8, <1>9, <1>10, <1>11, <1>12, <1>15, <1>16, <1>17 DEF WindowInv

LEMMA DestroyOK == WindowInv /\ Destroy => WindowInv' /\ Flows' = {} /\ answer' = {}
<1> SUFFICES ASSUME WindowInv, Destroy PROVE WindowInv' /\ Flows' = {} /\ answer' = {}
  OBVIOUS
<1>1. Flows' = {} /\ answer' = {} /\ Cardinality({}) = 0
  BY FS_EmptySet DEF Destroy, Flows
<1>2. flow' \in [FlowId -> FlowType \cup {NoFlow}]
  BY DEF Destroy
<1>3. list' \in Seq(FlowId) /\ Len(list') = 0
  BY DEF Destroy
<1>4. ListInv'
  BY <1>1, <1>3 DEF ListInv
<1>5. Cardinality(answer') <= 1
  BY <1>1
<1> QED
  BY <1>1, <1>2, <1>4, <1>5 DEF WindowInv

\* An answer that changes nothing.
LEMMA AnswerOnly ==
    ASSUME WindowInv, UNCHANGED << flow, list >>,
           answer' \subseteq [flow : FlowId, id : Packet, isDuplicate : BOOLEAN],
           Cardinality(answer') <= 1
    PROVE  WindowInv' /\ Flows' = Flows
BY DEF WindowInv, ListInv, Flows

LEMMA NextWindows == WindowInv /\ [Next]_vars => WindowInv'
<1> SUFFICES ASSUME WindowInv, [Next]_vars PROVE WindowInv'
  OBVIOUS
<1>1. ASSUME NEW f \in FlowId, NEW p \in Packet, NewFlow(f, p) PROVE WindowInv'
  BY <1>1, NewFlowOK
<1>2. ASSUME NEW f \in FlowId, NEW p \in Packet, Unusable(f, p) \/ Duplicate(f, p) PROVE WindowInv'
  BY <1>2, AnswerType, AnswerOnly DEF Unusable, Duplicate
<1>3. ASSUME NEW f \in FlowId, NEW p \in Packet, Accept(f, p) PROVE WindowInv'
  BY <1>3, AcceptOK
<1>4. CASE Prune
  BY <1>4, PruneOK
<1>5. CASE Destroy
  BY <1>5, DestroyOK
<1>6. CASE UNCHANGED vars
  BY <1>6, AnswerOnly DEF vars, WindowInv
<1> QED
  BY <1>1, <1>2, <1>3, <1>4, <1>5, <1>6 DEF Next

LEMMA SpecWindows == Spec => []WindowInv
BY InitWindows, NextWindows, PTL DEF Spec

\* No bit of an earlier lap survives, for every window, every id size and
\* whatever jumps, wraps and prunings.
THEOREM NoLapSurvives == Spec => []NoStaleBits
<1>1. WindowInv => NoStaleBits
  <2> SUFFICES ASSUME WindowInv PROVE NoStaleBits
    OBVIOUS
  <2>1. \A f \in Flows : flow[f].window \in WindowType /\ flow[f].age \in 0 .. AgeMax + 1
    BY FlowsHaveWindows DEF WindowInv, FlowType
  <2>2. Len(list) = Cardinality(Flows) /\ Flows = {list[n] : n \in 1 .. Len(list)}
    <3> DEFINE at == [n \in 1 .. Len(list) |-> list[n]]
    <3>1. Len(list) \in Nat
      BY ListElements DEF WindowInv, ListInv
    <3>2. at \in Bijection(1 .. Len(list), Flows)
      BY DEF Bijection, Injection, Surjection, IsInjective, WindowInv, ListInv
    <3>3. Cardinality(Flows) = Len(list)
      BY <3>1, <3>2, FS_CountingElements DEF ExistsBijection
    <3> QED
      BY <3>3 DEF WindowInv, ListInv
  <2>3. TypeOK
    BY <2>1, <2>2 DEF TypeOK, WindowInv
  <2> QED
    BY <2>3 DEF NoStaleBits, WindowInv, Good
<1> QED
  BY <1>1, SpecWindows, PTL

\* What is inside the window and was seen stays remembered, but for a jump.
THEOREM WindowForgetsOnlyOnJump == Spec => ForgetsOnlyOnJump
<1> DEFINE Keeps(f) ==
             LET w == flow[f].window
                 x == flow'[f].window
             IN \/ (x.last - w.last) % 2 ^ w.size >= window_size
                \/ {s \in w.bits : Behind(x, s) < window_size} \subseteq x.bits
<1>1. WindowInv /\ [Next]_vars => [\A f \in Flows \cap Flows' : Keeps(f)]_vars
  <2> SUFFICES ASSUME WindowInv, Next, NEW f \in Flows, f \in Flows' PROVE Keeps(f)
    OBVIOUS
  <2>1. ASSUME flow'[f].window = flow[f].window PROVE Keeps(f)
    BY <2>1
  <2> HIDE DEF Keeps
  <2>2. ASSUME NEW g \in FlowId, NEW p \in Packet, NewFlow(g, p) PROVE Keeps(f)
    BY <2>1, <2>2, NewFlowOK
  <2>3. ASSUME NEW g \in FlowId, NEW p \in Packet, Unusable(g, p) \/ Duplicate(g, p) PROVE Keeps(f)
    BY <2>1, <2>3 DEF Unusable, Duplicate
  <2>4. ASSUME NEW g \in FlowId, NEW p \in Packet, Accept(g, p) PROVE Keeps(f)
    <3>1. CASE g # f
      BY <2>1, <2>4, <3>1, AcceptOK
    <3>2. CASE g = f
      <4>1. Good(flow[f].window) /\ p.size = flow[f].window.size /\ ~Seen(flow[f].window, p.seq)
        BY <2>4, <3>2 DEF Accept, WindowInv
      <4>2. flow'[f].window = Advance(flow[f].window, p.seq)
        BY <2>4, <3>2, AcceptOK
      <4> QED
        BY <4>1, <4>2, AdvanceGood DEF Keeps
    <3> QED
      BY <3>1, <3>2
  <2>5. CASE Prune
    BY <2>1, <2>5, PruneOK
  <2>6. CASE Destroy
    BY <2>6, DestroyOK
  <2> QED
    BY <2>2, <2>3, <2>4, <2>5, <2>6 DEF Next
<1> QED
  BY <1>1, SpecWindows, PTL DEF Spec, ForgetsOnlyOnJump

\* Prune may stop at the first fresh flow.
THEOREM PruneDropsStale == Spec => PruneIsExact
<1>1. WindowInv => [Prune => Flows' = {f \in Flows : flow[f].age <= AgeMax}]_vars
  BY PruneOK
<1> QED
  BY <1>1, SpecWindows, PTL DEF Spec, PruneIsExact

-----------------------------------------------------------------------------
\* The windows implement the filter

\* The packets a window holds.
Holds(w) == {r \in Packet : r.size = w.size /\ r.seq \in w.bits}

Known == UNION {{<< f, p >> : p \in Holds(flow[f].window)} : f \in Flows}

LEMMA KnownPackets ==
    ASSUME NEW f, NEW p
    PROVE  << f, p >> \in Known <=> f \in Flows /\ p \in Holds(flow[f].window)
BY DEF Known

LEMMA KnownIsFilters ==
    Known = UNION {{<< f, p >> : p \in {r \in Packet :
                r.size = flow[f].window.size /\ r.seq \in flow[f].window.bits}} : f \in Flows}
BY DEF Known, Holds

LEMMA SamePacket ==
    ASSUME NEW p \in Packet, NEW r \in Packet, p.size = r.size, p.seq = r.seq
    PROVE  p = r
<1>1. p \in [size : Nat \ {0}, seq : Nat] /\ r \in [size : Nat \ {0}, seq : Nat]
  BY PacketAssumption
<1> QED
  BY <1>1

\* SmfDpdWindow implements DuplicateFilter: no packet that was not seen is
\* called a duplicate, unless its id has no window or another size than the
\* flow's, and one that was checked is known at once.
THEOREM WindowImplementsFilter == Spec => ImplementsFilter
<1> USE DEF Filter!Answer, Answer
<1>1. Init => Filter!Init
  BY DEF Init, Filter!Init, Flows
<1>2. WindowInv /\ [Next]_vars => [Filter!Next]_Filter!vars
  <2> SUFFICES ASSUME WindowInv, [Next]_vars PROVE [Filter!Next]_Filter!vars
    OBVIOUS
  <2>1. ASSUME answer' = {}, Known' \subseteq Known PROVE Filter!Next
    BY <2>1, KnownIsFilters DEF Filter!Next, Filter!Forget, Known, Holds
  <2>2. ASSUME NEW f \in FlowId, NEW p \in Packet, << f, p >> \notin Known,
               answer' = Answer(f, p, FALSE), << f, p >> \in Known',
               Known' \subseteq Known \cup {<< f, p >>}
        PROVE  Filter!Next
    <3>1. Filter!Check(f, p)
      BY <2>2 DEF Filter!Check, Known, Holds
    <3> QED
      BY <3>1 DEF Filter!Next
  <2>3. ASSUME NEW f \in FlowId, NEW p \in Packet, NewFlow(f, p) PROVE Filter!Next
    <3>1. /\ Flows' = Flows \cup {f} /\ f \notin Flows
          /\ \A g \in Flows : flow'[g] = flow[g]
          /\ flow'[f].window = Fresh(p)
      BY <2>3, NewFlowOK DEF NewFlow
    <3>2. Holds(Fresh(p)) = {p}
      <4>1. Fresh(p).size = p.size /\ Fresh(p).bits = {p.seq}
        BY <2>3, FreshGood DEF NewFlow
      <4> QED
        BY <4>1, SamePacket DEF Holds
    <3>3. Known' = Known \cup {<< f, p >>}
      BY <3>1, <3>2 DEF Known
    <3>4. << f, p >> \notin Known
      BY <3>1, KnownPackets
    <3> QED
      BY <2>2, <2>3, <3>3, <3>4 DEF NewFlow
  <2>4. ASSUME NEW f \in FlowId, NEW p \in Packet, Accept(f, p) PROVE Filter!Next
    <3> DEFINE w == flow[f].window
    <3>1. f \in Flows /\ p.size = w.size /\ ~Seen(w, p.seq) /\ Good(w)
      BY <2>4 DEF Accept, WindowInv
    <3>2. /\ Flows' = Flows
          /\ \A g \in Flows \ {f} : flow'[g] = flow[g]
          /\ flow'[f].window = Advance(w, p.seq)
      BY <2>4, AcceptOK
    <3>3. /\ Advance(w, p.seq).size = w.size /\ p.seq \in Advance(w, p.seq).bits
          /\ Advance(w, p.seq).bits \subseteq w.bits \cup {p.seq}
      BY <3>1, AdvanceGood
    <3>4. p \in Holds(flow'[f].window) /\ Holds(flow'[f].window) \subseteq Holds(w) \cup {p}
      BY <3>1, <3>2, <3>3, SamePacket DEF Holds
    <3>5. << f, p >> \notin Known
      BY <3>1, SeenIsHeld, KnownPackets DEF Holds
    <3> HIDE DEF w
    <3>6. << f, p >> \in Known' /\ Known' \subseteq Known \cup {<< f, p >>}
      <4>1. ASSUME NEW g \in Flows', NEW r \in Holds(flow'[g].window)
            PROVE  << g, r >> \in Known \cup {<< f, p >>}
        BY <3>1, <3>2, <3>4, <4>1 DEF Known, w
      <4> QED
        BY <3>1, <3>2, <3>4, <4>1 DEF Known
    <3> QED
      BY <2>2, <2>4, <3>5, <3>6 DEF Accept
  <2>5. ASSUME NEW f \in FlowId, NEW p \in Packet, Duplicate(f, p) PROVE Filter!Next
    <3>1. << f, p >> \in Known
      BY <2>5, SeenIsHeld, KnownPackets DEF Duplicate, WindowInv, Holds
    <3>2. Filter!Check(f, p)
      BY <2>5, <3>1 DEF Duplicate, Filter!Check, Known, Holds, Flows
    <3> QED
      BY <3>2 DEF Filter!Next
  <2>6. ASSUME NEW f \in FlowId, NEW p \in Packet, Unusable(f, p) PROVE Filter!Next
    <3>1. /\ answer' = Answer(f, p, TRUE) /\ UNCHANGED << flow, list >>
          /\ IF f \in Flows THEN p.size # flow[f].window.size ELSE ~ValidSize(p.size)
      BY <2>6 DEF Unusable
    <3>2. CASE f \notin Flows
      <4>1. Filter!Refuse(f, p)
        BY <3>1, <3>2 DEF Filter!Refuse, Flows
      <4> QED
        BY <4>1 DEF Filter!Next
    <3>3. CASE f \in Flows
      <4>1. PICK r \in Packet : r.size = flow[f].window.size /\ r.seq \in flow[f].window.bits
        BY <3>3 DEF WindowInv, Good
      <4>2. << f, r >> \in Known
        BY <3>3, <4>1, KnownPackets DEF Holds
      <4>3. [k \in Packet |-> k.size][r] # [k \in Packet |-> k.size][p]
        BY <3>1, <3>3, <4>1
      <4>4. << f, r >>[1] = f /\ << f, r >>[2] = r
        OBVIOUS
      <4>5. \E k \in Known : k[1] = f /\ [q \in Packet |-> q.size][k[2]]
                                          # [q \in Packet |-> q.size][p]
        BY <4>2, <4>3, <4>4
      <4>6. UNCHANGED Known
        BY <3>1 DEF Known, Holds, Flows
      <4>7. Filter!Refuse(f, p)
        <5> DEFINE kind == [q \in Packet |-> q.size]
        <5>1. \E k \in Known : k[1] = f /\ kind[k[2]] # kind[p]
          BY <4>5
        <5>2. kind = [q \in Packet |-> q.size]
          OBVIOUS
        <5> HIDE DEF kind
        <5> QED
          BY <3>1, <4>6, <5>1, <5>2, KnownIsFilters DEF Filter!Refuse, Known, Holds
      <4> QED
        BY <4>7 DEF Filter!Next
    <3> QED
      BY <3>2, <3>3
  <2>7. CASE Prune
    <3>1. /\ Flows' \subseteq Flows /\ answer' = {}
          /\ \A f \in Flows' : flow'[f].window = flow[f].window
      BY <2>7, PruneOK DEF Prune
    <3>2. Known' \subseteq Known
      BY <3>1 DEF Known
    <3> QED
      BY <2>1, <3>1, <3>2
  <2>8. CASE Destroy
    <3>1. Flows' = {} /\ answer' = {}
      BY <2>8, DestroyOK
    <3> QED
      BY <2>1, <3>1 DEF Known
  <2>9. CASE UNCHANGED vars
    BY <2>9 DEF vars, Filter!vars, Flows
  <2> QED
    BY <2>3, <2>4, <2>5, <2>6, <2>7, <2>8, <2>9 DEF Next
<1> QED
  BY <1>1, <1>2, SpecWindows, PTL DEF Spec, ImplementsFilter, Filter!Spec
=============================================================================
