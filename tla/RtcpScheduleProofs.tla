------------------------- MODULE RtcpScheduleProofs -------------------------
(* Proofs about RtcpSchedule: each session has one report pending, and the others
   delay it by no more than an interval. *)
EXTENDS RtcpSchedule, WellFoundedInduction, FiniteSetTheorems, SequenceTheorems, TLAPS

-----------------------------------------------------------------------------
(* Numbers.                                                                *)

(* A non-empty set of natural numbers has a least one: the counterexample a search
   through a queue, or the turns of a loop, would meet first. *)
LEMMA LeastNat ==
  ASSUME NEW T \in SUBSET Nat, T # {}
  PROVE  \E m \in T : \A k \in T : m <= k
<1> DEFINE R == OpToRel(<, Nat)
<1>1. IsWellFoundedOn(R, Nat)
  BY NatLessThanWellFounded
<1>2. \A x, y \in Nat : x < y => <<x, y>> \in R
  BY DEF OpToRel
<1> HIDE DEF R
<1>3. PICK m \in T : \A k \in T : ~ (<<k, m>> \in R)
  BY <1>1, WFMin
<1>4. \A x, y \in Nat : ~ (x < y) => y <= x
  OBVIOUS
<1> QED BY <1>2, <1>3, <1>4

-----------------------------------------------------------------------------
(* What the proofs use of the constants. *)
LEMMA Constants ==
  /\ N \in Nat /\ 1 <= N /\ Size \in Nat /\ MaxMembers \in Nat /\ 1 <= MaxMembers
  /\ Bandwidth \in Nat /\ 2 <= Bandwidth /\ Limit \in Nat
  /\ Draws # {} /\ \A d \in Draws : d \in Nat /\ d <= 99
BY ScheduleAssumption

(* A set of numbers has a least one. *)
LEMMA MinIs ==
  ASSUME NEW S \in SUBSET Nat, S # {}
  PROVE  Min(S) \in S /\ \A k \in S : Min(S) <= k
<1>1. \E m \in S : \A k \in S : m <= k
  BY LeastNat
<1> QED BY <1>1 DEF Min

(* A set of numbers up to b has a greatest one. *)
LEMMA MaxIs ==
  ASSUME NEW S \in SUBSET Nat, S # {}, NEW b \in Nat, \A k \in S : k <= b
  PROVE  Max(S) \in S /\ \A k \in S : k <= Max(S)
<1> DEFINE T == {b - k : k \in S}
<1>1. T \in SUBSET Nat /\ T # {}
  OBVIOUS
<1>2. PICK m \in T : \A k \in T : m <= k
  BY <1>1, LeastNat
<1>3. PICK g \in S : m = b - g
  BY <1>2
<1>4. ASSUME NEW k \in S PROVE k <= g
  <2>1. b - k \in T
    OBVIOUS
  <2> HIDE DEF T
  <2> QED BY <1>2, <1>3, <2>1
<1>5. \E x \in S : \A y \in S : x >= y
  BY <1>4
<1> QED BY <1>5 DEF Max

(* The greater of two. *)
LEMMA MaxOfTwo ==
  ASSUME NEW a \in Nat, NEW b \in Nat
  PROVE  Max({a, b}) = IF a >= b THEN a ELSE b
<1>1. Max({a, b}) \in {a, b} /\ \A k \in {a, b} : k <= Max({a, b})
  <2>1. {a, b} \in SUBSET Nat /\ {a, b} # {} /\ a + b \in Nat /\ \A k \in {a, b} : k <= a + b
    OBVIOUS
  <2> QED BY <2>1, MaxIs
<1> QED BY <1>1

(* Products are ordered like the numbers multiplied. *)
LEMMA Products ==
  ASSUME NEW a \in Nat, NEW b \in Nat, NEW c \in Nat, a <= b
  PROVE  a * c \in Nat /\ a * c <= b * c /\ b * c \in Nat
<1>1. PICK k \in Nat : b = a + k
  <2>1. b - a \in Nat /\ b = a + (b - a)
    OBVIOUS
  <2> QED BY <2>1
<1>2. b * c = a * c + k * c /\ k * c \in Nat /\ a * c \in Nat
  BY <1>1
<1> QED BY <1>2

(* Quotients are ordered like the numbers divided, and no greater. *)
LEMMA Quotients ==
  ASSUME NEW a \in Nat, NEW b \in Nat, NEW w \in Nat \ {0}, a <= b
  PROVE  a \div w \in Nat /\ a \div w <= b \div w /\ b \div w \in Nat /\ a \div w <= a
<1> DEFINE p == a \div w
           q == b \div w
           x == a % w
           y == b % w
<1>1. /\ p \in Nat /\ a = w * p + x /\ 0 <= x /\ x < w /\ x \in Int
      /\ q \in Nat /\ b = w * q + y /\ 0 <= y /\ y < w /\ y \in Int
  OBVIOUS
<1> HIDE DEF p, q, x, y
<1>2. ~ (q < p)
  <2> SUFFICES ASSUME q < p PROVE FALSE
    OBVIOUS
  <2>1. PICK k \in Nat : p = q + 1 + k
    <3>1. p - q - 1 \in Nat /\ p = q + 1 + (p - q - 1)
      BY <1>1
    <3> QED BY <3>1
  <2>2. w * p = w * q + w + w * k /\ w * k \in Nat
    BY <1>1, <2>1
  <2> QED BY <1>1, <2>2
<1>3. p <= a
  <2>1. PICK k \in Nat : w = 1 + k
    <3>1. w - 1 \in Nat /\ w = 1 + (w - 1)
      OBVIOUS
    <3> QED BY <3>1
  <2>2. w * p = p + k * p /\ k * p \in Nat
    BY <1>1, <2>1
  <2> QED BY <1>1, <2>2
<1> QED BY <1>1, <1>2, <1>3 DEF p, q

-----------------------------------------------------------------------------
(* The intervals.                                                          *)

(* The seconds, before the draw, that rtcp_interval compares with the least interval. *)
Fair(m, n) ==
  LET shared == n > 0 /\ 4 * n < m
      receivers == IF shared THEN m - n ELSE m
      share == IF shared THEN (3 * Bandwidth) \div 4 ELSE Bandwidth
  IN  (100 * Size * receivers) \div share

(* They are no more than if every member had a byte per second. *)
LEMMA FairBound ==
  ASSUME NEW m \in 1 .. MaxMembers, NEW n \in 0 .. MaxMembers
  PROVE  Fair(m, n) \in Nat /\ Fair(m, n) <= 100 * Size * MaxMembers
         /\ 100 * Size * MaxMembers \in Nat
<1> DEFINE shared == n > 0 /\ 4 * n < m
           receivers == IF shared THEN m - n ELSE m
           share == IF shared THEN (3 * Bandwidth) \div 4 ELSE Bandwidth
<1>1. receivers \in Nat /\ receivers <= MaxMembers
  BY Constants
<1>2. share \in Nat \ {0}
  <2>1. (3 * Bandwidth) \div 4 \in Nat /\ 1 <= (3 * Bandwidth) \div 4
    <3>1. 3 * Bandwidth \in Nat /\ 4 <= 3 * Bandwidth
      BY Constants
    <3> QED BY <3>1
  <2> QED BY <2>1, Constants
<1>3. Fair(m, n) = (100 * Size * receivers) \div share
  BY DEF Fair
<1> HIDE DEF receivers, share
<1> DEFINE c == 100 * Size
<1>4. c \in Nat /\ MaxMembers \in Nat
  BY Constants
<1> HIDE DEF c
<1>5. c * receivers \in Nat /\ c * receivers <= c * MaxMembers /\ c * MaxMembers \in Nat
  <2>1. /\ receivers * c \in Nat /\ receivers * c <= MaxMembers * c /\ MaxMembers * c \in Nat
    BY <1>1, <1>4, Products
  <2> QED BY <1>1, <1>4, <2>1
<1> DEFINE x == c * receivers
           y == c * MaxMembers
<1>6. x \in Nat /\ y \in Nat /\ x <= y
  BY <1>5
<1> HIDE DEF x, y
<1>7. x \div share \in Nat /\ x \div share <= x
  BY <1>2, <1>6, Quotients
<1>8. x \div share <= y
  BY <1>6, <1>7
<1> QED BY <1>3, <1>6, <1>7, <1>8 DEF x, y, c

(* The interval when the least is l seconds, in hundredths. *)
IntervalFrom(l, m, n, draw) ==
  ((IF l >= Fair(m, n) THEN l ELSE Fair(m, n)) * (draw + 50)) \div 12183

(* rtcp_interval takes the greater of the two. *)
LEMMA IntervalIs ==
  ASSUME NEW m \in 1 .. MaxMembers, NEW n \in 0 .. MaxMembers, NEW first \in BOOLEAN,
         NEW draw \in Draws
  PROVE  /\ first => IntervalOf(m, n, first, draw) = IntervalFrom(250, m, n, draw)
         /\ ~ first => IntervalOf(m, n, first, draw) = IntervalFrom(500, m, n, draw)
<1> DEFINE least == IF first THEN 250 ELSE 500
<1>1. least \in Nat /\ Fair(m, n) \in Nat
  BY FairBound
<1>2. IntervalOf(m, n, first, draw)
        = (Max({least, Fair(m, n)}) * (draw + 50)) \div 12183
  BY DEF IntervalOf, Fair
<1>3. (first => least = 250) /\ (~ first => least = 500)
  OBVIOUS
<1> HIDE DEF least
<1>4. Max({least, Fair(m, n)}) = IF least >= Fair(m, n) THEN least ELSE Fair(m, n)
  BY <1>1, MaxOfTwo
<1>5. IntervalOf(m, n, first, draw) = IntervalFrom(least, m, n, draw)
  BY <1>2, <1>4 DEF IntervalFrom
<1> QED BY <1>3, <1>5

(* The intervals of which Longest is the greatest. *)
Usual == {IntervalFrom(500, m, n, draw) :
            m \in 1 .. MaxMembers, n \in 0 .. MaxMembers, draw \in Draws}

(* A first interval is no longer than a usual one, and none is longer than big. *)
LEMMA IntervalsOrdered ==
  ASSUME NEW m \in 1 .. MaxMembers, NEW n \in 0 .. MaxMembers, NEW draw \in Draws,
         NEW big, big = 500 + 100 * Size * MaxMembers
  PROVE  /\ IntervalFrom(250, m, n, draw) \in Nat /\ IntervalFrom(500, m, n, draw) \in Nat
         /\ IntervalFrom(250, m, n, draw) <= IntervalFrom(500, m, n, draw)
         /\ IntervalFrom(500, m, n, draw) <= big * 150
<1> DEFINE f == Fair(m, n)
           s == IF 250 >= f THEN 250 ELSE f
           t == IF 500 >= f THEN 500 ELSE f
           d == draw + 50
<1>1. f \in Nat /\ f <= 100 * Size * MaxMembers /\ 100 * Size * MaxMembers \in Nat
  BY FairBound
<1>2. IntervalFrom(250, m, n, draw) = (s * d) \div 12183
  BY DEF IntervalFrom
<1>3. IntervalFrom(500, m, n, draw) = (t * d) \div 12183
  BY DEF IntervalFrom
<1>4. d \in Nat /\ d <= 150
  BY Constants
<1>5. big \in Nat /\ f <= big /\ 500 <= big
  BY <1>1
<1> HIDE DEF f, d
<1>6. s \in Nat /\ t \in Nat /\ s <= t /\ t <= big
  BY <1>1, <1>5
<1> HIDE DEF s, t
<1>7. s * d \in Nat /\ t * d \in Nat /\ s * d <= t * d
  BY <1>4, <1>6, Products
<1>8. t * d <= big * 150
  <2>1. t * d <= big * d
    BY <1>4, <1>5, <1>6, Products
  <2>2. d * big <= 150 * big /\ d * big \in Nat /\ 150 * big \in Nat
    BY <1>4, <1>5, Products
  <2>3. d * big = big * d /\ 150 * big = big * 150
    BY <1>4, <1>5
  <2> QED BY <1>7, <2>1, <2>2, <2>3
<1> DEFINE u == s * d
           v == t * d
           w == big * 150
<1>9. u \in Nat /\ v \in Nat /\ w \in Nat /\ u <= v /\ v <= w
  BY <1>5, <1>7, <1>8
<1>10. IntervalFrom(250, m, n, draw) = u \div 12183
       /\ IntervalFrom(500, m, n, draw) = v \div 12183
  BY <1>2, <1>3
<1> HIDE DEF u, v, w
<1>11. /\ u \div 12183 \in Nat /\ v \div 12183 \in Nat /\ u \div 12183 <= v \div 12183
  BY <1>9, Quotients
<1>12. v \div 12183 <= v
  BY <1>9, Quotients
<1>13. v \div 12183 <= w
  BY <1>9, <1>11, <1>12
<1> QED BY <1>10, <1>11, <1>13 DEF w

(* Longest is the greatest of them. *)
LEMMA LongestIs == Longest = Max(Usual)
<1> DEFINE G(m, n, draw) == IntervalOf(m, n, FALSE, draw)
           All == {G(m, n, draw) :
                     m \in 1 .. MaxMembers, n \in 0 .. MaxMembers, draw \in Draws}
<1>1. ASSUME NEW m \in 1 .. MaxMembers, NEW n \in 0 .. MaxMembers, NEW draw \in Draws
      PROVE  G(m, n, draw) = IntervalFrom(500, m, n, draw)
  <2>1. \A first \in BOOLEAN :
          ~ first => IntervalOf(m, n, first, draw) = IntervalFrom(500, m, n, draw)
    BY IntervalIs
  <2> QED BY <2>1, Zenon
<1>2. Longest = Max(All)
  BY DEF Longest
<1> HIDE DEF G
<1>3. All = Usual
  BY <1>1 DEF Usual
<1> QED BY <1>2, <1>3

(* No interval, the first of a session included, is longer than Longest. *)
LEMMA IntervalBound ==
  /\ Longest \in Nat
  /\ \A m \in 1 .. MaxMembers, n \in 0 .. MaxMembers, first \in BOOLEAN, draw \in Draws :
       IntervalOf(m, n, first, draw) \in 0 .. Longest
<1> DEFINE big == 500 + 100 * Size * MaxMembers
<1>1. ASSUME NEW m \in 1 .. MaxMembers, NEW n \in 0 .. MaxMembers, NEW draw \in Draws
      PROVE  /\ IntervalFrom(250, m, n, draw) \in Nat /\ IntervalFrom(500, m, n, draw) \in Nat
             /\ IntervalFrom(250, m, n, draw) <= IntervalFrom(500, m, n, draw)
             /\ IntervalFrom(500, m, n, draw) <= big * 150
  BY IntervalsOrdered
<1>2. big * 150 \in Nat
  <2>1. 100 * Size \in Nat /\ MaxMembers \in Nat
    BY Constants
  <2>2. 100 * Size * MaxMembers \in Nat
    BY <2>1
  <2>3. big \in Nat
    BY <2>2
  <2> HIDE DEF big
  <2> QED BY <2>3
<1> HIDE DEF big
<1>3. Usual \in SUBSET Nat /\ \A k \in Usual : k <= big * 150
  BY <1>1 DEF Usual
<1>4. Usual # {}
  <2>1. PICK d \in Draws : TRUE
    BY Constants
  <2>2. 1 \in 1 .. MaxMembers /\ 0 \in 0 .. MaxMembers
    BY Constants
  <2>3. IntervalFrom(500, 1, 0, d) \in Usual
    BY <2>1, <2>2 DEF Usual
  <2> QED BY <2>3
<1>5. Longest \in Nat /\ \A k \in Usual : k <= Longest
  <2>1. Max(Usual) \in Usual /\ \A k \in Usual : k <= Max(Usual)
    BY <1>2, <1>3, <1>4, MaxIs
  <2> QED BY <1>3, <2>1, LongestIs
<1>6. ASSUME NEW m \in 1 .. MaxMembers, NEW n \in 0 .. MaxMembers, NEW first \in BOOLEAN,
             NEW draw \in Draws
      PROVE  IntervalOf(m, n, first, draw) \in 0 .. Longest
  <2>1. IntervalFrom(500, m, n, draw) \in Usual
    BY DEF Usual
  <2>2. IntervalFrom(500, m, n, draw) <= Longest
    BY <1>5, <2>1
  <2>3. IntervalFrom(250, m, n, draw) \in 0 .. Longest
        /\ IntervalFrom(500, m, n, draw) \in 0 .. Longest
    BY <1>1, <1>5, <2>2
  <2> QED BY <2>3, IntervalIs
<1> QED BY <1>5, <1>6

-----------------------------------------------------------------------------
(* The invariant.                                                          *)

Events == [sess : Sessions, due : 0 .. Longest]

(* This client hears itself among the members and never sends. *)
Listeners == \A s \in Sessions : senders[s] < members[s]

QueueInv == TypeOK /\ OneReportPending /\ Listeners

(* In a queue of n events, due in d[i] seconds, whose sessions have waited w[i] seconds:
   an event that is not due yet is on time, and what waits behind others is not delayed
   beyond an interval by them, unless it comes second. The walk may put a new event in
   front of the second, and again, as long as the third is not earlier. *)
OnTime(n, w, d) ==
  /\ \A i \in 1 .. n : w[i] <= 2 * Longest /\ (d[i] = 0 \/ w[i] + d[i] <= Longest)
  /\ \A i \in 3 .. n : \A j \in 1 .. i - 1 : w[i] + d[j] <= Longest
  /\ n >= 2 => w[2] + d[1] <= 2 * Longest
  /\ n >= 3 => w[2] + d[3] <= 2 * Longest

Waits(q, g) == [i \in 1 .. Len(q) |-> g[q[i].sess]]
Dues(q) == [i \in 1 .. Len(q) |-> q[i].due]

Delays == OnTime(Len(queue), Waits(queue, gap), Dues(queue))

(* Nobody waits before the loop starts. *)
NotYet == started < N => \A s \in Sessions : gap[s] = 0

DelayInv == QueueInv /\ NotYet /\ (alive => Delays)

-----------------------------------------------------------------------------
(* rtcp_schedule.                                                          *)

(* r is q with e at place p: at the end, or before a q[p] that is not earlier, or in
   front of all because q[1] or q[2] is not earlier. *)
Inserted(q, e, r, p) ==
  /\ r \in Seq(Events) /\ Len(r) = Len(q) + 1
  /\ p \in 1 .. Len(q) + 1 /\ r[p] = e
  /\ \A i \in 1 .. p - 1 : r[i] = q[i]
  /\ \A i \in p + 1 .. Len(q) + 1 : r[i] = q[i - 1]
  /\ \/ p = Len(q) + 1
     \/ p = 1 /\ \E j \in 1 .. 2 : j \in 1 .. Len(q) /\ e.due <= q[j].due
     \/ p >= 3 /\ p <= Len(q) /\ e.due <= q[p].due

(* The event goes to one place, and the others keep their order. *)
LEMMA ScheduleInserts ==
  ASSUME NEW q \in Seq(Events), NEW e \in Events
  PROVE  \E p \in 1 .. Len(q) + 1 : Inserted(q, e, Schedule(q, e), p)
<1> DEFINE notEarlier == {i \in DOMAIN q : q[i].due >= e.due}
           m == Min(notEarlier)
<1>1. Len(q) \in Nat /\ DOMAIN q = 1 .. Len(q) /\ \A i \in 1 .. Len(q) : q[i] \in Events
  BY ElementOfSeq, LenProperties
<1>2. notEarlier \in SUBSET Nat
  BY <1>1
<1>3. ASSUME notEarlier # {} PROVE m \in 1 .. Len(q) /\ q[m].due >= e.due
  <2>1. m \in notEarlier
    BY <1>2, <1>3, MinIs
  <2> QED BY <1>1, <2>1
<1>4. Schedule(q, e) = IF notEarlier = {} THEN Append(q, e)
                       ELSE IF m <= 2 THEN <<e>> \o q ELSE InsertAt(q, m, e)
  BY DEF Schedule
<1>5. e.due \in Nat /\ \A i \in 1 .. Len(q) : q[i].due \in Nat
  BY <1>1, IntervalBound DEF Events
<1> HIDE DEF notEarlier, m
<1>6. <<e>> \in Seq(Events) /\ Len(<<e>>) = 1 /\ <<e>>[1] = e
  OBVIOUS
<1>7. CASE notEarlier = {}
  <2>1. Schedule(q, e) = Append(q, e)
    BY <1>4, <1>7
  <2> DEFINE r == Append(q, e)
  <2>2. /\ r \in Seq(Events) /\ Len(r) = Len(q) + 1 /\ r[Len(q) + 1] = e
        /\ \A i \in 1 .. Len(q) : r[i] = q[i]
    BY <1>1, AppendProperties
  <2> HIDE DEF r
  <2>3. Inserted(q, e, r, Len(q) + 1)
    BY <1>1, <2>2 DEF Inserted
  <2> QED BY <1>1, <2>1, <2>3 DEF r
<1>8. CASE notEarlier # {} /\ m <= 2
  <2>1. Schedule(q, e) = <<e>> \o q
    BY <1>4, <1>8
  <2> DEFINE r == <<e>> \o q
  <2>2. /\ r \in Seq(Events) /\ Len(r) = Len(q) + 1
        /\ \A i \in 1 .. 1 + Len(q) : r[i] = IF i <= 1 THEN <<e>>[i] ELSE q[i - 1]
    BY <1>1, <1>6, ConcatProperties
  <2> HIDE DEF r
  <2>3. r[1] = e /\ \A i \in 2 .. Len(q) + 1 : r[i] = q[i - 1]
    BY <1>1, <1>6, <2>2
  <2>4. m \in 1 .. 2 /\ m \in 1 .. Len(q) /\ e.due <= q[m].due
    BY <1>1, <1>3, <1>5, <1>8
  <2>5. Inserted(q, e, r, 1)
    BY <1>1, <2>2, <2>3, <2>4 DEF Inserted
  <2> QED BY <1>1, <2>1, <2>5 DEF r
<1>9. CASE notEarlier # {} /\ ~ (m <= 2)
  <2>1. Schedule(q, e) = InsertAt(q, m, e)
    BY <1>4, <1>9
  <2>2. m \in Nat /\ 3 <= m /\ m <= Len(q) /\ e.due <= q[m].due
    BY <1>1, <1>3, <1>5, <1>9
  <2> DEFINE a == SubSeq(q, 1, m - 1)
             b == SubSeq(q, m, Len(q))
             c == a \o <<e>>
             r == c \o b
  <2>3. a \in Seq(Events) /\ Len(a) = m - 1 /\ \A i \in 1 .. m - 1 : a[i] = q[i]
    <3>1. 1 \in 1 .. Len(q) + 1 /\ m - 1 \in 0 .. Len(q) /\ \A i \in 1 .. m - 1 : i \in 1 .. Len(q)
      BY <1>1, <2>2
    <3> QED BY <1>1, <2>2, <3>1, SubSeqProperties
  <2>4. b \in Seq(Events) /\ Len(b) = Len(q) - m + 1
        /\ \A i \in 1 .. Len(q) - m + 1 : b[i] = q[m + i - 1]
    <3>1. m \in 1 .. Len(q) + 1 /\ Len(q) \in 0 .. Len(q)
      BY <1>1, <2>2
    <3> QED BY <1>1, <2>2, <3>1, SubSeqProperties
  <2> HIDE DEF a, b
  <2>5. /\ c \in Seq(Events) /\ Len(c) = m
        /\ \A i \in 1 .. m : c[i] = IF i <= m - 1 THEN a[i] ELSE <<e>>[i - (m - 1)]
    BY <1>6, <2>2, <2>3, ConcatProperties
  <2> HIDE DEF c
  <2>6. c[m] = e /\ \A i \in 1 .. m - 1 : c[i] = q[i]
    BY <1>6, <2>2, <2>3, <2>5
  <2>7. /\ r \in Seq(Events) /\ Len(r) = Len(q) + 1
        /\ \A i \in 1 .. Len(q) + 1 : r[i] = IF i <= m THEN c[i] ELSE b[i - m]
    <3>1. /\ r \in Seq(Events) /\ Len(r) = Len(c) + Len(b)
          /\ \A i \in 1 .. Len(c) + Len(b) :
               r[i] = IF i <= Len(c) THEN c[i] ELSE b[i - Len(c)]
      BY <2>4, <2>5, ConcatProperties
    <3>2. Len(c) + Len(b) = Len(q) + 1
      BY <1>1, <2>2, <2>4, <2>5
    <3> HIDE DEF r
    <3> QED BY <2>5, <3>1, <3>2
  <2>8. Schedule(q, e) = r
    BY <2>1 DEF InsertAt, a, b, c
  <2> HIDE DEF r
  <2>9. r[m] = e /\ \A i \in 1 .. m - 1 : r[i] = q[i]
    BY <1>1, <2>2, <2>6, <2>7
  <2>10. ASSUME NEW i \in m + 1 .. Len(q) + 1 PROVE r[i] = q[i - 1]
    <3>1. /\ i \in 1 .. Len(q) + 1 /\ ~ (i <= m) /\ i - m \in 1 .. Len(q) - m + 1
          /\ m + (i - m) - 1 = i - 1
      BY <1>1, <2>2
    <3> QED BY <2>4, <2>7, <3>1
  <2>11. m \in 1 .. Len(q) + 1
    BY <1>1, <2>2
  <2>12. Inserted(q, e, r, m)
    BY <2>2, <2>7, <2>9, <2>10, <2>11 DEF Inserted
  <2> QED BY <2>8, <2>11, <2>12
<1> QED BY <1>7, <1>8, <1>9

(* The sessions that have an event in q. *)
SessionsOf(q) == {q[i].sess : i \in DOMAIN q}

(* The queue then has the sessions it had, and that of the event. *)
LEMMA InsertedSessions ==
  ASSUME NEW q \in Seq(Events), NEW e \in Events, NEW r, NEW p, Inserted(q, e, r, p)
  PROVE  SessionsOf(r) = SessionsOf(q) \cup {e.sess}
<1>1. /\ Len(q) \in Nat /\ DOMAIN q = 1 .. Len(q) /\ DOMAIN r = 1 .. Len(r)
      /\ Len(r) = Len(q) + 1 /\ p \in 1 .. Len(q) + 1
  BY LenProperties DEF Inserted
<1>2. /\ r[p] = e /\ \A i \in 1 .. p - 1 : r[i] = q[i]
      /\ \A i \in p + 1 .. Len(q) + 1 : r[i] = q[i - 1]
  BY DEF Inserted
<1>3. ASSUME NEW i \in 1 .. Len(r)
      PROVE  r[i] = e \/ \E j \in 1 .. Len(q) : r[i] = q[j]
  <2>1. i = p \/ i \in 1 .. p - 1 \/ i \in p + 1 .. Len(q) + 1
    BY <1>1
  <2>2. i \in 1 .. p - 1 => i \in 1 .. Len(q)
    BY <1>1
  <2>3. i \in p + 1 .. Len(q) + 1 => i - 1 \in 1 .. Len(q)
    BY <1>1
  <2> QED BY <1>2, <2>1, <2>2, <2>3
<1>4. ASSUME NEW j \in 1 .. Len(q)
      PROVE  \E i \in 1 .. Len(r) : r[i] = q[j]
  <2>1. CASE j < p
    <3>1. j \in 1 .. p - 1 /\ j \in 1 .. Len(r)
      BY <1>1, <2>1
    <3> QED BY <1>2, <3>1
  <2>2. CASE ~ (j < p)
    <3>1. j + 1 \in p + 1 .. Len(q) + 1 /\ j + 1 \in 1 .. Len(r) /\ (j + 1) - 1 = j
      BY <1>1, <2>2
    <3> QED BY <1>2, <3>1
  <2> QED BY <2>1, <2>2
<1>5. p \in 1 .. Len(r)
  BY <1>1
<1>6. ASSUME NEW x PROVE (\E i \in 1 .. Len(r) : x = r[i].sess)
                           <=> (x = e.sess \/ \E j \in 1 .. Len(q) : x = q[j].sess)
  BY <1>2, <1>3, <1>4, <1>5
<1> DEFINE R == {r[i].sess : i \in 1 .. Len(r)}
           Q == {q[i].sess : i \in 1 .. Len(q)}
<1>7. R = Q \cup {e.sess}
  BY <1>6
<1> HIDE DEF R, Q
<1>8. SessionsOf(r) = R /\ SessionsOf(q) = Q
  BY <1>1 DEF R, Q, SessionsOf
<1> QED BY <1>7, <1>8

-----------------------------------------------------------------------------
(* The queue.                                                              *)

(* The queue, read by its places. *)
LEMMA QueueIs ==
  ASSUME TypeOK
  PROVE  /\ queue \in Seq(Events) /\ Len(queue) \in Nat /\ DOMAIN queue = 1 .. Len(queue)
         /\ \A i \in 1 .. Len(queue) : /\ queue[i] \in Events /\ queue[i].sess \in Sessions
                                       /\ queue[i].due \in Nat /\ queue[i].due <= Longest
<1>1. queue \in Seq(Events)
  BY DEF TypeOK, Events
<1>2. Len(queue) \in Nat /\ DOMAIN queue = 1 .. Len(queue)
      /\ \A i \in 1 .. Len(queue) : queue[i] \in Events
  BY <1>1, ElementOfSeq, LenProperties
<1>3. \A e \in Events : e.sess \in Sessions /\ e.due \in Nat /\ e.due <= Longest
  BY IntervalBound DEF Events
<1> QED BY <1>1, <1>2, <1>3

(* An event is due within Longest. *)
LEMMA EventTyped ==
  ASSUME QueueInv, NEW s \in Sessions, NEW draw \in Draws
  PROVE  Event(s, draw) \in Events /\ Event(s, draw).sess = s
<1>1. /\ members[s] \in 1 .. MaxMembers /\ senders[s] \in 0 .. MaxMembers
      /\ initial[s] \in BOOLEAN
  BY DEF QueueInv, TypeOK
<1>2. Interval(s, draw) \in 0 .. Longest
  BY <1>1, IntervalBound DEF Interval
<1> QED BY <1>2 DEF Event, Events

(* A thread that sleeps has all its reports pending, and an event at the head. *)
LEMMA HeadIs ==
  ASSUME QueueInv, Sleeping
  PROVE  /\ Len(queue) = N /\ 1 \in 1 .. Len(queue)
         /\ SessionsOf(queue) = Sessions
<1>1. Len(queue) = N /\ SessionsOf(queue) = 1 .. N
  BY DEF QueueInv, OneReportPending, Sleeping, SessionsOf
<1> QED BY <1>1, Constants DEF Sessions

(* rtcp_deschedule leaves the others in their places. *)
LEMMA Rest ==
  ASSUME QueueInv, Sleeping
  PROVE  /\ Descheduled \in Seq(Events) /\ Len(Descheduled) = Len(queue) - 1
         /\ \A i \in 1 .. Len(queue) - 1 : Descheduled[i] = queue[i + 1]
         /\ SessionsOf(Descheduled) \cup {queue[1].sess}
              = SessionsOf(queue)
<1>1. /\ queue \in Seq(Events) /\ Len(queue) \in Nat /\ DOMAIN queue = 1 .. Len(queue)
      /\ 1 \in 1 .. Len(queue)
  BY QueueIs, HeadIs DEF QueueInv
<1>2. queue # <<>>
  BY <1>1
<1> DEFINE t == Tail(queue)
<1>3. /\ t \in Seq(Events) /\ Len(t) = Len(queue) - 1
      /\ \A i \in 1 .. Len(queue) - 1 : t[i] = queue[i + 1]
  BY <1>1, <1>2, HeadTailProperties
<1> HIDE DEF t
<1>4. DOMAIN t = 1 .. Len(queue) - 1
  BY <1>3, LenProperties
<1>5. ASSUME NEW x
      PROVE  (\E i \in 1 .. Len(queue) : x = queue[i].sess)
               <=> (x = queue[1].sess \/ \E i \in 1 .. Len(queue) - 1 : x = t[i].sess)
  <2>1. \A i \in 1 .. Len(queue) : i = 1 \/ (i - 1 \in 1 .. Len(queue) - 1 /\ (i - 1) + 1 = i)
    BY <1>1
  <2>2. \A i \in 1 .. Len(queue) - 1 : i + 1 \in 1 .. Len(queue)
    BY <1>1
  <2>3. \A i \in 1 .. Len(queue) - 1 : t[i] = queue[i + 1]
    BY <1>3
  <2>4. ASSUME NEW i \in 1 .. Len(queue), x = queue[i].sess
        PROVE  x = queue[1].sess \/ \E j \in 1 .. Len(queue) - 1 : x = t[j].sess
    BY <2>1, <2>3, <2>4
  <2> QED BY <1>1, <2>2, <2>3, <2>4
<1> DEFINE R == {queue[i].sess : i \in 1 .. Len(queue)}
           Q == {t[i].sess : i \in 1 .. Len(queue) - 1}
<1>6. Q \cup {queue[1].sess} = R
  BY <1>5
<1>7. SessionsOf(t) = Q /\ SessionsOf(queue) = R
  BY <1>1, <1>4 DEF SessionsOf
<1> HIDE DEF Q, R
<1> QED BY <1>3, <1>6, <1>7 DEF t, Descheduled

(* Before the loop, each session gets its event. *)
LEMMA StartQueue ==
  ASSUME QueueInv, Start
  PROVE  /\ QueueInv' /\ started + 1 \in Sessions
         /\ \E e \in Events, p \in 1 .. Len(queue) + 1 :
              e.sess = started + 1 /\ Inserted(queue, e, queue', p)
<1>1. /\ alive /\ started \in Nat /\ started < N /\ started' = started + 1
      /\ UNCHANGED <<stats, readable, quiet, alive, gap>>
  BY Constants DEF Start, QueueInv, TypeOK
<1>2. PICK draw \in Draws : queue' = Schedule(queue, Event(started', draw))
  BY DEF Start
<1>3. started' \in Sessions
  BY <1>1, Constants DEF Sessions
<1> DEFINE e == Event(started', draw)
<1>4. e \in Events /\ e.sess = started'
  BY <1>3, EventTyped
<1>5. queue' = Schedule(queue, e)
  BY <1>2
<1> HIDE DEF e
<1>6. queue \in Seq(Events)
  BY QueueIs DEF QueueInv
<1>7. PICK p \in 1 .. Len(queue) + 1 : Inserted(queue, e, queue', p)
  BY <1>4, <1>5, <1>6, ScheduleInserts
<1>8. SessionsOf(queue') = SessionsOf(queue) \cup {e.sess}
  BY <1>4, <1>6, <1>7, InsertedSessions
<1>9. Len(queue) = started /\ SessionsOf(queue) = 1 .. started
  BY <1>1 DEF QueueInv, OneReportPending, SessionsOf
<1>10. (1 .. started) \cup {started + 1} = 1 .. started + 1
  BY <1>1
<1>11. OneReportPending'
  BY <1>1, <1>4, <1>7, <1>8, <1>9, <1>10 DEF OneReportPending, Inserted, SessionsOf
<1>12. TypeOK'
  <2>1. queue' \in Seq([sess : Sessions, due : 0 .. Longest]) /\ started' \in 0 .. N
    BY <1>1, <1>7, Constants DEF Inserted, Events
  <2> QED BY <1>1, <2>1 DEF TypeOK, QueueInv, stats
<1> QED BY <1>1, <1>3, <1>4, <1>7, <1>11, <1>12 DEF QueueInv, Listeners, stats

(* A report is sent, and the session's next one takes its place in the queue. *)
LEMMA HandleQueue ==
  ASSUME QueueInv, HandleEvent
  PROVE  /\ QueueInv'
         /\ \E e \in Events, p \in 1 .. Len(Descheduled) + 1 :
              e.sess = queue[1].sess /\ Inserted(Descheduled, e, queue', p)
<1>1. /\ Sleeping /\ UNCHANGED <<started, members, senders, readable, quiet, alive>>
  BY DEF HandleEvent
<1> DEFINE s == queue[1].sess
<1>2. PICK draw \in Draws : queue' = Schedule(Descheduled, Event(s, draw))
  BY DEF HandleEvent
<1>3. initial' = [initial EXCEPT ![s] = FALSE] /\ gap' = [gap EXCEPT ![s] = 0]
  BY DEF HandleEvent
<1>4. s \in Sessions /\ Len(queue) \in Nat
  BY <1>1, HeadIs, QueueIs DEF QueueInv
<1> HIDE DEF s
<1> DEFINE e == Event(s, draw)
<1>5. e \in Events /\ e.sess = s
  BY <1>4, EventTyped
<1>6. queue' = Schedule(Descheduled, e)
  BY <1>2
<1> HIDE DEF e
<1>7. Descheduled \in Seq(Events) /\ Len(Descheduled) = Len(queue) - 1
      /\ SessionsOf(Descheduled) \cup {s}
           = SessionsOf(queue)
  BY <1>1, Rest DEF s
<1>8. PICK p \in 1 .. Len(Descheduled) + 1 : Inserted(Descheduled, e, queue', p)
  BY <1>5, <1>6, <1>7, ScheduleInserts
<1>9. SessionsOf(queue') = SessionsOf(queue)
  BY <1>5, <1>7, <1>8, InsertedSessions
<1>10. OneReportPending'
  <2>1. Len(queue') = Len(queue)
    BY <1>4, <1>7, <1>8 DEF Inserted
  <2> QED BY <1>1, <1>9, <2>1 DEF QueueInv, OneReportPending, SessionsOf
<1>11. TypeOK'
  <2>1. queue' \in Seq([sess : Sessions, due : 0 .. Longest])
    BY <1>8 DEF Inserted, Events
  <2>2. initial' \in [Sessions -> BOOLEAN]
    BY <1>3, <1>4 DEF QueueInv, TypeOK
  <2>3. gap' \in [Sessions -> 0 .. Limit]
    <3>1. 0 \in 0 .. Limit
      BY Constants
    <3> QED BY <1>3, <1>4, <3>1 DEF QueueInv, TypeOK
  <2> QED BY <1>1, <2>1, <2>2, <2>3 DEF TypeOK, QueueInv
<1>12. Listeners'
  BY <1>1 DEF QueueInv, Listeners
<1> QED BY <1>5, <1>8, <1>10, <1>11, <1>12 DEF QueueInv, s

(* A second brings every event nearer, and changes no other thing of it. *)
LEMMA TickQueue ==
  ASSUME QueueInv, Tick
  PROVE  /\ QueueInv' /\ Sleeping /\ Len(queue') = Len(queue) /\ queue[1].due > 0
         /\ \A i \in 1 .. Len(queue) :
              /\ queue'[i].sess = queue[i].sess
              /\ queue'[i].due = IF queue[i].due > 0 THEN queue[i].due - 1 ELSE 0
         /\ \A s \in Sessions : gap'[s] \in Nat /\ gap'[s] <= gap[s] + 1
<1>1. /\ Sleeping /\ queue[1].due > 0
      /\ UNCHANGED <<started, stats, readable, alive>>
      /\ gap' = [s \in Sessions |-> IF gap[s] < Limit THEN gap[s] + 1 ELSE Limit]
  BY DEF Tick
<1> DEFINE d(i) == IF queue[i].due > 0 THEN queue[i].due - 1 ELSE 0
<1>2. queue' = [i \in DOMAIN queue |-> [queue[i] EXCEPT !.due = d(i)]]
  BY DEF Tick
<1>3. /\ Len(queue) \in Nat /\ DOMAIN queue = 1 .. Len(queue)
      /\ \A i \in 1 .. Len(queue) : /\ queue[i] \in Events
                                    /\ queue[i].due \in Nat /\ queue[i].due <= Longest
  BY QueueIs DEF QueueInv
<1>4. \A i \in 1 .. Len(queue) : d(i) \in 0 .. Longest
  BY <1>3, IntervalBound
<1> HIDE DEF d
<1>5. ASSUME NEW i \in 1 .. Len(queue)
      PROVE  queue'[i] \in Events /\ queue'[i].sess = queue[i].sess /\ queue'[i].due = d(i)
  <2>1. queue'[i] = [queue[i] EXCEPT !.due = d(i)]
    BY <1>2, <1>3
  <2> QED BY <1>3, <1>4, <2>1 DEF Events
<1>6. queue' \in Seq(Events) /\ Len(queue') = Len(queue)
  <2>1. queue' \in [1 .. Len(queue) -> Events]
    BY <1>2, <1>3, <1>5
  <2> QED BY <1>3, <2>1, SeqDef, LenProperties
<1>7. OneReportPending'
  <2>1. DOMAIN queue' = 1 .. Len(queue)
    BY <1>2, <1>3
  <2>2. {queue'[i].sess : i \in DOMAIN queue'} = {queue[i].sess : i \in DOMAIN queue}
    BY <1>3, <1>5, <2>1
  <2> QED BY <1>1, <1>6, <2>2 DEF QueueInv, OneReportPending, Sleeping
<1>8. ASSUME NEW s \in Sessions
      PROVE  gap'[s] \in Nat /\ gap'[s] <= gap[s] + 1 /\ gap'[s] <= Limit
  <2>1. gap[s] \in Nat /\ gap[s] <= Limit /\ Limit \in Nat
    BY Constants DEF QueueInv, TypeOK
  <2>2. gap'[s] = IF gap[s] < Limit THEN gap[s] + 1 ELSE Limit
    BY <1>1
  <2> QED BY <2>1, <2>2
<1>9. TypeOK'
  <2>1. queue' \in Seq([sess : Sessions, due : 0 .. Longest])
    BY <1>6 DEF Events
  <2>2. gap' \in [Sessions -> 0 .. Limit]
    <3>1. \A s \in Sessions : gap'[s] \in 0 .. Limit
      BY <1>8, Constants
    <3> QED BY <1>1, <3>1
  <2> QED BY <1>1, <2>1, <2>2 DEF TypeOK, QueueInv, stats
<1>10. Listeners'
  BY <1>1 DEF QueueInv, Listeners, stats
<1> QED BY <1>1, <1>5, <1>6, <1>7, <1>8, <1>9, <1>10 DEF QueueInv, d

(* Packets bring new members, of which this client is not counted as a sender. *)
LEMMA ReceiveQueue ==
  ASSUME QueueInv, Receive
  PROVE  QueueInv' /\ UNCHANGED <<queue, started, alive, gap>>
<1>1. UNCHANGED <<queue, started, initial, quiet, alive, gap>> /\ readable' = {}
  BY DEF Receive
<1>2. PICK new \in SUBSET {s \in readable \cap Growing : members[s] < MaxMembers} :
        \E sr \in SUBSET new :
          /\ members' = [s \in Sessions |-> members[s] + (IF s \in new THEN 1 ELSE 0)]
          /\ senders' = [s \in Sessions |-> senders[s] + (IF s \in sr THEN 1 ELSE 0)]
  BY DEF Receive
<1>3. PICK sr \in SUBSET new :
        /\ members' = [s \in Sessions |-> members[s] + (IF s \in new THEN 1 ELSE 0)]
        /\ senders' = [s \in Sessions |-> senders[s] + (IF s \in sr THEN 1 ELSE 0)]
  BY <1>2
<1>4. ASSUME NEW s \in Sessions
      PROVE  /\ members'[s] \in 1 .. MaxMembers /\ senders'[s] \in 0 .. MaxMembers
             /\ senders'[s] < members'[s]
  <2>1. /\ members[s] \in Nat /\ 1 <= members[s] /\ members[s] <= MaxMembers
        /\ senders[s] \in Nat /\ senders[s] < members[s] /\ MaxMembers \in Nat
    BY Constants DEF QueueInv, TypeOK, Listeners
  <2>2. /\ members'[s] = members[s] + (IF s \in new THEN 1 ELSE 0)
        /\ senders'[s] = senders[s] + (IF s \in sr THEN 1 ELSE 0)
    BY <1>3
  <2>3. (s \in new => members[s] < MaxMembers) /\ (s \in sr => s \in new)
    BY <1>2, <1>3
  <2> QED BY <2>1, <2>2, <2>3
<1>5. members' \in [Sessions -> 1 .. MaxMembers] /\ senders' \in [Sessions -> 0 .. MaxMembers]
  BY <1>3, <1>4
<1>6. TypeOK'
  BY <1>1, <1>5 DEF TypeOK, QueueInv
<1>7. OneReportPending' /\ Listeners'
  BY <1>1, <1>4 DEF QueueInv, OneReportPending, Listeners
<1> QED BY <1>1, <1>6, <1>7 DEF QueueInv

(* The other steps leave the queue alone, or free it. *)
LEMMA OtherQueue ==
  ASSUME QueueInv
  PROVE  /\ Cancel => QueueInv' /\ UNCHANGED <<started, gap>> /\ ~ alive'
         /\ \A s \in Sessions : Arrive(s) =>
              QueueInv' /\ UNCHANGED <<queue, started, alive, gap>>
         /\ UNCHANGED vars => QueueInv' /\ UNCHANGED <<queue, started, alive, gap>>
<1>1. ASSUME Cancel PROVE QueueInv' /\ UNCHANGED <<started, gap>> /\ ~ alive'
  <2>1. /\ alive' = FALSE /\ queue' = <<>> /\ UNCHANGED <<started, stats, readable, quiet, gap>>
    BY <1>1 DEF Cancel
  <2>2. queue' \in Seq([sess : Sessions, due : 0 .. Longest])
    BY <2>1
  <2>3. TypeOK'
    BY <2>1, <2>2 DEF TypeOK, QueueInv, stats
  <2> QED BY <2>1, <2>3 DEF QueueInv, OneReportPending, Listeners, stats
<1>2. ASSUME NEW s \in Sessions, Arrive(s)
      PROVE  QueueInv' /\ UNCHANGED <<queue, started, alive, gap>>
  <2>1. /\ UNCHANGED <<queue, started, members, senders, initial, alive, gap>>
        /\ readable' = readable \cup {s}
    BY <1>2 DEF Arrive, stats
  <2>2. TypeOK'
    BY <2>1 DEF TypeOK, QueueInv
  <2> QED BY <2>1, <2>2 DEF QueueInv, OneReportPending, Listeners
<1>3. ASSUME UNCHANGED vars PROVE QueueInv' /\ UNCHANGED <<queue, started, alive, gap>>
  BY <1>3 DEF vars, stats, QueueInv, TypeOK, OneReportPending, Listeners
<1> QED BY <1>1, <1>2, <1>3

(* QueueInv is inductive. *)
LEMMA QueueStep == QueueInv /\ [Next]_vars => QueueInv'
<1> SUFFICES ASSUME QueueInv, [Next]_vars PROVE QueueInv'
  OBVIOUS
<1>1. CASE Start
  BY <1>1, StartQueue
<1>2. CASE HandleEvent
  BY <1>2, HandleQueue
<1>3. CASE Receive
  BY <1>3, ReceiveQueue
<1>4. CASE Tick
  BY <1>4, TickQueue
<1>5. CASE Cancel \/ Cancelled \/ (\E s \in Sessions : Arrive(s)) \/ UNCHANGED vars
  BY <1>5, OtherQueue DEF Cancelled
<1> QED BY <1>1, <1>2, <1>3, <1>4, <1>5 DEF Next

(* The thread starts with no event. *)
LEMMA QueueInit == Init => QueueInv /\ NotYet /\ Delays
<1> SUFFICES ASSUME Init PROVE QueueInv /\ NotYet /\ Delays
  OBVIOUS
<1>1. queue = <<>> /\ Len(queue) = 0 /\ DOMAIN queue = {} /\ started = 0
  BY DEF Init
<1>2. TypeOK
  <2>1. queue \in Seq([sess : Sessions, due : 0 .. Longest])
    BY <1>1
  <2>2. 1 \in 1 .. MaxMembers /\ 0 \in 0 .. MaxMembers /\ 0 \in 0 .. N /\ 0 \in 0 .. Limit
    BY Constants
  <2> QED BY <2>1, <2>2 DEF Init, TypeOK
<1>3. OneReportPending
  <2>1. {queue[i].sess : i \in DOMAIN queue} = {} /\ 1 .. 0 = {}
    BY <1>1
  <2> QED BY <1>1, <2>1 DEF OneReportPending
<1>4. Listeners /\ NotYet
  BY DEF Init, Listeners, NotYet
<1>5. Delays
  BY <1>1 DEF Delays, OnTime
<1> QED BY <1>2, <1>3, <1>4, <1>5 DEF QueueInv

(* For any number of sessions, intervals and members, and whatever order the events were
   inserted and handled in: every session that was started has exactly one report
   pending, as long as the thread lives. *)
THEOREM ReportsPending == Spec => []QueueOK
<1>1. QueueInv => QueueOK
  BY DEF QueueInv, QueueOK
<1> QED BY <1>1, QueueInit, QueueStep, PTL DEF Spec

-----------------------------------------------------------------------------
(* The delays.                                                             *)

(* Waiting times and times due, in whole seconds. *)
Seconds(n, w, d) == \A i \in 1 .. n : w[i] \in Nat /\ d[i] \in Nat /\ d[i] <= Longest

(* v and f are w and d without their first and with a new event at place p, before one
   that is not earlier; no other has waited longer. *)
Moved(n, p, w, d, v, f) ==
  /\ v[p] = 0
  /\ \A i \in 1 .. p - 1 : f[i] = d[i + 1] /\ v[i] <= w[i + 1]
  /\ \A i \in p + 1 .. n : f[i] = d[i] /\ v[i] <= w[i]
  /\ \/ p = n
     \/ p = 1 /\ \E j \in 2 .. 3 : j \in 2 .. n /\ f[p] <= d[j]
     \/ p >= 3 /\ p < n /\ f[p] <= d[p + 1]

(* A new event takes place p among the others when the first is
   handled: those before p move up, and none waits longer. *)
LEMMA InsertOnTime ==
  ASSUME NEW n \in Nat, NEW p \in 1 .. n, NEW w, NEW d, NEW v, NEW f,
         Seconds(n, w, d), Seconds(n, v, f), OnTime(n, w, d), Moved(n, p, w, d, v, f)
  PROVE  OnTime(n, v, f)
<1>1. Longest \in Nat
  BY IntervalBound
<1>2. \A i \in 1 .. n : /\ w[i] \in Nat /\ d[i] \in Nat /\ d[i] <= Longest
                        /\ v[i] \in Nat /\ f[i] \in Nat /\ f[i] <= Longest
  BY DEF Seconds
<1>3. \A i \in 1 .. n : w[i] <= 2 * Longest /\ (d[i] = 0 \/ w[i] + d[i] <= Longest)
  BY DEF OnTime
<1>4. \A i \in 3 .. n : \A j \in 1 .. i - 1 : w[i] + d[j] <= Longest
  BY DEF OnTime
<1>5. n >= 2 => w[2] + d[1] <= 2 * Longest
  BY DEF OnTime
<1>6. n >= 3 => w[2] + d[3] <= 2 * Longest
  BY DEF OnTime
<1>7. v[p] = 0
  BY DEF Moved
<1>8. \A i \in 1 .. p - 1 : f[i] = d[i + 1] /\ v[i] <= w[i + 1]
  BY DEF Moved
<1>9. \A i \in p + 1 .. n : f[i] = d[i] /\ v[i] <= w[i]
  BY DEF Moved
<1>10. \/ p = n
       \/ p = 1 /\ \E j \in 2 .. 3 : j \in 2 .. n /\ f[p] <= d[j]
       \/ p >= 3 /\ p < n /\ f[p] <= d[p + 1]
  BY DEF Moved
<1>11. \A i \in 1 .. n : i = p \/ (i \in 1 .. p - 1 /\ i + 1 \in 2 .. n)
                              \/ (i \in p + 1 .. n /\ i >= 2)
  OBVIOUS
<1>12. ASSUME NEW i \in 1 .. n
      PROVE  v[i] <= 2 * Longest /\ (f[i] = 0 \/ v[i] + f[i] <= Longest)
  <2>1. CASE i = p
    BY <1>1, <1>2, <1>7, <2>1
  <2>2. CASE i \in 1 .. p - 1 /\ i + 1 \in 2 .. n
    <3>1. i + 1 \in 1 .. n
      BY <2>2
    <3>2. f[i] = d[i + 1] /\ v[i] <= w[i + 1]
      BY <1>8, <2>2
    <3> QED BY <1>1, <1>2, <1>3, <3>1, <3>2
  <2>3. CASE i \in p + 1 .. n
    <3>1. f[i] = d[i] /\ v[i] <= w[i]
      BY <1>9, <2>3
    <3> QED BY <1>1, <1>2, <1>3, <3>1
  <2> QED BY <1>11, <2>1, <2>2, <2>3
<1>13. ASSUME NEW i \in 3 .. n, NEW j \in 1 .. i - 1
      PROVE  v[i] + f[j] <= Longest
  <2>1. /\ i \in 1 .. n /\ j \in 1 .. n /\ 3 <= i /\ j < i
        /\ v[i] \in Nat /\ f[j] \in Nat /\ f[j] <= Longest
    BY <1>2
  <2>2. CASE i = p
    BY <1>1, <1>7, <2>1, <2>2
  <2>3. CASE i \in 1 .. p - 1
    <3>1. j \in 1 .. p - 1 /\ i + 1 \in 3 .. n /\ j + 1 \in 1 .. (i + 1) - 1
      BY <2>1, <2>3
    <3>2. f[j] = d[j + 1] /\ v[i] <= w[i + 1]
      BY <1>8, <2>3, <3>1
    <3>3. w[i + 1] + d[j + 1] <= Longest
      BY <1>4, <3>1
    <3>4. w[i + 1] \in Nat /\ d[j + 1] \in Nat
      <4>1. i + 1 \in 1 .. n /\ j + 1 \in 1 .. n
        BY <2>1, <3>1
      <4> QED BY <1>2, <4>1
    <3> QED BY <1>1, <2>1, <3>2, <3>3, <3>4
  <2>4. CASE i \in p + 1 .. n
    <3>1. f[i] = d[i] /\ v[i] <= w[i] /\ w[i] \in Nat /\ d[i] \in Nat
      BY <1>2, <1>9, <2>1, <2>4
    <3>2. w[i] + d[1] <= Longest /\ d[1] \in Nat
      <4>1. 1 \in 1 .. i - 1 /\ 1 \in 1 .. n
        BY <2>1
      <4> QED BY <1>2, <1>4, <4>1
    <3>3. d[i] = 0 \/ w[i] + d[i] <= Longest
      BY <1>3, <2>1
    <3>4. CASE j \in p + 1 .. n
      <4>1. f[j] = d[j] /\ w[i] + d[j] <= Longest /\ d[j] \in Nat
        BY <1>2, <1>4, <1>9, <2>1, <3>4
      <4> QED BY <1>1, <2>1, <3>1, <4>1
    <3>5. CASE j \in 1 .. p - 1
      <4>1. /\ f[j] = d[j + 1] /\ j + 1 \in 1 .. i - 1 /\ j + 1 \in 1 .. n
        BY <1>8, <2>1, <2>4, <3>5
      <4>2. w[i] + d[j + 1] <= Longest /\ d[j + 1] \in Nat
        BY <1>2, <1>4, <4>1
      <4> QED BY <1>1, <2>1, <3>1, <4>1, <4>2
    <3>6. CASE j = p
      <4>1. \E k \in 1 .. n : k <= i /\ f[p] <= d[k]
        <5>1. CASE p = 1 /\ \E k \in 2 .. 3 : k \in 2 .. n /\ f[p] <= d[k]
          <6>1. PICK k \in 2 .. 3 : k \in 2 .. n /\ f[p] <= d[k]
            BY <5>1
          <6> QED BY <2>1, <6>1
        <5>2. CASE p >= 3 /\ p < n /\ f[p] <= d[p + 1]
          <6>1. p + 1 \in 1 .. n /\ p + 1 <= i
            BY <2>4, <5>2
          <6> QED BY <5>2, <6>1
        <5>3. p # n
          BY <2>4
        <5> QED BY <1>10, <5>1, <5>2, <5>3
      <4>2. PICK k \in 1 .. n : k <= i /\ f[p] <= d[k]
        BY <4>1
      <4>3. d[k] \in Nat /\ f[p] \in Nat
        BY <1>2
      <4>4. CASE k = i
        BY <1>1, <2>1, <3>1, <3>2, <3>3, <3>6, <4>2, <4>3, <4>4
      <4>5. CASE k # i
        <5>1. k \in 1 .. i - 1
          BY <2>1, <4>2, <4>5
        <5>2. w[i] + d[k] <= Longest
          BY <1>4, <5>1
        <5> QED BY <1>1, <2>1, <3>1, <3>6, <4>2, <4>3, <5>2
      <4> QED BY <4>4, <4>5
    <3>7. j = p \/ j \in 1 .. p - 1 \/ j \in p + 1 .. n
      BY <2>1
    <3> QED BY <3>4, <3>5, <3>6, <3>7
  <2> QED BY <1>11, <2>1, <2>2, <2>3, <2>4
<1>14. ASSUME n >= 2
       PROVE  v[2] + f[1] <= 2 * Longest /\ (n >= 3 => v[2] + f[3] <= 2 * Longest)
  <2>1. 1 \in 1 .. n /\ 2 \in 1 .. n /\ (n >= 3 => 3 \in 1 .. n)
    BY <1>14
  <2>2. /\ v[2] \in Nat /\ f[1] \in Nat /\ f[1] <= Longest
        /\ n >= 3 => f[3] \in Nat /\ f[3] <= Longest
    BY <1>2, <2>1
  <2>3. CASE v[2] <= Longest
    BY <1>1, <2>2, <2>3
  <2>4. CASE ~ (v[2] <= Longest)
    <3>1. p = 1
      <4>1. ~ (p = 2)
        BY <1>1, <1>7, <2>4
      <4>2. ~ (p >= 3)
        <5> SUFFICES ASSUME p >= 3 PROVE FALSE
          OBVIOUS
        <5>1. 2 \in 1 .. p - 1 /\ 2 + 1 = 3 /\ 3 \in 3 .. n /\ 1 \in 1 .. 3 - 1 /\ 3 \in 1 .. n
          OBVIOUS
        <5>2. v[2] <= w[3]
          BY <1>8, <5>1
        <5>3. w[3] + d[1] <= Longest /\ w[3] \in Nat /\ d[1] \in Nat
          BY <1>2, <1>4, <2>1, <5>1
        <5> QED BY <1>1, <2>2, <2>4, <5>2, <5>3
      <4> QED BY <4>1, <4>2
    <3>2. v[2] <= w[2] /\ w[2] \in Nat /\ d[2] \in Nat /\ (n >= 3 => f[3] = d[3] /\ d[3] \in Nat)
      <4>1. 2 \in p + 1 .. n /\ (n >= 3 => 3 \in p + 1 .. n)
        BY <1>14, <3>1
      <4> QED BY <1>2, <1>9, <2>1, <4>1
    <3>3. n >= 3 => v[2] + f[3] <= 2 * Longest
      BY <1>1, <1>6, <2>2, <3>2
    <3>4. d[2] = 0 /\ w[2] <= 2 * Longest
      BY <1>1, <1>3, <2>1, <2>2, <2>4, <3>2
    <3>5. PICK j \in 2 .. 3 : j \in 2 .. n /\ f[1] <= d[j]
      BY <1>10, <1>14, <3>1
    <3>6. CASE j = 2
      BY <1>1, <2>2, <3>2, <3>3, <3>4, <3>5, <3>6
    <3>7. CASE j = 3
      <4>1. n >= 3
        BY <3>5, <3>7
      <4> QED BY <1>1, <1>6, <2>2, <3>2, <3>3, <3>5, <3>7, <4>1
    <3> QED BY <3>3, <3>5, <3>6, <3>7
  <2> QED BY <2>3, <2>4
<1> QED BY <1>12, <1>13, <1>14 DEF OnTime

(* A second passes while the first event is not due: it brings the others nearer by as
   much as they wait. *)
LEMMA TickOnTime ==
  ASSUME NEW n \in Nat, NEW w, NEW d, NEW v, NEW f,
         Seconds(n, w, d), Seconds(n, v, f), OnTime(n, w, d), n >= 1, d[1] > 0,
         \A i \in 1 .. n : v[i] <= w[i] + 1 /\ f[i] = IF d[i] > 0 THEN d[i] - 1 ELSE 0
  PROVE  OnTime(n, v, f)
<1>1. Longest \in Nat
  BY IntervalBound
<1>2. \A i \in 1 .. n : /\ w[i] \in Nat /\ d[i] \in Nat /\ d[i] <= Longest
                        /\ v[i] \in Nat /\ f[i] \in Nat /\ f[i] <= Longest
  BY DEF Seconds
<1>3. \A i \in 1 .. n : w[i] <= 2 * Longest /\ (d[i] = 0 \/ w[i] + d[i] <= Longest)
  BY DEF OnTime
<1>4. \A i \in 3 .. n : \A j \in 1 .. i - 1 : w[i] + d[j] <= Longest
  BY DEF OnTime
<1>5. n >= 2 => w[2] + d[1] <= 2 * Longest
  BY DEF OnTime
<1>6. n >= 3 => w[2] + d[3] <= 2 * Longest
  BY DEF OnTime
<1>7. 1 \in 1 .. n /\ d[1] \in Nat /\ d[1] >= 1
  <2>1. 1 \in 1 .. n
    OBVIOUS
  <2> QED BY <1>2, <2>1
<1>8. ASSUME NEW i \in 1 .. n
      PROVE  v[i] <= 2 * Longest /\ (f[i] = 0 \/ v[i] + f[i] <= Longest)
  <2>1. /\ v[i] <= w[i] + 1 /\ f[i] = IF d[i] > 0 THEN d[i] - 1 ELSE 0
        /\ d[i] = 0 \/ w[i] + d[i] <= Longest
        /\ w[i] \in Nat /\ d[i] \in Nat /\ v[i] \in Nat
    BY <1>2, <1>3
  <2>2. f[i] = 0 \/ v[i] + f[i] <= Longest
    BY <1>1, <2>1
  <2>3. CASE i = 1
    BY <1>1, <1>7, <2>1, <2>2, <2>3
  <2>4. CASE i = 2
    BY <1>1, <1>5, <1>7, <2>1, <2>2, <2>4
  <2>5. CASE i \in 3 .. n
    <3>1. 1 \in 1 .. i - 1
      BY <2>5
    <3>2. w[i] + d[1] <= Longest
      BY <1>4, <2>5, <3>1
    <3> QED BY <1>1, <1>7, <2>1, <2>2, <3>2
  <2>6. i = 1 \/ i = 2 \/ i \in 3 .. n
    OBVIOUS
  <2> QED BY <2>3, <2>4, <2>5, <2>6
<1>9. ASSUME NEW i \in 3 .. n, NEW j \in 1 .. i - 1
      PROVE  v[i] + f[j] <= Longest
  <2>1. i \in 1 .. n /\ j \in 1 .. n /\ 1 \in 1 .. i - 1
    OBVIOUS
  <2>2. /\ v[i] <= w[i] + 1 /\ f[j] = IF d[j] > 0 THEN d[j] - 1 ELSE 0
        /\ w[i] \in Nat /\ v[i] \in Nat /\ d[j] \in Nat
    BY <1>2, <2>1
  <2>3. w[i] + d[j] <= Longest /\ w[i] + d[1] <= Longest
    BY <1>4, <2>1
  <2> QED BY <1>1, <1>7, <2>2, <2>3
<1>10. ASSUME n >= 2
       PROVE  v[2] + f[1] <= 2 * Longest /\ (n >= 3 => v[2] + f[3] <= 2 * Longest)
  <2>1. 2 \in 1 .. n /\ (n >= 3 => 3 \in 1 .. n)
    BY <1>10
  <2>2. /\ v[2] <= w[2] + 1 /\ w[2] \in Nat /\ v[2] \in Nat
        /\ f[1] = d[1] - 1
        /\ n >= 3 => d[3] \in Nat /\ f[3] = IF d[3] > 0 THEN d[3] - 1 ELSE 0
    BY <1>2, <1>7, <2>1
  <2> QED BY <1>1, <1>5, <1>6, <1>7, <1>10, <2>2
<1> QED BY <1>8, <1>9, <1>10 DEF OnTime

(* Waits and Dues, read by their places. *)
LEMMA PlacesOf ==
  ASSUME NEW q \in Seq(Events), NEW g \in [Sessions -> 0 .. Limit]
  PROVE  /\ Len(q) \in Nat /\ Seconds(Len(q), Waits(q, g), Dues(q))
         /\ \A i \in 1 .. Len(q) : /\ q[i].sess \in Sessions /\ q[i].due \in Nat
                                   /\ q[i].due <= Longest
                                   /\ Waits(q, g)[i] = g[q[i].sess] /\ Dues(q)[i] = q[i].due
<1>1. Len(q) \in Nat /\ \A i \in 1 .. Len(q) : q[i] \in Events
  BY ElementOfSeq, LenProperties
<1>2. \A e \in Events : e.sess \in Sessions /\ e.due \in Nat /\ e.due <= Longest
  BY IntervalBound DEF Events
<1>3. \A s \in Sessions : g[s] \in Nat
  BY Constants
<1>4. \A i \in 1 .. Len(q) : Waits(q, g)[i] = g[q[i].sess] /\ Dues(q)[i] = q[i].due
  BY DEF Waits, Dues
<1> QED BY <1>1, <1>2, <1>3, <1>4 DEF Seconds

(* The queue and the gaps are such. *)
LEMMA QueuePlaces ==
  QueueInv => queue \in Seq(Events) /\ gap \in [Sessions -> 0 .. Limit]
BY DEF QueueInv, TypeOK, Events

(* Before the loop starts nobody waits, and an event may be put anywhere. *)
LEMMA StartDelays ==
  ASSUME QueueInv, NotYet, Start
  PROVE  NotYet' /\ Delays'
<1>1. started < N /\ UNCHANGED gap /\ QueueInv'
  BY StartQueue DEF Start
<1>2. \A s \in Sessions : gap'[s] = 0
  BY <1>1 DEF NotYet
<1>3. queue' \in Seq(Events) /\ gap' \in [Sessions -> 0 .. Limit]
  BY <1>1, QueuePlaces DEF QueueInv, TypeOK, Events
<1> DEFINE n == Len(queue')
           w == Waits(queue', gap')
           d == Dues(queue')
<1>4. n \in Nat /\ Seconds(n, w, d) /\ \A i \in 1 .. n : w[i] = 0
  BY <1>2, <1>3, PlacesOf
<1> HIDE DEF n, w, d
<1>5. Longest \in Nat /\ \A i \in 1 .. n : d[i] \in Nat /\ d[i] <= Longest
  BY <1>4, IntervalBound DEF Seconds
<1>6. \A i \in 1 .. n : w[i] <= 2 * Longest /\ w[i] + d[i] <= Longest
  BY <1>4, <1>5
<1>7. \A i \in 3 .. n : \A j \in 1 .. i - 1 : w[i] + d[j] <= Longest
  <2> SUFFICES ASSUME NEW i \in 3 .. n, NEW j \in 1 .. i - 1 PROVE w[i] + d[j] <= Longest
    OBVIOUS
  <2>1. i \in 1 .. n /\ j \in 1 .. n
    BY <1>4
  <2> QED BY <1>4, <1>5, <2>1
<1>8. (n >= 2 => w[2] + d[1] <= 2 * Longest) /\ (n >= 3 => w[2] + d[3] <= 2 * Longest)
  <2>1. n >= 2 => 1 \in 1 .. n /\ 2 \in 1 .. n
    BY <1>4
  <2>2. n >= 3 => 2 \in 1 .. n /\ 3 \in 1 .. n
    BY <1>4
  <2> QED BY <1>4, <1>5, <2>1, <2>2
<1>9. OnTime(n, w, d)
  BY <1>6, <1>7, <1>8 DEF OnTime
<1> QED BY <1>2, <1>9 DEF NotYet, Delays, n, w, d

(* A report is sent: its session waits no longer, and the others move up. *)
LEMMA HandleDelays ==
  ASSUME QueueInv, Delays, HandleEvent
  PROVE  NotYet' /\ Delays'
<1>1. Sleeping /\ QueueInv' /\ started' = started
  BY HandleQueue DEF HandleEvent
<1>2. gap' = [gap EXCEPT ![queue[1].sess] = 0]
  BY DEF HandleEvent
<1> DEFINE n == Len(queue)
           q == Descheduled
           r == queue'
<1>3. PICK e \in Events, p \in 1 .. Len(q) + 1 :
        e.sess = queue[1].sess /\ Inserted(q, e, r, p)
  BY HandleQueue
<1>4. /\ queue \in Seq(Events) /\ gap \in [Sessions -> 0 .. Limit]
      /\ r \in Seq(Events) /\ gap' \in [Sessions -> 0 .. Limit]
  BY <1>1, QueuePlaces DEF QueueInv, TypeOK, Events
<1>5. /\ n \in Nat /\ 1 \in 1 .. n /\ Len(q) = n - 1
      /\ \A i \in 1 .. n - 1 : q[i] = queue[i + 1]
  BY <1>1, <1>4, HeadIs, Rest, LenProperties
<1> DEFINE w == Waits(queue, gap)
           d == Dues(queue)
           v == Waits(r, gap')
           f == Dues(r)
<1>6. /\ Seconds(n, w, d)
      /\ \A i \in 1 .. n : /\ queue[i].sess \in Sessions
                           /\ w[i] = gap[queue[i].sess] /\ d[i] = queue[i].due
  BY <1>4, PlacesOf
<1>7. p \in 1 .. n /\ Len(r) = n
  BY <1>3, <1>5 DEF Inserted
<1>8. /\ Seconds(n, v, f)
      /\ \A i \in 1 .. n : /\ r[i].sess \in Sessions
                           /\ v[i] = gap'[r[i].sess] /\ f[i] = r[i].due
  BY <1>4, <1>7, PlacesOf
<1>9. \A s \in Sessions : gap'[s] <= gap[s] /\ (s = queue[1].sess => gap'[s] = 0)
  <2>1. \A s \in Sessions : gap[s] \in Nat
    BY <1>4, Constants
  <2> QED BY <1>2, <1>4, <2>1
<1>10. OnTime(n, w, d)
  BY DEF Delays
<1> HIDE DEF n, q, r, w, d, v, f
<1>11. /\ r[p] = e /\ \A i \in 1 .. p - 1 : r[i] = q[i]
       /\ \A i \in p + 1 .. n : r[i] = q[i - 1]
  BY <1>3, <1>5 DEF Inserted
<1>12. \/ p = n
       \/ p = 1 /\ \E j \in 1 .. 2 : j \in 1 .. n - 1 /\ e.due <= q[j].due
       \/ p >= 3 /\ p <= n - 1 /\ e.due <= q[p].due
  BY <1>3, <1>5 DEF Inserted
<1>13. v[p] = 0
  BY <1>3, <1>7, <1>8, <1>9, <1>11
<1>14. ASSUME NEW i \in 1 .. p - 1 PROVE f[i] = d[i + 1] /\ v[i] <= w[i + 1]
  <2>1. i \in 1 .. n /\ i \in 1 .. n - 1 /\ i + 1 \in 1 .. n
    BY <1>5, <1>7
  <2>2. r[i] = queue[i + 1]
    BY <1>5, <1>11, <2>1
  <2> QED BY <1>6, <1>8, <1>9, <2>1, <2>2
<1>15. ASSUME NEW i \in p + 1 .. n PROVE f[i] = d[i] /\ v[i] <= w[i]
  <2>1. i \in 1 .. n /\ i - 1 \in 1 .. n - 1 /\ (i - 1) + 1 = i
    BY <1>5, <1>7
  <2>2. r[i] = queue[i]
    BY <1>5, <1>11, <2>1
  <2> QED BY <1>6, <1>8, <1>9, <2>1, <2>2
<1>16. \/ p = n
       \/ p = 1 /\ \E j \in 2 .. 3 : j \in 2 .. n /\ f[p] <= d[j]
       \/ p >= 3 /\ p < n /\ f[p] <= d[p + 1]
  <2>1. f[p] = e.due
    BY <1>7, <1>8, <1>11
  <2>2. ASSUME NEW j \in 1 .. n - 1
        PROVE  q[j].due = d[j + 1] /\ j + 1 \in 2 .. n
    <3>1. j + 1 \in 1 .. n
      BY <1>5
    <3> QED BY <1>5, <1>6, <3>1
  <2>3. CASE p = 1 /\ \E j \in 1 .. 2 : j \in 1 .. n - 1 /\ e.due <= q[j].due
    <3>1. PICK j \in 1 .. 2 : j \in 1 .. n - 1 /\ e.due <= q[j].due
      BY <2>3
    <3>2. j + 1 \in 2 .. 3 /\ j + 1 \in 2 .. n /\ f[p] <= d[j + 1]
      BY <2>1, <2>2, <3>1
    <3> QED BY <2>3, <3>2
  <2>4. CASE p >= 3 /\ p <= n - 1 /\ e.due <= q[p].due
    <3>1. p \in 1 .. n - 1 /\ p < n
      BY <1>5, <1>7, <2>4
    <3> QED BY <2>1, <2>2, <2>4, <3>1
  <2> QED BY <1>12, <2>3, <2>4
<1>17. Moved(n, p, w, d, v, f)
  BY <1>13, <1>14, <1>15, <1>16 DEF Moved
<1>18. OnTime(n, v, f)
  BY <1>5, <1>6, <1>7, <1>8, <1>10, <1>17, InsertOnTime
<1>19. NotYet'
  BY <1>1, Constants DEF Sleeping, NotYet
<1> QED BY <1>7, <1>18, <1>19 DEF Delays, r, v, f

(* A second passes: the reports that wait are brought as much nearer as they wait. *)
LEMMA TickDelays ==
  ASSUME QueueInv, Delays, Tick
  PROVE  NotYet' /\ Delays'
<1> DEFINE n == Len(queue)
<1>1. /\ QueueInv' /\ Sleeping /\ Len(queue') = n /\ queue[1].due > 0
      /\ \A i \in 1 .. n :
           /\ queue'[i].sess = queue[i].sess
           /\ queue'[i].due = IF queue[i].due > 0 THEN queue[i].due - 1 ELSE 0
      /\ \A s \in Sessions : gap'[s] \in Nat /\ gap'[s] <= gap[s] + 1
  BY TickQueue
<1>2. /\ queue \in Seq(Events) /\ gap \in [Sessions -> 0 .. Limit]
      /\ queue' \in Seq(Events) /\ gap' \in [Sessions -> 0 .. Limit]
  BY <1>1, QueuePlaces DEF QueueInv, TypeOK, Events
<1> DEFINE w == Waits(queue, gap)
           d == Dues(queue)
           v == Waits(queue', gap')
           f == Dues(queue')
<1>3. /\ n \in Nat /\ Seconds(n, w, d)
      /\ \A i \in 1 .. n : /\ queue[i].sess \in Sessions
                           /\ w[i] = gap[queue[i].sess] /\ d[i] = queue[i].due
  BY <1>2, PlacesOf
<1>4. /\ Seconds(n, v, f)
      /\ \A i \in 1 .. n : v[i] = gap'[queue'[i].sess] /\ f[i] = queue'[i].due
  BY <1>1, <1>2, PlacesOf
<1>5. OnTime(n, w, d)
  BY DEF Delays
<1>6. 1 \in 1 .. n
  BY <1>1, HeadIs
<1> HIDE DEF n, w, d, v, f
<1>7. \A i \in 1 .. n : v[i] <= w[i] + 1 /\ f[i] = IF d[i] > 0 THEN d[i] - 1 ELSE 0
  BY <1>1, <1>3, <1>4
<1>8. n >= 1 /\ d[1] > 0
  BY <1>1, <1>3, <1>6
<1>9. OnTime(n, v, f)
  BY <1>3, <1>4, <1>5, <1>7, <1>8, TickOnTime
<1>10. NotYet'
  BY <1>1, Constants DEF Tick, Sleeping, NotYet
<1> QED BY <1>1, <1>9, <1>10 DEF Delays, v, f

(* DelayInv is inductive. *)
LEMMA DelayStep == DelayInv /\ [Next]_vars => DelayInv'
<1> SUFFICES ASSUME DelayInv, [Next]_vars PROVE DelayInv'
  OBVIOUS
<1>1. QueueInv /\ NotYet /\ (alive => Delays) /\ QueueInv'
  BY QueueStep DEF DelayInv
<1>2. ASSUME UNCHANGED <<queue, started, alive, gap>> PROVE NotYet' /\ (alive' => Delays')
  BY <1>1, <1>2 DEF NotYet, Delays
<1>3. CASE Start
  BY <1>1, <1>3, StartDelays DEF DelayInv
<1>4. CASE HandleEvent
  BY <1>1, <1>4, HandleDelays DEF DelayInv, HandleEvent, Sleeping
<1>5. CASE Tick
  BY <1>1, <1>5, TickDelays DEF DelayInv, Tick, Sleeping
<1>6. CASE Receive
  BY <1>1, <1>2, <1>6, ReceiveQueue DEF DelayInv
<1>7. CASE Cancel
  <2>1. UNCHANGED <<started, gap>> /\ ~ alive'
    BY <1>1, <1>7, OtherQueue
  <2> QED BY <1>1, <2>1 DEF DelayInv, NotYet
<1>8. CASE Cancelled \/ (\E s \in Sessions : Arrive(s)) \/ UNCHANGED vars
  <2>1. UNCHANGED <<queue, started, alive, gap>>
    BY <1>1, <1>8, OtherQueue DEF Cancelled
  <2> QED BY <1>1, <1>2, <2>1 DEF DelayInv
<1> QED BY <1>3, <1>4, <1>5, <1>6, <1>7, <1>8 DEF Next

(* Whoever waits has an event in the queue, and is on time. *)
LEMMA OnTimeBounds == DelayInv => DelayBounded
<1> SUFFICES ASSUME DelayInv, NEW s \in Sessions, alive PROVE gap[s] <= 2 * Longest
  BY DEF DelayBounded
<1>1. QueueInv /\ NotYet /\ Delays /\ Longest \in Nat
  BY IntervalBound DEF DelayInv
<1>2. CASE started < N
  BY <1>1, <1>2 DEF NotYet
<1>3. CASE ~ (started < N)
  <2>1. Sleeping
    BY <1>1, <1>3, Constants DEF Sleeping, QueueInv, TypeOK
  <2>2. queue \in Seq(Events) /\ gap \in [Sessions -> 0 .. Limit]
    BY <1>1, QueuePlaces
  <2>3. PICK i \in 1 .. Len(queue) : queue[i].sess = s
    <3>1. s \in SessionsOf(queue)
      BY <1>1, <2>1, HeadIs
    <3> QED BY <2>2, <3>1, LenProperties DEF SessionsOf
  <2>4. Waits(queue, gap)[i] = gap[s]
    BY <2>2, <2>3, PlacesOf
  <2>5. Waits(queue, gap)[i] <= 2 * Longest
    BY <1>1 DEF Delays, OnTime
  <2> QED BY <2>4, <2>5
<1> QED BY <1>2, <1>3

(* For any number of sessions, intervals and members: a report is delayed by the others,
   however they were inserted, by no more than the interval of one of them. *)
THEOREM DelaysBounded == Spec => []DelayBounded
<1>1. Init => DelayInv
  BY QueueInit DEF DelayInv
<1> QED BY <1>1, DelayStep, OnTimeBounds, PTL DEF Spec
=============================================================================
