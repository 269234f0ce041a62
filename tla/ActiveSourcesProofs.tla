------------------------ MODULE ActiveSourcesProofs ------------------------
(* Proofs about ActiveSources: the active queue has the sources validated, each
   once, and the statistics and the report blocks count what the senders count. *)
EXTENDS ActiveSources, WellFoundedInduction, FiniteSetTheorems, SequenceTheorems, TLAPS

-----------------------------------------------------------------------------
(* Numbers.                                                                *)

(* A non-empty set of natural numbers has a least one: the counterexample a search
   through a queue, or the turns of a loop, would meet first. *)
LEMMA LeastNat ==
  ASSUME NEW T \in SUBSET Nat, T # {}
  PROVE  \E m \in T : \A k \in T : m <= k
<1> DEFINE R == OpToRel(<, Nat)
<1>1. IsWellFoundedOn(R, Nat)
  BY NatLessThanWellFounded
<1>2. \A x, y \in Nat : x < y => <<x, y>> \in R
  BY DEF OpToRel
<1> HIDE DEF R
<1>3. PICK m \in T : \A k \in T : ~ (<<k, m>> \in R)
  BY <1>1, WFMin
<1>4. \A x, y \in Nat : ~ (x < y) => y <= x
  OBVIOUS
<1> QED BY <1>2, <1>3, <1>4

(* A set of numbers that has 0 and, up to n, the successor of each member has all
   of them up to n: induction, for a property that is given by a set. *)
LEMMA UpTo ==
  ASSUME NEW n \in Nat, NEW T, 0 \in T, \A k \in 0 .. n - 1 : k \in T => k + 1 \in T
  PROVE  0 .. n \subseteq T
<1> SUFFICES ASSUME ~ (0 .. n \subseteq T) PROVE FALSE
  OBVIOUS
<1> DEFINE B == {k \in 0 .. n : k \notin T}
<1>1. B \in SUBSET Nat /\ B # {}
  OBVIOUS
<1>2. PICK m \in B : \A k \in B : m <= k
  BY <1>1, LeastNat
<1>3. m \in Nat /\ m <= n /\ m # 0 /\ m \notin T
  BY <1>2
<1>4. m - 1 \in 0 .. n - 1 /\ m - 1 \notin B /\ (m - 1) + 1 = m
  BY <1>2, <1>3
<1>5. m - 1 \in T
  BY <1>4
<1> QED BY <1>3, <1>4, <1>5

(* g gives the states of a loop of n turns, each the successor F of the one before. *)
IsRun(g, n, S, init, F) == /\ g \in [0 .. n -> S] /\ g[0] = init
                           /\ \A k \in 1 .. n : g[k] = F[g[k - 1]]

(* A loop has its turns: for every number of them there is a run of it. *)
LEMMA Iterates ==
  ASSUME NEW S, NEW init \in S, NEW F, F \in [S -> S], NEW n \in Nat
  PROVE  \E g : IsRun(g, n, S, init, F)
<1> DEFINE Run(g, m) == IsRun(g, m, S, init, F)
           T == {m \in Nat : \E g : Run(g, m)}
<1>1. 0 \in T
  <2>1. Run([k \in 0 .. 0 |-> init], 0)
    BY DEF IsRun
  <2> QED BY <2>1
<1>2. ASSUME NEW m \in 0 .. n - 1, m \in T PROVE m + 1 \in T
  <2>1. PICK g : Run(g, m)
    BY <1>2
  <2> DEFINE h == [k \in 0 .. m + 1 |-> IF k = m + 1 THEN F[g[m]] ELSE g[k]]
  <2>2. /\ m \in Nat /\ g[m] \in S /\ \A k \in 0 .. m : g[k] \in S
        /\ g[0] = init /\ \A k \in 1 .. m : g[k] = F[g[k - 1]]
    BY <2>1 DEF IsRun
  <2>3. h \in [0 .. m + 1 -> S] /\ h[0] = init
    BY <2>2
  <2>4. ASSUME NEW k \in 1 .. m + 1 PROVE h[k] = F[h[k - 1]]
    <3>1. CASE k = m + 1
      BY <2>2, <3>1
    <3>2. CASE k \in 1 .. m
      BY <2>2, <3>2
    <3> QED BY <2>2, <3>1, <3>2
  <2>5. Run(h, m + 1)
    BY <2>3, <2>4 DEF IsRun
  <2> HIDE DEF Run, h
  <2> QED BY <2>2, <2>5
<1>3. 0 .. n \subseteq T
  <2> HIDE DEF T
  <2> QED BY <1>1, <1>2, UpTo
<1>4. n \in T
  BY <1>3
<1> QED BY <1>4

-----------------------------------------------------------------------------
(* 16-bit numbers.                                                         *)

(* A number is its low 16 bits and a multiple of 65536. *)
LEMMA LowBits ==
  ASSUME NEW n \in Nat
  PROVE  \E c, x \in Int : n % 65536 = x /\ n = 65536 * c + x /\ 0 <= x /\ x < 65536
<1>1. n % 65536 \in Int /\ 0 <= n % 65536 /\ n % 65536 < 65536
  OBVIOUS
<1> DEFINE c == n \div 65536
           x == n % 65536
<1>2. c \in Int
  OBVIOUS
<1>3. x = n - 65536 * c
  OBVIOUS
<1>4. n % 65536 = x
  OBVIOUS
<1> HIDE DEF c, x
<1>5. x \in Int /\ 0 <= x /\ x < 65536
  BY <1>1, <1>4
<1>6. n = 65536 * c + x
  BY <1>2, <1>3
<1> QED BY <1>2, <1>4, <1>5, <1>6

(* Two numbers less than a cycle apart are in the same one or in adjacent ones. *)
LEMMA Adjacent ==
  ASSUME NEW c \in Int, NEW d \in Int, NEW x \in Int, NEW y \in Int,
         0 <= x, x < 65536, 0 <= y, y < 65536,
         65536 * c + x < 65536 * d + y + 65536, 65536 * d + y < 65536 * c + x + 65536
  PROVE  c = d \/ c = d + 1 \/ d = c + 1
OBVIOUS

(* The difference of two 16-bit numbers, as a 16-bit number. *)
LEMMA Short ==
  ASSUME NEW x \in Int, NEW y \in Int, 0 <= x, x < 65536, 0 <= y, y < 65536
  PROVE  (x - y) % 65536 = IF x - y < 0 THEN x - y + 65536 ELSE x - y
OBVIOUS

(* The distance of two numbers up to a cycle apart, from their low 16 bits. Where
   these start again between t and a later n, the cycles advance by one, and nowhere
   else. *)
LEMMA ShortDistance ==
  ASSUME NEW n \in Nat, NEW t \in Nat, t - 65536 < n, n < t + 65536
  PROVE  /\ ((n % 65536) - (t % 65536)) % 65536 = IF n < t THEN n - t + 65536 ELSE n - t
         /\ t <= n =>
              n - (n % 65536) =
                t - (t % 65536) + (IF n % 65536 < t % 65536 THEN 65536 ELSE 0)
<1>1. PICK c, x \in Int : n % 65536 = x /\ n = 65536 * c + x /\ 0 <= x /\ x < 65536
  BY LowBits
<1>2. PICK d, y \in Int : t % 65536 = y /\ t = 65536 * d + y /\ 0 <= y /\ y < 65536
  BY LowBits
<1>3. (x - y) % 65536 = IF x - y < 0 THEN x - y + 65536 ELSE x - y
  BY <1>1, <1>2, Short
<1>4. c = d \/ c = d + 1 \/ d = c + 1
  <2>1. 65536 * c + x < 65536 * d + y + 65536 /\ 65536 * d + y < 65536 * c + x + 65536
    BY <1>1, <1>2
  <2> QED BY <1>1, <1>2, <2>1, Adjacent
<1>5. (x - y) % 65536 = IF n < t THEN n - t + 65536 ELSE n - t
  BY <1>1, <1>2, <1>3, <1>4
<1>6. t <= n => n - x = t - y + (IF x < y THEN 65536 ELSE 0)
  BY <1>1, <1>2, <1>4
<1>7. n % 65536 = x /\ t % 65536 = y
  BY <1>1, <1>2
<1> QED BY <1>5, <1>6, <1>7

-----------------------------------------------------------------------------
Seq16 == 0 .. RTP_SEQ_MOD - 1
Words == 0 .. Word - 1

(* struct rtp_ssrc_stats, as far as it is modelled. *)
Counters == [max_seq : Seq16, cycles : Words, base_seq : Words, bad_seq : Nat,
             probation : 0 .. MIN_SEQUENTIAL, received : Nat, expected_prior : Words,
             received_prior : Nat]

(* The constants of the code. *)
LEMMA Literals ==
  /\ RTP_SEQ_MOD = 65536 /\ MIN_SEQUENTIAL = 2 /\ MAX_DROPOUT = 3000 /\ MAX_MISORDER = 100
  /\ Word \in Nat /\ 65536 <= Word
  /\ 0 \in Words /\ 1 \in Words
BY WordAssumption DEF RTP_SEQ_MOD, MIN_SEQUENTIAL, MAX_DROPOUT, MAX_MISORDER, Words

(* Short numbers and words are numbers. *)
LEMMA WordsAreNumbers ==
  /\ \A x \in Seq16 : x \in Words /\ x \in Int /\ 0 <= x /\ x < 65536
  /\ \A x \in Words : x \in Nat /\ x < Word
<1>1. Word \in Int /\ RTP_SEQ_MOD \in Int /\ RTP_SEQ_MOD = 65536 /\ RTP_SEQ_MOD <= Word
  BY Literals
<1>2. ASSUME NEW x \in Seq16 PROVE x \in Words /\ x \in Int /\ 0 <= x /\ x < 65536
  <2>1. x \in Int /\ 0 <= x /\ x <= RTP_SEQ_MOD - 1
    BY <1>1 DEF Seq16
  <2>2. x < 65536 /\ x <= Word - 1
    BY <1>1, <2>1
  <2> QED BY <1>1, <2>1, <2>2 DEF Words
<1>3. ASSUME NEW x \in Words PROVE x \in Nat /\ x < Word
  BY <1>1 DEF Words
<1> QED BY <1>2, <1>3

(* What the run assumes of its senders' numbers. *)
LEMMA Bounds ==
  /\ First \in Nat /\ Last \in Nat /\ Window \in Nat /\ MaxReceived \in Nat
  /\ Window < First /\ First <= Last /\ Window < 100 /\ None \notin Sources
BY SourcesAssumption, Literals

(* A remainder is below its modulus. *)
LEMMA Remainder ==
  ASSUME NEW n \in Int
  PROVE  SeqOf(n) \in Seq16 /\ n % RTP_SEQ_MOD \in Seq16 /\ n % Word \in Words
<1>1. \A w \in Nat \ {0} : n % w \in 0 .. w - 1
  OBVIOUS
<1>2. RTP_SEQ_MOD \in Nat \ {0} /\ Word \in Nat \ {0}
  BY Literals
<1>3. n % RTP_SEQ_MOD \in 0 .. RTP_SEQ_MOD - 1 /\ n % Word \in 0 .. Word - 1
  BY <1>1, <1>2
<1> QED BY <1>3 DEF SeqOf, Words, Seq16

(* The remainder of a number in range, and of one that is short of it. *)
LEMMA Reduced ==
  ASSUME NEW w \in Nat \ {0}, NEW n \in Int, - w <= n, n < w
  PROVE  n % w = IF n < 0 THEN n + w ELSE n
OBVIOUS

(* The distance of two numbers up to a cycle apart, from their low 16 bits. Where
   these start again between t and a later n, the cycles advance by one, and nowhere
   else. *)
LEMMA Distance ==
  ASSUME NEW n \in Nat, NEW t \in Nat, t - 65536 < n, n < t + 65536
  PROVE  /\ (SeqOf(n) - SeqOf(t)) % 65536 = IF n < t THEN n - t + 65536 ELSE n - t
         /\ t <= n =>
              n - SeqOf(n) = t - SeqOf(t) + (IF SeqOf(n) < SeqOf(t) THEN 65536 ELSE 0)
<1>1. SeqOf(n) = n % 65536 /\ SeqOf(t) = t % 65536
  BY DEF SeqOf, RTP_SEQ_MOD
<1> QED BY <1>1, ShortDistance

-----------------------------------------------------------------------------
(* The invariant.                                                          *)

(* The types of all there is; the history variables follow numbers that were sent. *)
Typed ==
  /\ stats \in [Sources -> Counters]
  /\ known \subseteq Sources
  /\ done_seek \subseteq Active
  /\ next_active \in [Sources -> Sources \cup {None}]
  /\ active_queue \in Sources \cup {None}
  /\ sent \in [Sources -> First .. Last]
  /\ base \in [Sources -> Nat]
  /\ top \in [Sources -> Nat]
  /\ told \in [Sources -> [top : Nat, got : Nat]]

(* What a source sends before it is validated is not counted. *)
Uncounted ==
  \A s \in Sources \ Active : stats[s].received = 0 /\ stats[s].received_prior = 0

(* The newest packet of a validated source is at most Window behind the newest one
   sent, so none that arrives is taken for a restart of the sender. *)
Near(s) ==
  /\ First <= base[s] /\ base[s] <= top[s] /\ top[s] <= sent[s] /\ sent[s] <= top[s] + Window
  /\ stats[s].max_seq = SeqOf(top[s])
  /\ 1 <= stats[s].received /\ stats[s].received <= MaxReceived
  /\ base[s] - 1 <= told[s].top /\ told[s].top <= top[s]
  /\ told[s].got <= stats[s].received /\ stats[s].received_prior = told[s].got

AllNear == \A s \in Active : Near(s)

(* q lists the validated sources in the order of the links. *)
Lists(q) ==
  /\ q \in Seq(Sources)
  /\ \A i, j \in 1 .. Len(q) : q[i] = q[j] => i = j
  /\ \A s \in Sources : s \in Active <=> \E i \in 1 .. Len(q) : q[i] = s
  /\ active_queue = IF Len(q) = 0 THEN None ELSE q[1]
  /\ \A i \in 1 .. Len(q) : next_active[q[i]] = IF i = Len(q) THEN None ELSE q[i + 1]

Listed == \E q : Lists(q)

QueueInv == Typed /\ Uncounted /\ AllNear /\ Listed

-----------------------------------------------------------------------------
(* The walk along the active queue.                                        *)

(* Each turn of Visit follows one link. *)
LEMMA VisitTurns ==
  ASSUME next_active \in [Sources -> Sources \cup {None}], active_queue \in Sources \cup {None}
  PROVE  /\ Visit[0] = active_queue
         /\ \A k \in 1 .. Cardinality(Sources) :
              Visit[k] = IF Visit[k - 1] = None THEN None ELSE next_active[Visit[k - 1]]
<1> DEFINE N == Cardinality(Sources)
           S == Sources \cup {None}
           F == [x \in S |-> IF x = None THEN None ELSE next_active[x]]
<1>1. N \in Nat
  BY SourcesAssumption, FS_CardinalityType
<1>2. PICK g \in [0 .. N -> S] : g[0] = active_queue /\ \A k \in 1 .. N : g[k] = F[g[k - 1]]
  <2>1. F \in [S -> S] /\ active_queue \in S
    OBVIOUS
  <2> HIDE DEF F, N, S
  <2>2. PICK g : IsRun(g, N, S, active_queue, F)
    BY <1>1, <2>1, Iterates
  <2> QED BY <2>2 DEF IsRun
<1>3. \A k \in 1 .. N : k - 1 \in 0 .. N /\ g[k - 1] \in S /\ k # 0
  BY <1>1, <1>2
<1>4. g = [k \in 0 .. N |-> IF k = 0 THEN active_queue
             ELSE IF g[k - 1] = None THEN None ELSE next_active[g[k - 1]]]
  <2>1. ASSUME NEW k \in 0 .. N
        PROVE  g[k] = IF k = 0 THEN active_queue
                      ELSE IF g[k - 1] = None THEN None ELSE next_active[g[k - 1]]
    <3>1. CASE k = 0
      BY <1>2, <3>1
    <3>2. CASE k # 0
      <4>1. k \in 1 .. N
        BY <1>1, <3>2
      <4>2. g[k] = F[g[k - 1]] /\ g[k - 1] \in S
        BY <1>2, <1>3, <4>1
      <4> QED BY <3>2, <4>2
    <3> QED BY <3>1, <3>2
  <2> QED BY <1>2, <2>1
<1>5. Visit = [k \in 0 .. N |-> IF k = 0 THEN active_queue
             ELSE IF Visit[k - 1] = None THEN None ELSE next_active[Visit[k - 1]]]
  BY <1>4, Zenon DEF Visit
<1>6. \A k \in 0 .. N : Visit[k] = IF k = 0 THEN active_queue
             ELSE IF Visit[k - 1] = None THEN None ELSE next_active[Visit[k - 1]]
  BY <1>5, Zenon
<1>7. 0 \in 0 .. N /\ \A k \in 1 .. N : k \in 0 .. N /\ k # 0
  BY <1>1
<1> QED BY <1>6, <1>7, Zenon

(* A list without repetition is no longer than the set of sources. *)
LEMMA ListFits ==
  ASSUME NEW q, Lists(q)
  PROVE  /\ Cardinality(Sources) \in Nat /\ Len(q) \in 0 .. Cardinality(Sources)
         /\ \A i \in 1 .. Len(q) : q[i] \in Sources
<1>1. IsFiniteSet(Sources) /\ Cardinality(Sources) \in Nat
  BY SourcesAssumption, FS_CardinalityType
<1>2. q \in Seq(Sources) /\ Len(q) \in Nat /\ \A i \in 1 .. Len(q) : q[i] \in Sources
  BY ElementOfSeq DEF Lists
<1>3. IsFiniteSet(1 .. Len(q)) /\ Cardinality(1 .. Len(q)) = Len(q)
  <2>1. 1 \in Int /\ Len(q) \in Int /\ (1 > Len(q) => Len(q) = 0)
    BY <1>2
  <2>2. Len(q) - 1 + 1 = Len(q)
    BY <1>2
  <2> QED BY <2>1, <2>2, FS_Interval
<1>4. ~ (Cardinality(1 .. Len(q)) > Cardinality(Sources))
  <2> SUFFICES ASSUME Cardinality(1 .. Len(q)) > Cardinality(Sources) PROVE FALSE
    BY <1>1, <1>3
  <2> DEFINE f == [i \in 1 .. Len(q) |-> q[i]]
  <2>1. f \in [1 .. Len(q) -> Sources]
    BY <1>2
  <2> HIDE DEF f
  <2>2. PICK i, j \in 1 .. Len(q) : i # j /\ f[i] = f[j]
    BY <1>1, <1>3, <2>1, FS_PigeonHole
  <2>3. q[i] = q[j]
    BY <2>2 DEF f
  <2> QED BY <2>2, <2>3 DEF Lists
<1> QED BY <1>1, <1>2, <1>3, <1>4

(* Where the links list the validated sources, the walk visits the list, then
   nothing more. *)
LEMMA VisitList ==
  ASSUME Typed, NEW q, Lists(q)
  PROVE  \A k \in 0 .. Cardinality(Sources) :
           Visit[k] = IF k < Len(q) THEN q[k + 1] ELSE None
<1> DEFINE N == Cardinality(Sources)
           P(k) == Visit[k] = IF k < Len(q) THEN q[k + 1] ELSE None
           T == {k \in 0 .. N : P(k)}
<1>1. N \in Nat /\ Len(q) \in 0 .. N /\ \A i \in 1 .. Len(q) : q[i] \in Sources
  BY ListFits
<1>2. /\ Visit[0] = active_queue
      /\ \A k \in 1 .. N : Visit[k] = IF Visit[k - 1] = None THEN None
                                      ELSE next_active[Visit[k - 1]]
  BY VisitTurns DEF Typed
<1>3. /\ active_queue = IF Len(q) = 0 THEN None ELSE q[1]
      /\ \A i \in 1 .. Len(q) : next_active[q[i]] = IF i = Len(q) THEN None ELSE q[i + 1]
  BY DEF Lists
<1>4. P(0)
  BY <1>1, <1>2, <1>3
<1>5. ASSUME NEW k \in 0 .. N - 1, P(k) PROVE P(k + 1)
  <2>1. k + 1 \in 1 .. N /\ (k + 1) - 1 = k
    BY <1>1
  <2>2. Visit[k + 1] = IF Visit[k] = None THEN None ELSE next_active[Visit[k]]
    BY <1>2, <2>1
  <2>3. CASE k < Len(q)
    <3>1. k + 1 \in 1 .. Len(q) /\ (k + 1 < Len(q) <=> k + 1 # Len(q))
      BY <1>1, <2>3
    <3>2. Visit[k] = q[k + 1] /\ Visit[k] # None
      BY <1>1, <1>5, <2>3, <3>1, Bounds
    <3> QED BY <1>3, <2>2, <3>1, <3>2
  <2>4. CASE ~ (k < Len(q))
    <3>1. ~ (k + 1 < Len(q))
      BY <1>1, <2>4
    <3> QED BY <1>5, <2>2, <2>4, <3>1
  <2> QED BY <2>3, <2>4
<1> HIDE DEF P, N
<1>6. 0 \in T /\ \A k \in 0 .. N - 1 : k \in T => k + 1 \in T
  BY <1>1, <1>4, <1>5
<1> HIDE DEF T
<1>7. 0 .. N \subseteq T
  BY <1>1, <1>6, UpTo
<1> QED BY <1>7 DEF T, P, N

(* So the application's iteration ends, and reaches the validated sources. *)
LEMMA Walk ==
  ASSUME Typed, Listed
  PROVE  ActiveListExact
<1>1. PICK q : Lists(q)
  BY DEF Listed
<1> DEFINE N == Cardinality(Sources)
<1>2. N \in Nat /\ Len(q) \in 0 .. N /\ \A i \in 1 .. Len(q) : q[i] \in Sources
  BY <1>1, ListFits
<1>3. \A k \in 0 .. N : Visit[k] = IF k < Len(q) THEN q[k + 1] ELSE None
  BY <1>1, VisitList
<1>4. \A s \in Sources : s \in Active <=> \E i \in 1 .. Len(q) : q[i] = s
  BY <1>1 DEF Lists
<1> HIDE DEF N
<1>5. Visit[N] = None
  BY <1>2, <1>3
<1>6. ASSUME NEW s \in Active PROVE \E k \in 0 .. N : Visit[k] = s /\ s # None
  <2>1. s \in Sources
    BY DEF Active, Typed
  <2>2. PICK i \in 1 .. Len(q) : q[i] = s
    BY <1>4, <2>1
  <2>3. i - 1 \in 0 .. N /\ i - 1 < Len(q) /\ (i - 1) + 1 = i
    BY <1>2
  <2> QED BY <1>3, <2>1, <2>2, <2>3, Bounds
<1>7. ASSUME NEW k \in 0 .. N, Visit[k] # None PROVE Visit[k] \in Active
  <2>1. k < Len(q) /\ Visit[k] = q[k + 1]
    BY <1>3, <1>7
  <2>2. k + 1 \in 1 .. Len(q)
    BY <1>2, <2>1
  <2> QED BY <1>2, <1>4, <2>1, <2>2
<1> QED BY <1>5, <1>6, <1>7 DEF ActiveListExact, Visited, N

-----------------------------------------------------------------------------
(* What a packet makes of the statistics.                                  *)

(* Statistics that start with the packet seq, of which r.received came. *)
Fresh(r, seq) ==
  /\ r.probation = 0 /\ r.max_seq = seq /\ r.cycles = 0 /\ r.base_seq = (seq - 1) % Word
  /\ r.received = 1 /\ r.received_prior = 0 /\ r.expected_prior = 1

(* A counted packet changes no more than the number received. *)
LEMMA CountedTyped ==
  ASSUME NEW st \in Counters
  PROVE  /\ Received(st) \in Counters
         /\ Received(st) = [st EXCEPT !.received = st.received + 1]
<1>1. st.received + 1 \in Nat
  BY DEF Counters
<1> QED BY <1>1 DEF Counters, Received

(* The statistics a restart leaves. *)
LEMMA RestartFields ==
  ASSUME NEW st \in Counters, NEW seq \in Seq16
  PROVE  LET r == Restarted(st, seq) IN
         /\ r \in Counters /\ r.max_seq = seq /\ r.cycles = 0
         /\ r.base_seq = (seq - 1) % Word /\ r.received = 0 /\ r.received_prior = 0
         /\ r.expected_prior = 1
<1> DEFINE b == (seq - 1) % Word
           bad == RTP_SEQ_MOD + 1
           zero == 0
           one == 1
<1>1. b \in Words
  <2>1. seq - 1 \in Int
    BY WordsAreNumbers
  <2> QED BY <2>1, Remainder
<1>2. zero \in Words /\ one \in Words /\ zero \in Nat /\ bad \in Nat
  <2>1. bad \in Nat
    BY DEF RTP_SEQ_MOD
  <2> QED BY <2>1, Literals
<1>3. Restarted(st, seq) = [st EXCEPT !.base_seq = b, !.max_seq = seq, !.bad_seq = bad,
        !.cycles = zero, !.received = zero, !.received_prior = zero, !.expected_prior = one]
  BY DEF Restarted
<1>4. zero = 0 /\ one = 1 /\ b = (seq - 1) % Word
  OBVIOUS
<1> HIDE DEF b, bad, zero, one
<1> QED BY <1>1, <1>2, <1>3, <1>4 DEF Counters

(* The packet after a seek starts the statistics afresh, and so does the one that
   ends a probation: counted, both are. *)
LEMMA FreshStart ==
  ASSUME NEW st \in Counters, NEW seq \in Seq16
  PROVE  LET r == [Restarted(st, seq) EXCEPT !.probation = 0] IN
         /\ r \in Counters /\ r.max_seq = seq /\ r.probation = 0
         /\ Received(r) \in Counters /\ Fresh(Received(r), seq)
<1> DEFINE q == Restarted(st, seq)
           r == [q EXCEPT !.probation = 0]
<1>1. /\ q \in Counters /\ q.max_seq = seq /\ q.cycles = 0
      /\ q.base_seq = (seq - 1) % Word /\ q.received = 0 /\ q.received_prior = 0
      /\ q.expected_prior = 1
  BY RestartFields
<1>2. 0 \in 0 .. MIN_SEQUENTIAL
  BY DEF MIN_SEQUENTIAL
<1> HIDE DEF q
<1>3. r \in Counters /\ r.max_seq = seq /\ r.probation = 0 /\ r.cycles = 0
      /\ r.base_seq = (seq - 1) % Word /\ r.received = 0 /\ r.received_prior = 0
      /\ r.expected_prior = 1
  BY <1>1, <1>2 DEF Counters
<1> HIDE DEF r
<1>4. Received(r) = [r EXCEPT !.received = r.received + 1] /\ Received(r) \in Counters
  BY <1>3, CountedTyped
<1>5. r.received + 1 = 1
  BY <1>3
<1>6. Received(r) = [r EXCEPT !.received = 1]
  BY <1>4, <1>5
<1>7. Fresh(Received(r), seq)
  BY <1>3, <1>6 DEF Fresh, Counters
<1> QED BY <1>3, <1>4, <1>7 DEF r, q

(* On probation: the packet ends it, or it is not over and nothing was counted. *)
LEMMA ProbationHandled ==
  ASSUME NEW st \in Counters, NEW seq \in Seq16, st.probation # 0
  PROVE  LET r == UpdateSeq(st, seq) IN
         /\ r \in Counters
         /\ RunsInitSeq(st, seq) => Fresh(r, seq)
         /\ ~ RunsInitSeq(st, seq) =>
              /\ r.probation # 0 /\ r.received = st.received
              /\ r.received_prior = st.received_prior
<1>1. CASE RunsInitSeq(st, seq)
  <2>1. UpdateSeq(st, seq) = InitSeq(st, seq)
    BY <1>1 DEF UpdateSeq
  <2>2. UpdateSeq(st, seq) = Received([Restarted(st, seq) EXCEPT !.probation = 0])
    BY <2>1 DEF InitSeq
  <2> QED BY <1>1, <2>2, FreshStart
<1>2. CASE ~ RunsInitSeq(st, seq)
  <2>1. UpdateSeq(st, seq) = OnProbation(st, seq)
    BY <1>2 DEF UpdateSeq
  <2> DEFINE p == IF Follows(st, seq) THEN st.probation - 1 ELSE MIN_SEQUENTIAL - 1
  <2>2. st.probation \in Int /\ 0 <= st.probation /\ st.probation <= 2
    BY DEF Counters, MIN_SEQUENTIAL
  <2>3. ~ (st.probation = 1 /\ Follows(st, seq))
    BY <1>2 DEF RunsInitSeq
  <2>4. p \in 0 .. MIN_SEQUENTIAL /\ p # 0
    BY <2>2, <2>3 DEF MIN_SEQUENTIAL
  <2>5. OnProbation(st, seq) = [st EXCEPT !.probation = p, !.max_seq = seq]
    BY DEF OnProbation
  <2> HIDE DEF p
  <2> QED BY <1>2, <2>1, <2>4, <2>5 DEF Counters
<1> QED BY <1>1, <1>2

(* A packet in order moves the newest number up to it. *)
LEMMA AdvanceHandled ==
  ASSUME NEW st \in Counters, NEW seq \in Seq16, st.probation = 0, InOrder(st, seq)
  PROVE  LET c == IF seq < st.max_seq THEN (st.cycles + RTP_SEQ_MOD) % Word ELSE st.cycles
         IN  /\ ~ RunsInitSeq(st, seq)
             /\ UpdateSeq(st, seq) \in Counters
             /\ UpdateSeq(st, seq) = [st EXCEPT !.cycles = c, !.max_seq = seq,
                                                !.received = st.received + 1]
<1> DEFINE c == IF seq < st.max_seq THEN (st.cycles + RTP_SEQ_MOD) % Word ELSE st.cycles
           r == [st EXCEPT !.cycles = c, !.max_seq = seq]
<1>1. ~ Jumped(st, seq) /\ ~ RunsInitSeq(st, seq)
  BY DEF RunsInitSeq, Jumped
<1>2. UpdateSeq(st, seq) = Advanced(st, seq)
  BY <1>1 DEF UpdateSeq
<1>3. Advanced(st, seq) = Received(r)
  BY DEF Advanced
<1>4. c \in Words
  <2>1. st.cycles \in Words
    BY DEF Counters
  <2>2. st.cycles + RTP_SEQ_MOD \in Int
    <3>1. st.cycles \in Nat
      BY <2>1, WordsAreNumbers
    <3> QED BY <3>1 DEF RTP_SEQ_MOD
  <2>3. (st.cycles + RTP_SEQ_MOD) % Word \in Words
    BY <2>2, Remainder
  <2> QED BY <2>1, <2>3
<1>5. c = IF seq < st.max_seq THEN (st.cycles + RTP_SEQ_MOD) % Word ELSE st.cycles
  OBVIOUS
<1> HIDE DEF c
<1>6. r \in Counters /\ r.received = st.received
  BY <1>4 DEF Counters
<1>7. Received(r) \in Counters /\ Received(r) = [r EXCEPT !.received = st.received + 1]
  BY <1>6, CountedTyped
<1>8. [r EXCEPT !.received = st.received + 1]
        = [st EXCEPT !.cycles = c, !.max_seq = seq, !.received = st.received + 1]
  BY DEF Counters
<1> HIDE DEF r
<1> QED BY <1>1, <1>2, <1>3, <1>5, <1>7, <1>8

(* A packet that is late, or came before, is counted and changes nothing else. *)
LEMMA LateHandled ==
  ASSUME NEW st \in Counters, NEW seq \in Seq16, st.probation = 0,
         ~ InOrder(st, seq), ~ Jumped(st, seq)
  PROVE  /\ ~ RunsInitSeq(st, seq)
         /\ UpdateSeq(st, seq) \in Counters
         /\ UpdateSeq(st, seq) = [st EXCEPT !.received = st.received + 1]
<1>1. ~ RunsInitSeq(st, seq)
  BY DEF RunsInitSeq
<1>2. UpdateSeq(st, seq) = Received(st)
  BY <1>1 DEF UpdateSeq
<1> QED BY <1>1, <1>2, CountedTyped

-----------------------------------------------------------------------------
(* A packet arrives.                                                       *)

(* The packets the network may deliver next from s. *)
Arrives(s, n) == /\ n \in First .. Last /\ n \in (sent[s] - Window) .. (sent[s] + Window)
                 /\ stats[s].received < MaxReceived

(* The numbers of a source that is heard, for arithmetic. *)
LEMMA Numbers ==
  ASSUME Typed, NEW s \in Sources
  PROVE  /\ stats[s] \in Counters
         /\ sent[s] \in Int /\ First <= sent[s] /\ sent[s] <= Last
         /\ base[s] \in Nat /\ top[s] \in Nat /\ told[s].top \in Nat /\ told[s].got \in Nat
         /\ told[s] = [top |-> told[s].top, got |-> told[s].got]
<1>1. told[s] \in [top : Nat, got : Nat] /\ sent[s] \in First .. Last
  BY DEF Typed
<1> QED BY <1>1, Bounds DEF Typed

(* And of a packet that arrives from it. *)
LEMMA Arrived ==
  ASSUME Typed, NEW s \in Sources, NEW n, Arrives(s, n)
  PROVE  /\ n \in Nat /\ First <= n /\ n <= Last /\ 1 <= n
         /\ sent[s] - Window <= n /\ n <= sent[s] + Window
         /\ SeqOf(n) \in Seq16
<1>1. sent[s] \in Int /\ First \in Nat /\ Last \in Nat /\ Window \in Nat /\ Window < First
  BY Numbers, Bounds
<1>2. n \in First .. Last /\ n \in (sent[s] - Window) .. (sent[s] + Window)
  BY DEF Arrives
<1>3. n \in Int /\ n \in Nat
  BY <1>1, <1>2
<1>4. SeqOf(n) \in Seq16
  BY <1>3, Remainder
<1> QED BY <1>1, <1>2, <1>3, <1>4

(* A packet of a source that is not validated yet: it may become so, and then its
   statistics start with this packet. *)
LEMMA StrangerHeard ==
  ASSUME QueueInv, NEW s \in Sources, s \notin Active, NEW n, Arrives(s, n)
  PROVE  LET st == Prepared(s, SeqOf(n))
             r == UpdateSeq(st, SeqOf(n))
         IN  /\ r \in Counters /\ s \notin done_seek
             /\ RunsInitSeq(st, SeqOf(n)) => Fresh(r, SeqOf(n))
             /\ ~ RunsInitSeq(st, SeqOf(n)) =>
                  r.probation # 0 /\ r.received = 0 /\ r.received_prior = 0
<1> DEFINE seq == SeqOf(n)
           st == Prepared(s, seq)
<1>1. seq \in Seq16 /\ stats[s] \in Counters
  BY Arrived, Numbers DEF QueueInv
<1>2. stats[s].received = 0 /\ stats[s].received_prior = 0
  BY DEF QueueInv, Uncounted
<1>3. s \notin done_seek
  BY DEF QueueInv, Typed
<1> HIDE DEF seq
<1>4. st \in Counters /\ st.probation # 0 /\ st.received = 0 /\ st.received_prior = 0
  <2>1. CASE s \notin known
    <3>1. st = FirstPacket(stats[s], seq)
      BY <2>1 DEF Prepared
    <3> DEFINE m == (seq - 1) % RTP_SEQ_MOD
    <3>2. m \in Seq16
      <4>1. seq - 1 \in Int
        BY <1>1, WordsAreNumbers
      <4> QED BY <4>1, Remainder
    <3>3. st = [stats[s] EXCEPT !.probation = MIN_SEQUENTIAL, !.max_seq = m]
      BY <3>1 DEF FirstPacket
    <3>4. MIN_SEQUENTIAL \in 0 .. MIN_SEQUENTIAL /\ MIN_SEQUENTIAL # 0
      BY DEF MIN_SEQUENTIAL
    <3> HIDE DEF m, st
    <3> QED BY <1>1, <1>2, <3>2, <3>3, <3>4 DEF Counters
  <2>2. CASE s \in known
    <3>1. st = stats[s]
      BY <1>3, <2>2 DEF Prepared
    <3>2. stats[s].probation # 0
      BY <2>2 DEF Active
    <3> QED BY <1>1, <1>2, <3>1, <3>2
  <2> QED BY <2>1, <2>2
<1> HIDE DEF st
<1>5. LET r == UpdateSeq(st, seq) IN
         /\ r \in Counters
         /\ RunsInitSeq(st, seq) => Fresh(r, seq)
         /\ ~ RunsInitSeq(st, seq) =>
              /\ r.probation # 0 /\ r.received = st.received
              /\ r.received_prior = st.received_prior
  BY <1>1, <1>4, ProbationHandled
<1> QED BY <1>3, <1>4, <1>5 DEF seq, st

(* A packet of a validated source after a seek: the statistics start with it. *)
LEMMA SeekHeard ==
  ASSUME QueueInv, NEW s \in Active, s \in done_seek, NEW n, Arrives(s, n)
  PROVE  LET st == Prepared(s, SeqOf(n))
             r == UpdateSeq(st, SeqOf(n))
         IN  /\ r \in Counters /\ Fresh(r, SeqOf(n)) /\ ~ RunsInitSeq(st, SeqOf(n))
<1> DEFINE seq == SeqOf(n)
           st == Prepared(s, seq)
<1>1. s \in Sources /\ s \in known
  BY DEF Active, QueueInv, Typed
<1>2. seq \in Seq16 /\ stats[s] \in Counters
  BY <1>1, Arrived, Numbers DEF QueueInv
<1>3. st = [Restarted(stats[s], seq) EXCEPT !.probation = 0]
  BY <1>1 DEF Prepared, SeekReset
<1> HIDE DEF seq, st
<1>4. /\ st \in Counters /\ st.max_seq = seq /\ st.probation = 0
      /\ Received(st) \in Counters /\ Fresh(Received(st), seq)
  BY <1>2, <1>3, FreshStart
<1>5. InOrder(st, seq)
  <2>1. seq - st.max_seq = 0
    BY <1>2, <1>4, WordsAreNumbers
  <2>2. 0 % RTP_SEQ_MOD = 0 /\ 0 < MAX_DROPOUT
    BY DEF RTP_SEQ_MOD, MAX_DROPOUT
  <2> QED BY <2>1, <2>2 DEF InOrder, UDelta
<1>6. /\ ~ RunsInitSeq(st, seq)
      /\ UpdateSeq(st, seq)
           = [st EXCEPT !.cycles = IF seq < st.max_seq THEN (st.cycles + RTP_SEQ_MOD) % Word
                                   ELSE st.cycles,
                        !.max_seq = seq, !.received = st.received + 1]
  BY <1>2, <1>4, <1>5, AdvanceHandled
<1>7. ~ (seq < st.max_seq)
  BY <1>2, <1>4, WordsAreNumbers
<1>8. Received(st) = [st EXCEPT !.received = st.received + 1]
  BY <1>4, CountedTyped
<1>9. UpdateSeq(st, seq) = Received(st)
  <2>1. UpdateSeq(st, seq) = [st EXCEPT !.cycles = st.cycles, !.max_seq = st.max_seq,
                                        !.received = st.received + 1]
    BY <1>4, <1>6, <1>7
  <2>2. [st EXCEPT !.cycles = st.cycles, !.max_seq = st.max_seq, !.received = st.received + 1]
          = [st EXCEPT !.received = st.received + 1]
    BY <1>4 DEF Counters
  <2> QED BY <1>8, <2>1, <2>2
<1> QED BY <1>4, <1>6, <1>9 DEF seq, st

(* Any other packet of a validated source: it is counted, and the newest number
   is exactly that of the newest packet; where it wrapped, the cycles have advanced. *)
LEMMA SourceHeard ==
  ASSUME QueueInv, NEW s \in Active, s \notin done_seek, NEW n, Arrives(s, n)
  PROVE  LET st == Prepared(s, SeqOf(n))
             r == UpdateSeq(st, SeqOf(n))
             newest == IF n > top[s] THEN n ELSE top[s]
         IN  /\ r \in Counters /\ ~ RunsInitSeq(st, SeqOf(n)) /\ r.probation = 0
             /\ r.received = stats[s].received + 1
             /\ r.received_prior = stats[s].received_prior
             /\ r.base_seq = stats[s].base_seq /\ r.expected_prior = stats[s].expected_prior
             /\ r.max_seq = SeqOf(newest)
             /\ r.cycles = IF SeqOf(newest) < SeqOf(top[s])
                           THEN (stats[s].cycles + RTP_SEQ_MOD) % Word ELSE stats[s].cycles
<1> DEFINE seq == SeqOf(n)
           t == top[s]
           st == stats[s]
<1>1. s \in Sources /\ s \in known /\ st.probation = 0
  BY DEF Active, QueueInv, Typed
<1>2. seq \in Seq16 /\ st \in Counters /\ n \in Nat /\ t \in Nat /\ SeqOf(t) \in Seq16
  <2>1. seq \in Seq16 /\ st \in Counters /\ n \in Nat /\ t \in Nat
    BY <1>1, Arrived, Numbers DEF QueueInv
  <2>2. t \in Int
    BY <2>1
  <2> QED BY <2>1, <2>2, Remainder
<1>3. Prepared(s, seq) = st
  BY <1>1 DEF Prepared
<1>4. st.max_seq = SeqOf(t)
  BY DEF QueueInv, AllNear, Near
<1>5. t - 100 < n /\ n < t + 200
  <2>1. t <= sent[s] /\ sent[s] <= t + Window /\ sent[s] \in Int /\ Window \in Nat /\ Window < 100
    BY <1>1, Numbers, Bounds DEF QueueInv, AllNear, Near
  <2>2. sent[s] - Window <= n /\ n <= sent[s] + Window
    BY <1>1, Arrived DEF QueueInv
  <2> HIDE DEF t
  <2> QED BY <1>2, <2>1, <2>2
<1>6. UDelta(st, seq) = IF n < t THEN n - t + 65536 ELSE n - t
  <2>1. t - 65536 < n /\ n < t + 65536
    BY <1>2, <1>5
  <2>2. (SeqOf(n) - SeqOf(t)) % 65536 = IF n < t THEN n - t + 65536 ELSE n - t
    BY <1>2, <2>1, Distance
  <2> QED BY <1>4, <2>2 DEF UDelta, RTP_SEQ_MOD
<1> HIDE DEF seq, t, st
<1>7. CASE n < t
  <2>1. ~ InOrder(st, seq) /\ ~ Jumped(st, seq)
    BY <1>2, <1>5, <1>6, <1>7 DEF InOrder, Jumped, MAX_DROPOUT, MAX_MISORDER, RTP_SEQ_MOD
  <2>2. /\ ~ RunsInitSeq(st, seq)
        /\ UpdateSeq(st, seq) \in Counters
        /\ UpdateSeq(st, seq) = [st EXCEPT !.received = st.received + 1]
    BY <1>1, <1>2, <2>1, LateHandled
  <2>3. (IF n > t THEN n ELSE t) = t /\ ~ (SeqOf(t) < SeqOf(t))
    BY <1>2, <1>7, WordsAreNumbers
  <2> QED BY <1>1, <1>2, <1>3, <1>4, <2>2, <2>3 DEF seq, t, st, Counters
<1>8. CASE ~ (n < t)
  <2>1. InOrder(st, seq)
    BY <1>2, <1>5, <1>6, <1>8 DEF InOrder, MAX_DROPOUT
  <2> DEFINE c == IF seq < st.max_seq THEN (st.cycles + RTP_SEQ_MOD) % Word ELSE st.cycles
  <2>2. /\ ~ RunsInitSeq(st, seq)
        /\ UpdateSeq(st, seq) \in Counters
        /\ UpdateSeq(st, seq) = [st EXCEPT !.cycles = c, !.max_seq = seq,
                                           !.received = st.received + 1]
    BY <1>1, <1>2, <2>1, AdvanceHandled
  <2>3. (IF n > t THEN n ELSE t) = n
    BY <1>2, <1>8
  <2>4. c = IF seq < SeqOf(t) THEN (st.cycles + RTP_SEQ_MOD) % Word ELSE st.cycles
    BY <1>4
  <2> HIDE DEF c
  <2> QED BY <1>1, <1>2, <1>3, <2>2, <2>3, <2>4 DEF seq, t, st, Counters
<1> QED BY <1>7, <1>8

(* A packet of a source that goes on counting it. *)
Continued(s, n, r) ==
  LET newest == IF n > top[s] THEN n ELSE top[s]
  IN  /\ r.received = stats[s].received + 1 /\ r.received_prior = stats[s].received_prior
      /\ r.base_seq = stats[s].base_seq /\ r.expected_prior = stats[s].expected_prior
      /\ r.max_seq = SeqOf(newest)
      /\ r.cycles = IF SeqOf(newest) < SeqOf(top[s])
                    THEN (stats[s].cycles + RTP_SEQ_MOD) % Word ELSE stats[s].cycles

(* The statistics st before and r after a packet n: a source becomes validated only
   through rtp_init_seq, and stays so. *)
Outcome(s, n, st, r) ==
  /\ r \in Counters
  /\ s \in Active => ~ RunsInitSeq(st, SeqOf(n))
  /\ r.probation = 0 <=> s \in Active \/ RunsInitSeq(st, SeqOf(n))
  /\ RunsInitSeq(st, SeqOf(n)) \/ s \in done_seek => Fresh(r, SeqOf(n))
  /\ s \in Active /\ s \notin done_seek => Continued(s, n, r)
  /\ r.probation # 0 => r.received = 0 /\ r.received_prior = 0

(* Every packet that arrives has this outcome. *)
LEMMA Outcomes ==
  ASSUME QueueInv, NEW s \in Sources, NEW n, Arrives(s, n)
  PROVE  LET st == Prepared(s, SeqOf(n)) IN Outcome(s, n, st, UpdateSeq(st, SeqOf(n)))
<1> DEFINE st == Prepared(s, SeqOf(n))
           r == UpdateSeq(st, SeqOf(n))
<1>1. CASE s \notin Active
  <2>1. /\ r \in Counters /\ s \notin done_seek
        /\ RunsInitSeq(st, SeqOf(n)) => Fresh(r, SeqOf(n))
        /\ ~ RunsInitSeq(st, SeqOf(n)) =>
             r.probation # 0 /\ r.received = 0 /\ r.received_prior = 0
    BY <1>1, StrangerHeard
  <2> QED BY <1>1, <2>1 DEF Outcome, Fresh
<1>2. CASE s \in Active /\ s \in done_seek
  <2>1. r \in Counters /\ Fresh(r, SeqOf(n)) /\ ~ RunsInitSeq(st, SeqOf(n))
    BY <1>2, SeekHeard
  <2> QED BY <1>2, <2>1 DEF Outcome, Fresh
<1>3. CASE s \in Active /\ s \notin done_seek
  <2>1. /\ r \in Counters /\ ~ RunsInitSeq(st, SeqOf(n)) /\ r.probation = 0
        /\ Continued(s, n, r)
    BY <1>3, SourceHeard DEF Continued
  <2> QED BY <1>3, <2>1 DEF Outcome
<1> QED BY <1>1, <1>2, <1>3

(* One arrival, with what becomes of every variable. *)
Arrival(s, n, r, runs, restarts) ==
  /\ Arrives(s, n)
  /\ r = UpdateSeq(Prepared(s, SeqOf(n)), SeqOf(n))
  /\ Outcome(s, n, Prepared(s, SeqOf(n)), r)
  /\ runs = RunsInitSeq(Prepared(s, SeqOf(n)), SeqOf(n))
  /\ restarts = (runs \/ s \in done_seek)
  /\ sent' = [sent EXCEPT ![s] = IF n > sent[s] THEN n ELSE sent[s]]
  /\ stats' = [stats EXCEPT ![s] = r]
  /\ known' = known \cup {s}
  /\ done_seek' = done_seek \ {s}
  /\ IF runs THEN Enqueue(s) ELSE UNCHANGED <<next_active, active_queue>>
  /\ base' = IF restarts THEN [base EXCEPT ![s] = n] ELSE base
  /\ top' = IF restarts \/ n > top[s] THEN [top EXCEPT ![s] = n] ELSE top
  /\ told' = IF restarts THEN [told EXCEPT ![s] = [top |-> n - 1, got |-> 0]] ELSE told

(* Receive is such an arrival. *)
LEMMA ReceiveArrival ==
  ASSUME QueueInv, NEW s \in Sources, Receive(s)
  PROVE  \E n, r : \E runs, restarts \in BOOLEAN : Arrival(s, n, r, runs, restarts)
<1>1. PICK n \in (sent[s] - Window) .. (sent[s] + Window) :
        /\ stats[s].received < MaxReceived
        /\ First <= n /\ n <= Last
        /\ sent' = [sent EXCEPT ![s] = IF n > @ THEN n ELSE @]
        /\ Handle(s, n)
  BY DEF Receive
<1> DEFINE seq == SeqOf(n)
           st == Prepared(s, seq)
           r == UpdateSeq(st, seq)
           runs == RunsInitSeq(st, seq)
           restarts == runs \/ s \in done_seek
<1>2. Arrives(s, n)
  <2>1. sent[s] \in Int /\ First \in Int /\ Last \in Int /\ Window \in Int
    <3>1. Typed
      BY DEF QueueInv
    <3>2. sent[s] \in Int
      BY <3>1, Numbers
    <3> QED BY <3>2, Bounds
  <2>2. n \in First .. Last
    BY <1>1, <2>1
  <2> QED BY <1>1, <2>2 DEF Arrives
<1>3. Outcome(s, n, st, r)
  BY <1>2, Outcomes
<1>4. done_seek \subseteq known
  BY DEF QueueInv, Typed, Active
<1>5. (s \in known \cap done_seek <=> s \in done_seek)
      /\ done_seek \ (known \cap {s}) = done_seek \ {s}
  BY <1>4
<1>6. /\ stats' = [stats EXCEPT ![s] = r]
      /\ IF runs THEN Enqueue(s) ELSE UNCHANGED <<next_active, active_queue>>
      /\ known' = known \cup {s}
      /\ done_seek' = done_seek \ {s}
  BY <1>1, <1>5 DEF Handle
<1>7. /\ base' = IF restarts THEN [base EXCEPT ![s] = n] ELSE base
      /\ top' = IF restarts \/ n > top[s] THEN [top EXCEPT ![s] = n] ELSE top
      /\ told' = IF restarts THEN [told EXCEPT ![s] = [top |-> n - 1, got |-> 0]] ELSE told
  BY <1>1, <1>5 DEF Handle
<1>8. sent' = [sent EXCEPT ![s] = IF n > sent[s] THEN n ELSE sent[s]]
  BY <1>1
<1>9. runs \in BOOLEAN /\ restarts \in BOOLEAN
  BY DEF RunsInitSeq
<1>10. Arrival(s, n, r, runs, restarts)
  BY <1>2, <1>3, <1>6, <1>7, <1>8 DEF Arrival
<1> HIDE DEF r, runs, restarts
<1> QED BY <1>9, <1>10

(* An arrival concerns its source alone, and validates no other. *)
LEMMA OthersKept ==
  ASSUME QueueInv, NEW s \in Sources, NEW n, NEW r, NEW runs \in BOOLEAN,
         NEW restarts \in BOOLEAN, Arrival(s, n, r, runs, restarts)
  PROVE  /\ \A u \in Sources : u # s =>
              /\ stats'[u] = stats[u] /\ sent'[u] = sent[u] /\ base'[u] = base[u]
              /\ top'[u] = top[u] /\ told'[u] = told[u]
              /\ u \in Active' <=> u \in Active
         /\ s \in Active' <=> s \in Active \/ runs
         /\ Active' \subseteq Sources
<1>1. /\ known \subseteq Sources /\ stats \in [Sources -> Counters]
      /\ sent \in [Sources -> First .. Last] /\ base \in [Sources -> Nat]
      /\ top \in [Sources -> Nat] /\ told \in [Sources -> [top : Nat, got : Nat]]
  BY DEF QueueInv, Typed
<1>2. ASSUME NEW u \in Sources, u # s
      PROVE  /\ stats'[u] = stats[u] /\ sent'[u] = sent[u] /\ base'[u] = base[u]
             /\ top'[u] = top[u] /\ told'[u] = told[u]
             /\ u \in known' <=> u \in known
  BY <1>1, <1>2 DEF Arrival
<1>3. stats'[s] = r /\ s \in known'
  BY <1>1 DEF Arrival
<1>4. r.probation = 0 <=> s \in Active \/ runs
  BY DEF Arrival, Outcome
<1>5. known' \subseteq Sources
  BY <1>1 DEF Arrival
<1>6. \A u \in Sources : u \in Active' <=> u \in known' /\ stats'[u].probation = 0
  BY <1>5 DEF Active
<1>7. \A u \in Sources : u \in Active <=> u \in known /\ stats[u].probation = 0
  BY <1>1 DEF Active
<1>8. Active' \subseteq Sources
  BY <1>5 DEF Active
<1> QED BY <1>2, <1>3, <1>4, <1>6, <1>7, <1>8

(* What becomes of the numbers of the source itself. *)
LEMMA NumbersMove ==
  ASSUME QueueInv, NEW s \in Sources, NEW n, NEW r, NEW runs \in BOOLEAN,
         NEW restarts \in BOOLEAN, Arrival(s, n, r, runs, restarts)
  PROVE  /\ stats'[s] = r
         /\ sent'[s] = IF n > sent[s] THEN n ELSE sent[s]
         /\ base'[s] = IF restarts THEN n ELSE base[s]
         /\ top'[s] = IF restarts \/ n > top[s] THEN n ELSE top[s]
         /\ told'[s] = IF restarts THEN [top |-> n - 1, got |-> 0] ELSE told[s]
<1>1. /\ stats \in [Sources -> Counters]
      /\ sent \in [Sources -> First .. Last] /\ base \in [Sources -> Nat]
      /\ top \in [Sources -> Nat] /\ told \in [Sources -> [top : Nat, got : Nat]]
  BY DEF QueueInv, Typed
<1> QED BY <1>1 DEF Arrival

(* An arrival leaves everything of its type. *)
LEMMA ArrivalTyped ==
  ASSUME QueueInv, NEW s \in Sources, NEW n, NEW r, NEW runs \in BOOLEAN,
         NEW restarts \in BOOLEAN, Arrival(s, n, r, runs, restarts)
  PROVE  Typed'
<1>1. Typed /\ Arrives(s, n) /\ r \in Counters
  BY DEF QueueInv, Arrival, Outcome
<1>2. n \in Nat /\ n \in First .. Last /\ n - 1 \in Nat
  BY <1>1, Arrived DEF Arrives
<1>3. stats' \in [Sources -> Counters] /\ known' \subseteq Sources
  BY <1>1 DEF Arrival, Typed
<1>4. /\ next_active' \in [Sources -> Sources \cup {None}]
      /\ active_queue' \in Sources \cup {None}
  BY <1>1 DEF Arrival, Typed, Enqueue
<1>5. sent' \in [Sources -> First .. Last]
  <2> DEFINE m == IF n > sent[s] THEN n ELSE sent[s]
  <2>1. m \in First .. Last
    BY <1>1, <1>2 DEF Typed
  <2>2. sent' = [sent EXCEPT ![s] = m]
    BY DEF Arrival
  <2> HIDE DEF m
  <2> QED BY <1>1, <2>1, <2>2 DEF Typed
<1>6. base' \in [Sources -> Nat] /\ top' \in [Sources -> Nat]
  BY <1>1, <1>2 DEF Arrival, Typed
<1>7. told' \in [Sources -> [top : Nat, got : Nat]]
  <2>1. [top |-> n - 1, got |-> 0] \in [top : Nat, got : Nat]
    BY <1>2
  <2> QED BY <1>1, <2>1 DEF Arrival, Typed
<1>8. done_seek' \subseteq Active'
  <2>1. ASSUME NEW u \in done_seek' PROVE u \in Active'
    <3>1. u \in Active /\ u # s /\ u \in Sources
      BY <1>1, <2>1 DEF Arrival, Typed, Active
    <3> QED BY <3>1, OthersKept
  <2> QED BY <2>1
<1> QED BY <1>3, <1>4, <1>5, <1>6, <1>7, <1>8 DEF Typed

(* It counts nothing before the source is validated. *)
LEMMA ArrivalUncounted ==
  ASSUME QueueInv, NEW s \in Sources, NEW n, NEW r, NEW runs \in BOOLEAN,
         NEW restarts \in BOOLEAN, Arrival(s, n, r, runs, restarts)
  PROVE  Uncounted'
<1>1. \A u \in Sources \ Active : stats[u].received = 0 /\ stats[u].received_prior = 0
  BY DEF QueueInv, Uncounted
<1>2. ASSUME NEW u \in Sources, u \notin Active'
      PROVE  stats'[u].received = 0 /\ stats'[u].received_prior = 0
  <2>1. CASE u # s
    BY <1>1, <1>2, <2>1, OthersKept
  <2>2. CASE u = s
    <3>1. ~ (s \in Active \/ runs)
      BY <1>2, <2>2, OthersKept
    <3>2. stats'[s] = r
      BY DEF Arrival, QueueInv, Typed
    <3> QED BY <2>2, <3>1, <3>2 DEF Arrival, Outcome
  <2> QED BY <2>1, <2>2
<1> QED BY <1>2 DEF Uncounted

(* Near, for a source and its numbers. *)
NearNumbers(r, b, t, h, d) ==
  /\ First <= b /\ b <= t /\ t <= h /\ h <= t + Window
  /\ r.max_seq = SeqOf(t)
  /\ 1 <= r.received /\ r.received <= MaxReceived
  /\ b - 1 <= d.top /\ d.top <= t
  /\ d.got <= r.received /\ r.received_prior = d.got

(* It keeps a validated source at most Window behind. *)
LEMMA ArrivalNear ==
  ASSUME QueueInv, NEW s \in Sources, NEW n, NEW r, NEW runs \in BOOLEAN,
         NEW restarts \in BOOLEAN, Arrival(s, n, r, runs, restarts)
  PROVE  AllNear'
<1>1. \A u \in Active : NearNumbers(stats[u], base[u], top[u], sent[u], told[u])
  BY DEF QueueInv, AllNear, Near, NearNumbers
<1>2. Typed /\ Arrives(s, n)
  BY DEF QueueInv, Arrival
<1>3. /\ stats[s] \in Counters /\ sent[s] \in Int
      /\ base[s] \in Nat /\ top[s] \in Nat /\ told[s].top \in Nat /\ told[s].got \in Nat
  BY <1>2, Numbers
<1>4. /\ n \in Nat /\ First <= n /\ 1 <= n
      /\ sent[s] - Window <= n /\ n <= sent[s] + Window
  BY <1>2, Arrived
<1>5. First \in Nat /\ Window \in Nat /\ MaxReceived \in Nat
  BY Bounds
<1>6. stats[s].received \in Nat /\ stats[s].received < MaxReceived
  BY <1>2, <1>3 DEF Counters, Arrives
<1>7. ASSUME s \in Active \/ runs
      PROVE  NearNumbers(stats'[s], base'[s], top'[s], sent'[s], told'[s])
  <2>1. /\ stats'[s] = r
        /\ sent'[s] = IF n > sent[s] THEN n ELSE sent[s]
        /\ base'[s] = IF restarts THEN n ELSE base[s]
        /\ top'[s] = IF restarts \/ n > top[s] THEN n ELSE top[s]
        /\ told'[s] = IF restarts THEN [top |-> n - 1, got |-> 0] ELSE told[s]
    BY NumbersMove
  <2>2. CASE restarts
    <3>1. Fresh(r, SeqOf(n))
      BY <2>2 DEF Arrival, Outcome
    <3>2. r.max_seq = SeqOf(n) /\ r.received = 1 /\ r.received_prior = 0
      BY <3>1 DEF Fresh
    <3>3. sent'[s] \in Int /\ n <= sent'[s] /\ sent'[s] <= n + Window
      BY <1>3, <1>4, <1>5, <2>1
    <3>4. base'[s] = n /\ top'[s] = n /\ told'[s].top = n - 1 /\ told'[s].got = 0
      BY <2>1, <2>2
    <3> QED BY <1>4, <1>5, <1>6, <2>1, <3>2, <3>3, <3>4 DEF NearNumbers
  <2>3. CASE ~ restarts
    <3>1. s \in Active /\ s \notin done_seek
      BY <1>7, <2>3 DEF Arrival
    <3>2. Continued(s, n, r)
      BY <3>1 DEF Arrival, Outcome
    <3> DEFINE t == IF n > top[s] THEN n ELSE top[s]
    <3>3. /\ r.received = stats[s].received + 1 /\ r.received_prior = stats[s].received_prior
          /\ r.max_seq = SeqOf(t)
      BY <3>2 DEF Continued
    <3>4. /\ First <= base[s] /\ base[s] <= top[s] /\ top[s] <= sent[s]
          /\ sent[s] <= top[s] + Window
          /\ base[s] - 1 <= told[s].top /\ told[s].top <= top[s]
          /\ told[s].got <= stats[s].received /\ stats[s].received_prior = told[s].got
          /\ 1 <= stats[s].received
      BY <1>1, <3>1 DEF NearNumbers
    <3>5. base'[s] = base[s] /\ top'[s] = t /\ told'[s] = told[s]
      BY <2>1, <2>3
    <3>6. t \in Nat /\ top[s] <= t /\ (t = n \/ t = top[s]) /\ n <= t
      BY <1>3, <1>4
    <3>7. sent'[s] \in Int /\ t <= sent'[s] /\ sent'[s] <= t + Window
      BY <1>3, <1>4, <1>5, <2>1, <3>4, <3>6
    <3> HIDE DEF t
    <3>8. First <= base[s] /\ base[s] <= t /\ base[s] - 1 <= told[s].top /\ told[s].top <= t
      BY <1>3, <1>5, <3>4, <3>6
    <3>9. 1 <= r.received /\ r.received <= MaxReceived /\ told[s].got <= r.received
      BY <1>3, <1>5, <1>6, <3>3, <3>4
    <3> QED BY <2>1, <3>3, <3>4, <3>5, <3>7, <3>8, <3>9 DEF NearNumbers
  <2> QED BY <2>2, <2>3
<1>8. ASSUME NEW u \in Active'
      PROVE  NearNumbers(stats'[u], base'[u], top'[u], sent'[u], told'[u])
  <2>1. u \in Sources
    BY <1>8, OthersKept
  <2>2. CASE u = s
    BY <1>7, <1>8, <2>2, OthersKept
  <2>3. CASE u # s
    BY <1>1, <1>8, <2>1, <2>3, OthersKept
  <2> QED BY <2>2, <2>3
<1> QED BY <1>8 DEF AllNear, Near, NearNumbers

(* It puts a source that becomes validated in front of the others, and moves no
   other. *)
LEMMA ArrivalListed ==
  ASSUME QueueInv, NEW s \in Sources, NEW n, NEW r, NEW runs \in BOOLEAN,
         NEW restarts \in BOOLEAN, Arrival(s, n, r, runs, restarts)
  PROVE  Listed'
<1>1. PICK q : Lists(q)
  BY DEF QueueInv, Listed
<1>2. /\ q \in Seq(Sources) /\ Len(q) \in Nat
      /\ \A i, j \in 1 .. Len(q) : q[i] = q[j] => i = j
      /\ \A u \in Sources : u \in Active <=> \E i \in 1 .. Len(q) : q[i] = u
      /\ active_queue = IF Len(q) = 0 THEN None ELSE q[1]
      /\ \A i \in 1 .. Len(q) : next_active[q[i]] = IF i = Len(q) THEN None ELSE q[i + 1]
  BY <1>1 DEF Lists
<1>3. \A i \in 1 .. Len(q) : q[i] \in Sources
  BY <1>2, ElementOfSeq
<1>4. \A u \in Sources : u \in Active' <=> u \in Active \/ (u = s /\ runs)
  BY OthersKept
<1>5. CASE ~ runs
  <2>1. next_active' = next_active /\ active_queue' = active_queue
    BY <1>5 DEF Arrival
  <2>2. \A u \in Sources : u \in Active' <=> u \in Active
    BY <1>4, <1>5
  <2>3. Lists(q)'
    BY <1>2, <2>1, <2>2 DEF Lists
  <2> QED BY <2>3 DEF Listed
<1>6. CASE runs
  <2> DEFINE p == <<s>> \o q
  <2>1. s \notin Active
    BY <1>6 DEF Arrival, Outcome
  <2>2. \A i \in 1 .. Len(q) : q[i] # s
    BY <1>2, <2>1
  <2>3. /\ p \in Seq(Sources) /\ Len(p) = Len(q) + 1 /\ p[1] = s
        /\ \A i \in 1 .. Len(q) : p[i + 1] = q[i]
    <3>1. <<s>> \in Seq(Sources) /\ Len(<<s>>) = 1 /\ <<s>>[1] = s
      OBVIOUS
    <3>2. p \in Seq(Sources) /\ Len(p) = Len(q) + 1
      BY <1>2, <3>1, ConcatProperties
    <3>3. \A i \in 1 .. 1 + Len(q) : p[i] = IF i <= 1 THEN <<s>>[i] ELSE q[i - 1]
      BY <1>2, <3>1, ConcatProperties
    <3>4. p[1] = s
      BY <1>2, <3>1, <3>3
    <3>5. ASSUME NEW i \in 1 .. Len(q) PROVE p[i + 1] = q[i]
      <4>1. i + 1 \in 1 .. 1 + Len(q) /\ ~ (i + 1 <= 1) /\ (i + 1) - 1 = i
        BY <1>2
      <4> HIDE DEF p
      <4> QED BY <3>3, <4>1
    <3> QED BY <3>2, <3>4, <3>5
  <2> HIDE DEF p
  <2>4. \A i \in 1 .. Len(p) : i = 1 \/ (i - 1 \in 1 .. Len(q) /\ p[i] = q[i - 1])
    <3>1. ASSUME NEW i \in 1 .. Len(p), i # 1 PROVE i - 1 \in 1 .. Len(q) /\ p[i] = q[i - 1]
      <4>1. i - 1 \in 1 .. Len(q) /\ (i - 1) + 1 = i
        BY <1>2, <2>3, <3>1
      <4> QED BY <2>3, <4>1
    <3> QED BY <3>1
  <2>5. 1 \in 1 .. Len(p) /\ \A i \in 1 .. Len(q) : i + 1 \in 1 .. Len(p)
    BY <1>2, <2>3
  <2>6. ASSUME NEW i \in 1 .. Len(p), NEW j \in 1 .. Len(p), p[i] = p[j] PROVE i = j
    <3>1. CASE i = 1
      BY <2>2, <2>3, <2>4, <2>6, <3>1
    <3>2. CASE j = 1
      BY <2>2, <2>3, <2>4, <2>6, <3>2
    <3>3. CASE i # 1 /\ j # 1
      <4>1. i - 1 = j - 1
        BY <1>2, <2>4, <2>6, <3>3
      <4> QED BY <4>1
    <3> QED BY <3>1, <3>2, <3>3
  <2>7. ASSUME NEW u \in Sources PROVE u \in Active' <=> \E i \in 1 .. Len(p) : p[i] = u
    <3>1. u \in Active' <=> u = s \/ \E i \in 1 .. Len(q) : q[i] = u
      BY <1>2, <1>4, <1>6
    <3>2. u = s => \E i \in 1 .. Len(p) : p[i] = u
      BY <2>3, <2>5
    <3>3. (\E i \in 1 .. Len(q) : q[i] = u) => \E i \in 1 .. Len(p) : p[i] = u
      BY <2>3, <2>5
    <3>4. (\E i \in 1 .. Len(p) : p[i] = u) => u = s \/ \E i \in 1 .. Len(q) : q[i] = u
      BY <2>3, <2>4
    <3> QED BY <3>1, <3>2, <3>3, <3>4
  <2>8. next_active' = [next_active EXCEPT ![s] = active_queue] /\ active_queue' = s
    BY <1>6 DEF Arrival, Enqueue
  <2>9. /\ next_active'[s] = active_queue
        /\ \A u \in Sources : u # s => next_active'[u] = next_active[u]
    BY <2>8 DEF QueueInv, Typed
  <2>10. ASSUME NEW i \in 1 .. Len(p)
         PROVE  next_active'[p[i]] = IF i = Len(p) THEN None ELSE p[i + 1]
    <3>1. CASE i = 1
      <4>1. next_active'[p[i]] = active_queue
        BY <2>3, <2>9, <3>1
      <4>2. CASE Len(q) = 0
        BY <1>2, <2>3, <3>1, <4>1, <4>2
      <4>3. CASE Len(q) # 0
        <5>1. 1 \in 1 .. Len(q) /\ i # Len(p)
          BY <1>2, <2>3, <3>1, <4>3
        <5>2. p[1 + 1] = q[1]
          BY <2>3, <5>1
        <5> QED BY <1>2, <3>1, <4>1, <4>3, <5>1, <5>2
      <4> QED BY <4>2, <4>3
    <3>2. CASE i # 1
      <4>1. i - 1 \in 1 .. Len(q) /\ p[i] = q[i - 1] /\ p[i] \in Sources /\ p[i] # s
        BY <1>3, <2>2, <2>4, <3>2
      <4>2. next_active'[p[i]] = next_active[q[i - 1]]
        BY <2>9, <4>1
      <4>3. next_active[q[i - 1]] = IF i - 1 = Len(q) THEN None ELSE q[(i - 1) + 1]
        BY <1>2, <4>1
      <4>4. CASE i = Len(p)
        <5>1. i - 1 = Len(q)
          BY <1>2, <2>3, <4>4
        <5> QED BY <4>2, <4>3, <4>4, <5>1
      <4>5. CASE i # Len(p)
        <5>1. i - 1 # Len(q) /\ (i - 1) + 1 = i /\ i \in 1 .. Len(q)
          BY <1>2, <2>3, <4>1, <4>5
        <5>2. p[i + 1] = q[i]
          BY <2>3, <5>1
        <5> QED BY <4>2, <4>3, <4>5, <5>1, <5>2
      <4> QED BY <4>4, <4>5
    <3> QED BY <3>1, <3>2
  <2>11. Lists(p)'
    <3>1. active_queue' = IF Len(p) = 0 THEN None ELSE p[1]
      BY <1>2, <2>3, <2>8
    <3> QED BY <2>3, <2>6, <2>7, <2>10, <3>1 DEF Lists
  <2> QED BY <2>11 DEF Listed
<1> QED BY <1>5, <1>6

-----------------------------------------------------------------------------
(* The other steps.                                                        *)

(* What a report leaves of a source: it is told of what came. *)
ReportStep(s) ==
  /\ stats'[s] = IF Heard(stats[s]) THEN Reported(stats[s]) ELSE stats[s]
  /\ told'[s] = IF Heard(stats[s]) THEN [top |-> top[s], got |-> stats[s].received]
                ELSE told[s]

(* A report writes down what it told; it counts nothing. *)
LEMMA ReportedFields ==
  ASSUME NEW st \in Counters
  PROVE  /\ Reported(st) \in Counters /\ Expected(st) \in Words
         /\ Reported(st) = [st EXCEPT !.expected_prior = Expected(st),
                                      !.received_prior = st.received]
<1>1. Expected(st) \in Words
  <2>1. st.cycles \in Nat /\ st.max_seq \in Int /\ st.base_seq \in Nat
    BY WordsAreNumbers DEF Counters
  <2>2. st.cycles + st.max_seq - st.base_seq + 1 \in Int
    BY <2>1
  <2> QED BY <2>2, Remainder DEF Expected
<1> QED BY <1>1 DEF Counters, Reported

(* A report moves nothing the invariant is about. *)
LEMMA ReportKeeps ==
  ASSUME QueueInv, Report
  PROVE  /\ QueueInv' /\ Active' = Active /\ UNCHANGED <<base, top, sent>>
         /\ \A s \in Sources : ReportStep(s)
<1>1. /\ Typed /\ Uncounted /\ AllNear /\ Listed
  BY DEF QueueInv
<1>2. UNCHANGED <<known, done_seek, next_active, active_queue, sent, base, top>>
  BY DEF Report
<1>3. \A s \in Sources : ReportStep(s)
  BY DEF Report, ReportStep
<1>4. ASSUME NEW s \in Sources
      PROVE  /\ stats'[s] \in Counters /\ told'[s] \in [top : Nat, got : Nat]
             /\ stats'[s].probation = stats[s].probation
             /\ stats'[s].max_seq = stats[s].max_seq
             /\ stats'[s].received = stats[s].received
  <2>1. stats[s] \in Counters /\ told[s] \in [top : Nat, got : Nat] /\ top[s] \in Nat
    BY <1>1 DEF Typed
  <2>2. CASE Heard(stats[s])
    <3>1. stats'[s] = Reported(stats[s])
      BY <1>3, <2>2 DEF ReportStep
    <3>2. told'[s] = [top |-> top[s], got |-> stats[s].received]
      BY <1>3, <2>2 DEF ReportStep
    <3>3. stats[s].received \in Nat
      BY <2>1 DEF Counters
    <3>4. told'[s] \in [top : Nat, got : Nat]
      BY <2>1, <3>2, <3>3
    <3>5. Reported(stats[s]) \in Counters
          /\ Reported(stats[s]) = [stats[s] EXCEPT !.expected_prior = Expected(stats[s]),
                                                   !.received_prior = stats[s].received]
      BY <2>1, ReportedFields
    <3> QED BY <2>1, <3>1, <3>4, <3>5 DEF Counters
  <2>3. CASE ~ Heard(stats[s])
    BY <1>3, <2>1, <2>3 DEF ReportStep
  <2> QED BY <2>2, <2>3
<1>5. stats' \in [Sources -> Counters] /\ told' \in [Sources -> [top : Nat, got : Nat]]
  <2>1. stats' = [s \in Sources |-> stats'[s]] /\ told' = [s \in Sources |-> told'[s]]
    BY DEF Report
  <2> QED BY <1>4, <2>1
<1>6. Active' = Active
  <2>1. ASSUME NEW s PROVE s \in Active' <=> s \in Active
    <3>1. known \subseteq Sources /\ known' = known
      BY <1>1, <1>2 DEF Typed
    <3> QED BY <1>4, <3>1 DEF Active
  <2> QED BY <2>1
<1>7. Typed'
  BY <1>1, <1>2, <1>5, <1>6 DEF Typed
<1>8. Uncounted'
  <2>1. ASSUME NEW s \in Sources, s \notin Active
        PROVE  stats'[s].received = 0 /\ stats'[s].received_prior = 0
    <3>1. ~ Heard(stats[s]) /\ stats[s].received = 0 /\ stats[s].received_prior = 0
      BY <1>1, <2>1 DEF Uncounted, Heard
    <3> QED BY <1>3, <3>1 DEF ReportStep
  <2> QED BY <1>6, <2>1 DEF Uncounted
<1>9. AllNear'
  <2>1. ASSUME NEW s \in Active
        PROVE  NearNumbers(stats'[s], base[s], top[s], sent[s], told'[s])
    <3>1. s \in Sources
      BY <1>1, <2>1 DEF Active, Typed
    <3>2. NearNumbers(stats[s], base[s], top[s], sent[s], told[s])
      BY <1>1 DEF AllNear, Near, NearNumbers
    <3>3. CASE ~ Heard(stats[s])
      BY <1>3, <3>1, <3>2, <3>3 DEF ReportStep
    <3>4. CASE Heard(stats[s])
      <4>1. /\ told'[s] = [top |-> top[s], got |-> stats[s].received]
            /\ stats'[s] = Reported(stats[s])
        BY <1>3, <3>1, <3>4 DEF ReportStep
      <4>2. /\ told'[s].top = top[s] /\ told'[s].got = stats[s].received
            /\ base[s] \in Nat /\ top[s] \in Nat /\ stats[s] \in Counters
        BY <1>1, <3>1, <4>1 DEF Typed
      <4>3. stats'[s].received_prior = stats[s].received
        <5>1. Reported(stats[s]) = [stats[s] EXCEPT !.expected_prior = Expected(stats[s]),
                                                    !.received_prior = stats[s].received]
          BY <4>2, ReportedFields
        <5> QED BY <4>1, <4>2, <5>1 DEF Counters
      <4>4. stats[s].received \in Nat
        BY <4>2 DEF Counters
      <4> QED BY <1>4, <3>1, <3>2, <4>2, <4>3, <4>4 DEF NearNumbers
    <3> QED BY <3>3, <3>4
  <2> QED BY <1>2, <1>6, <2>1 DEF AllNear, Near, NearNumbers
<1>10. Listed'
  BY <1>1, <1>2, <1>6 DEF Listed, Lists
<1> QED BY <1>2, <1>3, <1>6, <1>7, <1>8, <1>9, <1>10 DEF QueueInv

(* A seek marks validated sources only, because that is what it visits. *)
LEMMA SeekKeeps ==
  ASSUME QueueInv, Seek
  PROVE  QueueInv' /\ Active' = Active
<1>1. UNCHANGED <<stats, known, next_active, active_queue, sent, base, top, told>>
  BY DEF Seek
<1>2. Active' = Active
  BY <1>1 DEF Active
<1>3. Visited = Active
  BY Walk DEF QueueInv, ActiveListExact
<1>4. done_seek' \subseteq Active
  BY <1>3 DEF Seek, QueueInv, Typed
<1>5. Typed'
  BY <1>1, <1>2, <1>4 DEF Typed, QueueInv
<1>6. Uncounted' /\ AllNear' /\ Listed'
  BY <1>1, <1>2 DEF QueueInv, Uncounted, AllNear, Near, Listed, Lists
<1> QED BY <1>2, <1>5, <1>6 DEF QueueInv

(* A session starts with no source known and an empty queue. *)
LEMMA QueueInit == Init => QueueInv
<1> SUFFICES ASSUME Init PROVE QueueInv
  OBVIOUS
<1>1. known = {} /\ Active = {}
  BY DEF Init, Active
<1>2. ZeroStats \in Counters /\ ZeroStats.received = 0 /\ ZeroStats.received_prior = 0
  <2>1. 0 \in Seq16 /\ 0 \in Words /\ 0 \in 0 .. MIN_SEQUENTIAL
    BY Literals DEF Seq16, MIN_SEQUENTIAL, RTP_SEQ_MOD
  <2> QED BY <2>1 DEF ZeroStats, Counters
<1>3. Typed
  <2>1. First \in First .. Last
    BY Bounds
  <2>2. [top |-> 0, got |-> 0] \in [top : Nat, got : Nat] /\ 0 \in Nat
    OBVIOUS
  <2> QED BY <1>1, <1>2, <2>1, <2>2 DEF Init, Typed
<1>4. Uncounted /\ AllNear
  BY <1>1, <1>2 DEF Init, Uncounted, AllNear
<1>5. Lists(<<>>)
  <2>1. <<>> \in Seq(Sources) /\ Len(<<>>) = 0
    OBVIOUS
  <2>2. \A i : i \notin 1 .. 0
    OBVIOUS
  <2> QED BY <1>1, <2>1, <2>2 DEF Init, Lists
<1> QED BY <1>3, <1>4, <1>5 DEF QueueInv, Listed

(* A packet keeps the invariant. *)
LEMMA ReceiveKeeps ==
  ASSUME QueueInv, NEW s \in Sources, Receive(s)
  PROVE  QueueInv'
<1>1. PICK n, r : \E runs, restarts \in BOOLEAN : Arrival(s, n, r, runs, restarts)
  BY ReceiveArrival
<1>2. PICK runs, restarts \in BOOLEAN : Arrival(s, n, r, runs, restarts)
  BY <1>1
<1>3. Typed' /\ Uncounted'
  BY <1>2, ArrivalTyped, ArrivalUncounted
<1>4. AllNear' /\ Listed'
  BY <1>2, ArrivalNear, ArrivalListed
<1> QED BY <1>3, <1>4 DEF QueueInv

(* QueueInv is inductive. *)
LEMMA QueueStep == QueueInv /\ [Next]_vars => QueueInv'
<1> SUFFICES ASSUME QueueInv, [Next]_vars PROVE QueueInv'
  OBVIOUS
<1>1. CASE \E s \in Sources : Receive(s)
  BY <1>1, ReceiveKeeps
<1>2. CASE Seek
  BY <1>2, SeekKeeps
<1>3. CASE Report
  BY <1>3, ReportKeeps
<1>4. CASE UNCHANGED vars
  <2>1. Active' = Active
    BY <1>4 DEF vars, Active
  <2>2. Typed' /\ Uncounted'
    BY <1>4, <2>1 DEF vars, QueueInv, Typed, Uncounted
  <2>3. AllNear'
    BY <1>4, <2>1 DEF vars, QueueInv, AllNear, Near
  <2>4. Listed'
    BY <1>4, <2>1 DEF vars, QueueInv, Listed, Lists
  <2> QED BY <2>2, <2>3, <2>4 DEF QueueInv
<1> QED BY <1>1, <1>2, <1>3, <1>4 DEF Next

(* For any number of senders, whose packets come at most Window early or late, in any
   order, twice or never, and whatever seeks and reports come between: the walk along
   the active queue ends, and reaches exactly the validated sources. *)
THEOREM QueueExact == Spec => []ActiveListExact
<1>1. QueueInv => ActiveListExact
  BY Walk DEF QueueInv
<1> QED BY <1>1, QueueInit, QueueStep, PTL DEF Spec

-----------------------------------------------------------------------------
(* The counts.                                                             *)

(* The numbers a sender uses in a session fit a word, with a cycle to spare. *)
Fits == Last - First + RTP_SEQ_MOD <= Word

(* What the words of a validated source stand for: the packets from base to top, and
   what the last report told. *)
CountsOf(r, b, t, d) ==
  /\ r.cycles = (t - SeqOf(t)) - (b - SeqOf(b))
  /\ r.base_seq = (SeqOf(b) - 1) % Word
  /\ r.expected_prior = (d.top + 2) - b

Counted == \A s \in Active : CountsOf(stats[s], base[s], top[s], told[s])

CountInv == QueueInv /\ Counted

(* The numbers of a validated source stay in the range that was sent. *)
LEMMA SpanBound ==
  ASSUME QueueInv, NEW s \in Active
  PROVE  /\ s \in Sources /\ base[s] \in Nat /\ top[s] \in Nat
         /\ First <= base[s] /\ base[s] <= top[s] /\ top[s] <= Last
         /\ top[s] - base[s] <= Last - First
<1>1. s \in Sources /\ Typed
  BY DEF QueueInv, Typed, Active
<1>2. First <= base[s] /\ base[s] <= top[s] /\ top[s] <= sent[s]
  BY DEF QueueInv, AllNear, Near
<1>3. sent[s] \in Int /\ sent[s] <= Last /\ base[s] \in Nat /\ top[s] \in Nat
  BY <1>1, Numbers
<1>4. First \in Nat /\ Last \in Nat
  BY Bounds
<1> QED BY <1>1, <1>2, <1>3, <1>4

(* Expected(st) is the number of packets, and one more: base_seq is one early. *)
LEMMA ExpectedCounts ==
  ASSUME QueueInv, Fits, NEW s \in Active, CountsOf(stats[s], base[s], top[s], told[s])
  PROVE  /\ stats[s].cycles + stats[s].max_seq - SeqOf(base[s]) = top[s] - base[s]
         /\ Expected(stats[s]) = (top[s] + 2) - base[s]
<1> DEFINE b == base[s]
           t == top[s]
           st == stats[s]
<1>1. /\ s \in Sources /\ b \in Nat /\ t \in Nat /\ b <= t /\ t - b <= Last - First
  BY SpanBound
<1>2. First \in Nat /\ Last \in Nat /\ Word \in Nat /\ Last - First + 65536 <= Word
  BY Bounds, Literals DEF Fits
<1>3. st.max_seq = SeqOf(t)
  BY DEF QueueInv, AllNear, Near
<1>4. SeqOf(b) \in Int /\ 0 <= SeqOf(b) /\ SeqOf(b) < 65536 /\ SeqOf(t) \in Int
  <2>1. b \in Int /\ t \in Int
    BY <1>1
  <2>2. SeqOf(b) \in Seq16 /\ SeqOf(t) \in Seq16
    BY <2>1, Remainder
  <2> QED BY <2>2, WordsAreNumbers
<1>5. /\ st.cycles = (t - SeqOf(t)) - (b - SeqOf(b))
      /\ st.base_seq = (SeqOf(b) - 1) % Word
  BY DEF CountsOf
<1>9. st.cycles \in Int /\ st.max_seq \in Int /\ st.base_seq \in Int
  <2>1. st \in Counters
    BY <1>1, Numbers DEF QueueInv
  <2> HIDE DEF st
  <2> QED BY <2>1, WordsAreNumbers DEF Counters
<1> HIDE DEF b, t, st
<1>6. st.cycles + st.max_seq - SeqOf(b) = t - b
  BY <1>1, <1>3, <1>4, <1>5
<1>7. st.base_seq = IF SeqOf(b) = 0 THEN Word - 1 ELSE SeqOf(b) - 1
  <2>1. Word \in Nat \ {0} /\ SeqOf(b) - 1 \in Int /\ - Word <= SeqOf(b) - 1
        /\ SeqOf(b) - 1 < Word
    BY <1>2, <1>4, Bounds
  <2>2. (SeqOf(b) - 1) % Word = IF SeqOf(b) - 1 < 0 THEN SeqOf(b) - 1 + Word ELSE SeqOf(b) - 1
    BY <2>1, Reduced
  <2> QED BY <1>2, <1>4, <1>5, <2>2
<1>8. Expected(st) = (t + 2) - b
  <2> DEFINE e == st.cycles + st.max_seq - st.base_seq + 1
  <2>1. st.cycles + st.max_seq = t - b + SeqOf(b)
    BY <1>1, <1>3, <1>4, <1>5
  <2>2. CASE SeqOf(b) = 0
    <3>1. e = (t + 2) - b - Word
      BY <1>1, <1>2, <1>7, <1>9, <2>1, <2>2
    <3>2. e \in Int /\ - Word <= e /\ e < 0 /\ Word \in Nat \ {0}
      BY <1>1, <1>2, <3>1, Bounds
    <3> HIDE DEF e
    <3>3. e % Word = e + Word
      BY <1>2, <3>2, Reduced
    <3>4. e % Word = (t + 2) - b
      BY <1>1, <1>2, <3>1, <3>3
    <3> QED BY <3>4 DEF Expected, e
  <2>3. CASE SeqOf(b) # 0
    <3>1. e = (t + 2) - b
      BY <1>1, <1>2, <1>4, <1>7, <1>9, <2>1, <2>3
    <3>2. e \in Int /\ - Word <= e /\ ~ (e < 0) /\ e < Word /\ Word \in Nat \ {0}
      BY <1>1, <1>2, <3>1, Bounds
    <3> HIDE DEF e
    <3>3. e % Word = e
      BY <1>2, <3>2, Reduced
    <3> QED BY <3>1, <3>3 DEF Expected, e
  <2> QED BY <2>2, <2>3
<1> QED BY <1>6, <1>8 DEF b, t, st

(* A packet keeps the counts. *)
LEMMA ArrivalCounted ==
  ASSUME CountInv, Fits, NEW s \in Sources, NEW n, NEW r, NEW runs \in BOOLEAN,
         NEW restarts \in BOOLEAN, Arrival(s, n, r, runs, restarts)
  PROVE  Counted'
<1>1. QueueInv /\ \A u \in Active : CountsOf(stats[u], base[u], top[u], told[u])
  BY DEF CountInv, Counted
<1>2. n \in Nat /\ SeqOf(n) \in Int
  <2>1. n \in Nat /\ SeqOf(n) \in Seq16
    BY <1>1, Arrived DEF QueueInv, Arrival
  <2> QED BY <2>1, WordsAreNumbers
<1>3. ASSUME s \in Active'
      PROVE  CountsOf(stats'[s], base'[s], top'[s], told'[s])
  <2>1. /\ stats'[s] = r
        /\ base'[s] = IF restarts THEN n ELSE base[s]
        /\ top'[s] = IF restarts \/ n > top[s] THEN n ELSE top[s]
        /\ told'[s] = IF restarts THEN [top |-> n - 1, got |-> 0] ELSE told[s]
    BY <1>1, NumbersMove
  <2>2. CASE restarts
    <3>1. Fresh(r, SeqOf(n))
      BY <2>2 DEF Arrival, Outcome
    <3>2. r.cycles = 0 /\ r.base_seq = (SeqOf(n) - 1) % Word /\ r.expected_prior = 1
      BY <3>1 DEF Fresh
    <3>3. base'[s] = n /\ top'[s] = n /\ told'[s].top = n - 1
      BY <2>1, <2>2
    <3>4. (n - SeqOf(n)) - (n - SeqOf(n)) = 0 /\ ((n - 1) + 2) - n = 1
      BY <1>2
    <3> QED BY <2>1, <3>2, <3>3, <3>4 DEF CountsOf
  <2>3. CASE ~ restarts
    <3>1. s \in Active /\ s \notin done_seek
      BY <1>1, <1>3, <2>3, OthersKept DEF Arrival
    <3>2. Continued(s, n, r)
      BY <3>1 DEF Arrival, Outcome
    <3> DEFINE t == IF n > top[s] THEN n ELSE top[s]
               a == top[s]
               b == base[s]
               st == stats[s]
    <3>3. /\ r.base_seq = st.base_seq /\ r.expected_prior = st.expected_prior
          /\ r.cycles = IF SeqOf(t) < SeqOf(a) THEN (st.cycles + 65536) % Word ELSE st.cycles
      BY <3>2 DEF Continued, RTP_SEQ_MOD
    <3>4. base'[s] = b /\ top'[s] = t /\ told'[s] = told[s]
      BY <2>1, <2>3
    <3>5. /\ st.cycles = (a - SeqOf(a)) - (b - SeqOf(b))
          /\ st.base_seq = (SeqOf(b) - 1) % Word
          /\ st.expected_prior = (told[s].top + 2) - b
      BY <1>1, <3>1 DEF CountsOf
    <3>6. a \in Nat /\ b \in Nat /\ b <= a /\ a <= t /\ t \in Nat /\ t < a + 65536
      <4>1. a \in Nat /\ b \in Nat /\ b <= a
        BY <1>1, <3>1, SpanBound
      <4>2. n \in Int /\ n <= sent[s] + Window
        BY <1>1, <1>2, Arrived DEF QueueInv, Arrival
      <4>3. sent[s] <= a + Window /\ sent[s] \in Int
        BY <1>1, <3>1, Numbers DEF QueueInv, AllNear, Near
      <4> QED BY <1>2, <4>1, <4>2, <4>3, Bounds
    <3>7. t - b <= Last - First
      <4>1. a <= Last /\ First <= b
        BY <1>1, <3>1, SpanBound
      <4>2. n <= Last
        BY <1>1, Arrived DEF QueueInv, Arrival
      <4>3. t <= Last
        BY <4>1, <4>2
      <4> HIDE DEF t, a, b
      <4> QED BY <3>6, <4>1, <4>3, Bounds
    <3> HIDE DEF t, a, b, st
    <3>8. t - SeqOf(t) = a - SeqOf(a) + (IF SeqOf(t) < SeqOf(a) THEN 65536 ELSE 0)
      <4>1. a - 65536 < t
        BY <3>6
      <4> QED BY <3>6, <4>1, Distance
    <3>9. SeqOf(t) \in Int /\ SeqOf(a) \in Int /\ SeqOf(b) \in Int
          /\ 0 <= SeqOf(t) /\ SeqOf(b) < 65536
      <4>1. SeqOf(t) \in Seq16 /\ SeqOf(a) \in Seq16 /\ SeqOf(b) \in Seq16
        <5>1. t \in Int /\ a \in Int /\ b \in Int
          BY <3>6
        <5> QED BY <5>1, Remainder
      <4> QED BY <4>1, WordsAreNumbers
    <3>10. r.cycles = (t - SeqOf(t)) - (b - SeqOf(b))
      <4>1. CASE SeqOf(t) < SeqOf(a)
        <5> DEFINE c == st.cycles + 65536
        <5>1. c = (t - SeqOf(t)) - (b - SeqOf(b)) /\ c \in Int
          BY <3>5, <3>6, <3>8, <3>9, <4>1
        <5>2. c < Word
          BY <3>6, <3>7, <3>9, <5>1, Bounds, Literals DEF Fits
        <5>3. ~ (c < 0) /\ Word \in Nat \ {0} /\ - Word <= c
          <6>1. stats[s] \in Counters
            BY <1>1, Numbers DEF QueueInv
          <6>2. st.cycles \in Nat
            BY <6>1, WordsAreNumbers DEF Counters, st
          <6> QED BY <6>2, Literals
        <5> HIDE DEF c
        <5>4. c % Word = c
          BY <5>1, <5>2, <5>3, Reduced
        <5> QED BY <3>3, <4>1, <5>1, <5>4 DEF c
      <4>2. CASE ~ (SeqOf(t) < SeqOf(a))
        BY <3>3, <3>5, <3>6, <3>8, <3>9, <4>2
      <4> QED BY <4>1, <4>2
    <3> QED BY <2>1, <3>3, <3>4, <3>5, <3>10 DEF CountsOf
  <2> QED BY <2>2, <2>3
<1>4. ASSUME NEW u \in Active'
      PROVE  CountsOf(stats'[u], base'[u], top'[u], told'[u])
  <2>1. u \in Sources
    BY <1>1, <1>4, OthersKept
  <2>2. CASE u = s
    BY <1>3, <1>4, <2>2
  <2>3. CASE u # s
    BY <1>1, <1>4, <2>1, <2>3, OthersKept
  <2> QED BY <2>2, <2>3
<1> QED BY <1>4 DEF Counted

(* A report keeps the counts, and tells the newest. *)
LEMMA ReportCounted ==
  ASSUME CountInv, Fits, Report
  PROVE  Counted'
<1>1. /\ QueueInv /\ QueueInv' /\ Active' = Active /\ UNCHANGED <<base, top, sent>>
      /\ \A s \in Sources : ReportStep(s)
  BY ReportKeeps DEF CountInv
<1>2. ASSUME NEW s \in Active
      PROVE  CountsOf(stats'[s], base[s], top[s], told'[s])
  <2>1. s \in Sources /\ stats[s] \in Counters
    BY <1>1, SpanBound, Numbers DEF QueueInv
  <2>2. CountsOf(stats[s], base[s], top[s], told[s])
    BY DEF CountInv, Counted
  <2>3. CASE ~ Heard(stats[s])
    BY <1>1, <2>1, <2>2, <2>3 DEF ReportStep
  <2>4. CASE Heard(stats[s])
    <3>1. stats'[s] = Reported(stats[s])
          /\ told'[s] = [top |-> top[s], got |-> stats[s].received]
      BY <1>1, <2>1, <2>4 DEF ReportStep
    <3>2. Expected(stats[s]) = (top[s] + 2) - base[s]
      BY <1>1, <2>2, ExpectedCounts
    <3>3. Reported(stats[s]) = [stats[s] EXCEPT !.expected_prior = Expected(stats[s]),
                                                !.received_prior = stats[s].received]
      BY <2>1, ReportedFields
    <3>4. told'[s].top = top[s]
      BY <3>1
    <3>5. /\ stats'[s].cycles = stats[s].cycles /\ stats'[s].base_seq = stats[s].base_seq
          /\ stats'[s].expected_prior = Expected(stats[s])
      BY <2>1, <3>1, <3>3 DEF Counters
    <3> QED BY <2>2, <3>2, <3>4, <3>5 DEF CountsOf
  <2> QED BY <2>3, <2>4
<1> QED BY <1>1, <1>2 DEF Counted

(* CountInv is inductive, as long as the numbers fit. *)
LEMMA CountStep ==
  ASSUME Fits, CountInv, [Next]_vars
  PROVE  CountInv'
<1>1. QueueInv /\ QueueInv'
  BY QueueStep DEF CountInv
<1>2. CASE \E s \in Sources : Receive(s)
  <2>1. PICK s \in Sources : Receive(s)
    BY <1>2
  <2>2. PICK n, r : \E runs, restarts \in BOOLEAN : Arrival(s, n, r, runs, restarts)
    BY <1>1, <2>1, ReceiveArrival
  <2>3. PICK runs, restarts \in BOOLEAN : Arrival(s, n, r, runs, restarts)
    BY <2>2
  <2>4. Counted'
    BY <2>3, ArrivalCounted
  <2> QED BY <1>1, <2>4 DEF CountInv
<1>3. CASE Seek
  <2>1. Active' = Active /\ UNCHANGED <<stats, base, top, told>>
    BY <1>1, <1>3, SeekKeeps DEF Seek
  <2> QED BY <1>1, <2>1 DEF CountInv, Counted
<1>4. CASE Report
  BY <1>1, <1>4, ReportCounted DEF CountInv
<1>5. CASE UNCHANGED vars
  <2>1. Active' = Active
    BY <1>5 DEF vars, Active
  <2> QED BY <1>1, <1>5, <2>1 DEF vars, CountInv, Counted
<1> QED BY <1>2, <1>3, <1>4, <1>5 DEF Next

(* At the start nothing is counted. *)
LEMMA CountInit == Init => CountInv
<1>1. Init => Active = {}
  BY DEF Init, Active
<1> QED BY <1>1, QueueInit DEF CountInv, Counted

(* For any number of senders whose numbers fit a word: cycles + max_seq follows the
   sender's own count, through every wrap of the 16 bits, early and late packets and
   seeks. *)
THEOREM CountsExact == Fits => (Spec => []StatsOK)
<1> SUFFICES ASSUME Fits PROVE Spec => []StatsOK
  OBVIOUS
<1>1. CountInv => StatsOK
  <2> SUFFICES ASSUME CountInv PROVE StatsOK
    OBVIOUS
  <2>1. Typed
    BY DEF CountInv, QueueInv
  <2>2. TypeOK
    <3>1. done_seek \subseteq known
      BY <2>1 DEF Typed, Active
    <3>2. \A s \in Sources : /\ stats[s].max_seq \in 0 .. RTP_SEQ_MOD - 1
                             /\ stats[s].cycles \in 0 .. Word - 1
                             /\ stats[s].probation \in 0 .. MIN_SEQUENTIAL
      BY <2>1 DEF Typed, Counters, Seq16, Words
    <3> QED BY <2>1, <3>1, <3>2 DEF TypeOK, Typed
  <2>3. ExtendedExact
    BY ExpectedCounts DEF ExtendedExact, CountInv, Counted
  <2> QED BY <2>2, <2>3 DEF StatsOK
<1>2. Init => CountInv
  BY CountInit
<1>3. CountInv /\ [Next]_vars => CountInv'
  BY CountStep
<1> QED BY <1>1, <1>2, <1>3, PTL DEF Spec

-----------------------------------------------------------------------------
(* The reports.                                                            *)

(* What a report block can say: the loss in 24 bits, and its share, multiplied by 256,
   in a word. *)
Room == /\ 256 * (Last - First + MaxReceived + 2) <= Word
        /\ Last - First + MaxReceived + 2 <= 8388607

(* A part of the whole, in 256ths, has eight bits. *)
LEMMA Share ==
  ASSUME NEW w \in Nat, NEW g \in Nat, g < w
  PROVE  (256 * g) \div w \in 0 .. 255
<1> DEFINE x == 256 * g
           q == x \div w
           e == x % w
<1>1. x \in Nat /\ w \in Nat \ {0} /\ x < 256 * w
  OBVIOUS
<1> HIDE DEF x
<1>2. q \in Int /\ 0 <= q /\ e \in Int /\ 0 <= e /\ x = w * q + e
  BY <1>1
<1> HIDE DEF q, e
<1>3. ~ (q >= 256)
  <2> SUFFICES ASSUME q >= 256 PROVE FALSE
    OBVIOUS
  <2>1. PICK k \in Nat : q = 256 + k
    <3>1. q - 256 \in Nat /\ q = 256 + (q - 256)
      BY <1>2
    <3> QED BY <3>1
  <2>2. w * q = w * 256 + w * k /\ w * k \in Nat
    BY <2>1
  <2> QED BY <1>1, <1>2, <2>2
<1>4. q \in 0 .. 255
  BY <1>2, <1>3
<1> QED BY <1>4 DEF q, x

(* A number taken as a word: the negative ones wrap. *)
LEMMA AsWord ==
  ASSUME NEW d \in Int, - Word <= d, d < Word
  PROVE  d % Word = IF d < 0 THEN d + Word ELSE d
<1>1. Word \in Nat \ {0}
  BY Literals
<1> QED BY <1>1, Reduced

(* A small number, taken as a word and back, and cut to 24 bits, is itself. *)
LEMMA SmallSigned ==
  ASSUME NEW d \in Int, NEW m \in Nat, 2 <= m, 256 * m <= Word, m <= 8388607,
         - m <= d, d <= m
  PROVE  Clamp(Signed(d % Word)) = d
<1> DEFINE h == Word \div 2
           w == d % Word
<1>1. Word \in Nat \ {0} /\ Word \in Int
  BY Literals
<1>2. h \in Int /\ 2 * h <= Word /\ Word <= 2 * h + 1
  BY <1>1
<1>3. w = IF d < 0 THEN d + Word ELSE d
  <2>1. - Word <= d /\ d < Word
    BY <1>1
  <2> QED BY <2>1, AsWord
<1> HIDE DEF h, w
<1>4. Signed(w) = IF w >= h THEN w - Word ELSE w
  BY DEF Signed, h
<1>5. Signed(w) = d
  BY <1>1, <1>2, <1>3, <1>4
<1>6. Clamp(d) = LET t == IF h < 8388607 THEN h ELSE 8388607
                 IN  IF d > t THEN t ELSE IF d < - t - 1 THEN - t - 1 ELSE d
  BY DEF Clamp, h
<1>7. Clamp(d) = d
  BY <1>1, <1>2, <1>6
<1> QED BY <1>5, <1>7 DEF w

(* The block a validated source's report carries, in the sender's numbers. *)
LEMMA BlockTells ==
  ASSUME CountInv, Fits, Room, NEW s \in Active, Heard(stats[s])
  PROVE  /\ Block(stats[s]).lost = (top[s] - base[s] + 1) - stats[s].received
         /\ Gone(s) >= 0 => Block(stats[s]).fraction =
              IF Gone(s) = 0 THEN 0 ELSE (256 * Gone(s)) \div (top[s] - told[s].top)
<1> DEFINE st == stats[s]
           t == top[s]
           b == base[s]
           d == told[s].top
           g == told[s].got
           rec == st.received
           m == Last - First + MaxReceived + 2
           lost == Gone(s)
<1>1. /\ s \in Sources /\ b \in Nat /\ t \in Nat /\ b <= t /\ t - b <= Last - First
  BY SpanBound DEF CountInv
<1>2. /\ b - 1 <= d /\ d <= t /\ g <= rec /\ st.received_prior = g
      /\ 1 <= rec /\ rec <= MaxReceived
  BY DEF CountInv, QueueInv, AllNear, Near
<1>3. st \in Counters /\ d \in Nat /\ g \in Nat
  BY <1>1, Numbers DEF CountInv, QueueInv
<1>4. CountsOf(st, b, t, told[s])
  BY DEF CountInv, Counted
<1>5. Expected(st) = (t + 2) - b
  BY <1>4, ExpectedCounts DEF CountInv
<1>6. st.expected_prior = (d + 2) - b
  BY <1>4 DEF CountsOf
<1>7. rec \in Nat /\ rec # g
  BY <1>2, <1>3 DEF Counters, Heard
<1>8. lost = (t - d) - (rec - g)
  BY DEF Gone
<1>9. First \in Nat /\ Last \in Nat /\ MaxReceived \in Nat /\ Word \in Nat \ {0}
  BY Bounds, Literals
<1>10. m \in Nat /\ 2 <= m /\ 256 * m <= Word /\ m <= 8388607
  <2>1. First <= Last
    BY Bounds
  <2> QED BY <1>9, <2>1 DEF Room
<1>11. t - b + 1 <= m /\ rec <= m /\ t - d <= m - 1
  BY <1>1, <1>2, <1>3, <1>7, <1>9
<1> HIDE DEF t, b, d, g, rec, m, lost
<1>12. Block(st).lost = (t - b + 1) - rec
  <2> DEFINE x == (t - b + 1) - rec
  <2>1. x \in Int /\ - m <= x /\ x <= m
    BY <1>1, <1>2, <1>7, <1>10, <1>11
  <2>2. Expected(st) - rec - 1 = x
    BY <1>1, <1>5, <1>7
  <2> HIDE DEF x
  <2>3. Clamp(Signed(x % Word)) = x
    BY <1>10, <2>1, SmallSigned
  <2>4. Block(st).lost = Clamp(Signed((Expected(st) - rec - 1) % Word))
    BY DEF Block, rec
  <2> QED BY <2>2, <2>3, <2>4 DEF x
<1>13. ASSUME lost >= 0
       PROVE  Block(st).fraction = IF lost = 0 THEN 0 ELSE (256 * lost) \div (t - d)
  <2> DEFINE i == t - d
             q == (256 * lost) \div i
  <2>1. /\ i \in Nat /\ lost \in Nat /\ lost < i /\ 256 * lost < Word /\ i < Word
        /\ - Word <= i /\ - Word <= lost /\ - Word <= 256 * lost /\ lost < Word
    BY <1>2, <1>3, <1>1, <1>7, <1>8, <1>9, <1>10, <1>11, <1>13
  <2>2. Expected(st) - st.expected_prior = i
    BY <1>1, <1>3, <1>5, <1>6
  <2> HIDE DEF i
  <2>3. ExpectedInterval(st) = i
    <3>1. i % Word = i
      BY <1>9, <2>1, Reduced
    <3> QED BY <2>2, <3>1 DEF ExpectedInterval
  <2>4. i - (rec - g) = lost
    BY <1>8 DEF i
  <2>5. LostInterval(st) = lost
    <3>1. lost % Word = lost
      BY <1>9, <2>1, Reduced
    <3> QED BY <1>2, <2>3, <2>4, <3>1 DEF LostInterval, rec
  <2>6. (lost * 256) % Word = 256 * lost
    <3>1. lost * 256 = 256 * lost /\ 256 * lost \in Int /\ ~ (256 * lost < 0)
      BY <2>1
    <3>2. (256 * lost) % Word = 256 * lost
      BY <1>9, <2>1, <3>1, Reduced
    <3> QED BY <3>1, <3>2
  <2>7. q % 256 = q
    <3>1. q \in 0 .. 255
      BY <2>1, Share
    <3> HIDE DEF q
    <3> QED BY <3>1
  <2>8. Block(st).fraction = IF i = 0 \/ lost = 0 THEN 0 ELSE q % 256
    BY <2>3, <2>5, <2>6 DEF Block
  <2>9. i # 0
    BY <2>1
  <2> QED BY <2>7, <2>8, <2>9 DEF i, q
<1> QED BY <1>12, <1>13 DEF st, t, b, d, g, rec, lost

(* The loss a report block tells, in total and in 256ths of what was sent since the last
   report, is the loss in the sender's own numbers: whatever order the packets came in,
   and whatever seeks restarted the counters, as long as the numbers fit. *)
THEOREM ReportsExact == Fits /\ Room => (Spec => []ReportExact)
<1> SUFFICES ASSUME Fits, Room PROVE Spec => []ReportExact
  OBVIOUS
<1>1. CountInv => ReportExact
  BY BlockTells DEF ReportExact, LostExact, FractionExact
<1>2. Init => CountInv
  BY CountInit
<1>3. CountInv /\ [Next]_vars => CountInv'
  BY CountStep
<1> QED BY <1>1, <1>2, <1>3, PTL DEF Spec
=============================================================================
