------------------------- MODULE RtspChannelProofs -------------------------
(***************************************************************************)
(* Proofs about the connection of src/rtsp and what is carried over it:    *)
(* first its receiving half (RtspFraming), then SETUP, where the channels  *)
(* of the media are agreed (TransportSetup).                               *)
(***************************************************************************)
EXTENDS RtspFraming, TransportSetup, WellFoundedInduction, FiniteSetTheorems,
        SequenceTheorems, TLAPS

-----------------------------------------------------------------------------
(* Numbers.                                                                *)

(* A non-empty set of natural numbers has a least one: the counterexample a search
   through a queue, or the turns of a loop, would meet first. *)
LEMMA LeastNat ==
  ASSUME NEW T \in SUBSET Nat, T # {}
  PROVE  \E m \in T : \A k \in T : m <= k
<1> DEFINE R == OpToRel(<, Nat)
<1>1. IsWellFoundedOn(R, Nat)
  BY NatLessThanWellFounded
<1>2. \A x, y \in Nat : x < y => <<x, y>> \in R
  BY DEF OpToRel
<1> HIDE DEF R
<1>3. PICK m \in T : \A k \in T : ~ (<<k, m>> \in R)
  BY <1>1, WFMin
<1>4. \A x, y \in Nat : ~ (x < y) => y <= x
  OBVIOUS
<1> QED BY <1>2, <1>3, <1>4

(* A set of numbers that has 0 and, up to n, the successor of each member has all
   of them up to n: induction, for a property that is given by a set. *)
LEMMA UpTo ==
  ASSUME NEW n \in Nat, NEW T, 0 \in T, \A k \in 0 .. n - 1 : k \in T => k + 1 \in T
  PROVE  0 .. n \subseteq T
<1> SUFFICES ASSUME ~ (0 .. n \subseteq T) PROVE FALSE
  OBVIOUS
<1> DEFINE B == {k \in 0 .. n : k \notin T}
<1>1. B \in SUBSET Nat /\ B # {}
  OBVIOUS
<1>2. PICK m \in B : \A k \in B : m <= k
  BY <1>1, LeastNat
<1>3. m \in Nat /\ m <= n /\ m # 0 /\ m \notin T
  BY <1>2
<1>4. m - 1 \in 0 .. n - 1 /\ m - 1 \notin B /\ (m - 1) + 1 = m
  BY <1>2, <1>3
<1>5. m - 1 \in T
  BY <1>4
<1> QED BY <1>3, <1>4, <1>5

-----------------------------------------------------------------------------
(* Folds over a sequence, and the two operators that are defined by one.   *)

(* The values of a fold: what it has after each element. *)
IsFold(h, n, S, base, Step) == /\ h \in [0 .. n -> S] /\ h[0] = base
                               /\ \A k \in 1 .. n : h[k] = Step[<<k, h[k - 1]>>]

(* A fold has a value after every element. *)
LEMMA FoldRuns ==
  ASSUME NEW S, NEW base \in S, NEW n \in Nat, NEW Step, Step \in [(1 .. n) \X S -> S]
  PROVE  \E h : IsFold(h, n, S, base, Step)
<1> DEFINE Run(h, m) == IsFold(h, m, S, base, Step)
           T == {m \in 0 .. n : \E h : Run(h, m)}
<1>1. 0 \in T
  <2>1. Run([k \in 0 .. 0 |-> base], 0)
    BY DEF IsFold
  <2> QED BY <2>1
<1>2. ASSUME NEW m \in 0 .. n - 1, m \in T PROVE m + 1 \in T
  <2>1. PICK h : Run(h, m)
    BY <1>2
  <2> DEFINE e == [k \in 0 .. m + 1 |-> IF k = m + 1 THEN Step[<<m + 1, h[m]>>] ELSE h[k]]
  <2>2. /\ m \in Nat /\ m + 1 \in 1 .. n /\ h[m] \in S /\ \A k \in 0 .. m : h[k] \in S
        /\ h[0] = base /\ \A k \in 1 .. m : h[k] = Step[<<k, h[k - 1]>>]
    BY <2>1 DEF IsFold
  <2>3. Step[<<m + 1, h[m]>>] \in S
    BY <2>2
  <2>4. e \in [0 .. m + 1 -> S] /\ e[0] = base
    BY <2>2, <2>3
  <2>5. ASSUME NEW k \in 1 .. m + 1 PROVE e[k] = Step[<<k, e[k - 1]>>]
    <3>1. CASE k = m + 1
      <4>1. k - 1 = m /\ m \in 0 .. m + 1 /\ m # m + 1 /\ m + 1 \in 0 .. m + 1
        BY <2>2, <3>1
      <4>2. e[m] = h[m] /\ e[m + 1] = Step[<<m + 1, h[m]>>]
        BY <4>1
      <4> HIDE DEF e
      <4> QED BY <3>1, <4>1, <4>2
    <3>2. CASE k \in 1 .. m
      <4>1. k - 1 # m + 1 /\ k # m + 1 /\ k \in 0 .. m + 1 /\ k - 1 \in 0 .. m + 1
        BY <2>2, <3>2
      <4>2. e[k] = h[k] /\ e[k - 1] = h[k - 1]
        BY <4>1
      <4> HIDE DEF e
      <4> QED BY <2>2, <3>2, <4>2
    <3> QED BY <2>2, <3>1, <3>2
  <2>6. Run(e, m + 1)
    BY <2>4, <2>5 DEF IsFold
  <2>7. m + 1 \in 0 .. n
    BY <2>2
  <2> HIDE DEF Run, e
  <2> QED BY <2>6, <2>7
<1>3. n \in T
  <2> HIDE DEF T
  <2> QED BY <1>1, <1>2, UpTo
<1> QED BY <1>3

(* Concatenation, by its properties alone. *)
Joined(a, b) == a \o b

(* u has the n elements of a, and then the k of b. *)
IsJoin(u, a, n, b, k) == /\ Len(u) = n + k
                         /\ \A i \in 1 .. n : u[i] = a[i]
                         /\ \A i \in 1 .. k : u[n + i] = b[i]

LEMMA JoinedSeq ==
  ASSUME NEW S, NEW a \in Seq(S), NEW b \in Seq(S)
  PROVE  Joined(a, b) \in Seq(S) /\ IsJoin(Joined(a, b), a, Len(a), b, Len(b))
<1> DEFINE n == Len(a)
           k == Len(b)
           u == Joined(a, b)
<1>1. n \in Nat /\ k \in Nat
  OBVIOUS
<1>2. /\ u \in Seq(S) /\ Len(u) = n + k
      /\ \A i \in 1 .. n + k : u[i] = IF i <= n THEN a[i] ELSE b[i - n]
  BY ConcatProperties DEF Joined
<1> HIDE DEF n, k, u
<1>3. \A i \in 1 .. n : i \in 1 .. n + k /\ i <= n
  BY <1>1
<1>4. \A i \in 1 .. k : n + i \in 1 .. n + k /\ ~ (n + i <= n) /\ n + i - n = i
  BY <1>1
<1>5. ASSUME NEW i \in 1 .. n PROVE u[i] = a[i]
  BY <1>2, <1>3
<1>6. ASSUME NEW i \in 1 .. k PROVE u[n + i] = b[i]
  <2> DEFINE j == n + i
  <2>1. j \in 1 .. n + k /\ ~ (j <= n) /\ j - n = i
    BY <1>1
  <2> HIDE DEF j
  <2>2. u[j] = b[j - n]
    <3>1. \A x \in 1 .. n + k : u[x] = IF x <= n THEN a[x] ELSE b[x - n]
      BY <1>2
    <3> QED BY <2>1, <3>1
  <2>3. u[j] = b[i]
    BY <2>1, <2>2
  <2> QED BY <2>3 DEF j
<1>7. IsJoin(u, a, n, b, k)
  <2>1. Len(u) = n + k
    BY <1>2
  <2> QED BY <1>5, <1>6, <2>1 DEF IsJoin
<1> QED BY <1>2, <1>7 DEF n, k, u

(* The first part of a sequence. *)
LEMMA FirstPart ==
  ASSUME NEW S, NEW s \in Seq(S), NEW n \in 0 .. Len(s)
  PROVE  /\ SubSeq(s, 1, n) \in Seq(S) /\ Len(SubSeq(s, 1, n)) = n
         /\ \A i \in 1 .. n : SubSeq(s, 1, n)[i] = s[i]
<1> DEFINE h == SubSeq(s, 1, n)
<1>1. n \in Nat /\ n <= Len(s) /\ Len(s) \in Nat /\ \A i \in 1 .. Len(s) : s[i] \in S
  OBVIOUS
<1>2. \A i \in 1 .. n : s[i] \in S
  BY <1>1
<1>3. /\ h \in Seq(S) /\ Len(h) = IF 1 <= n THEN n - 1 + 1 ELSE 0
      /\ \A i \in 1 .. n - 1 + 1 : h[i] = s[1 + i - 1]
  BY <1>1, <1>2, SubSeqProperties
<1>4. n - 1 + 1 = n /\ \A i \in 1 .. n : 1 + i - 1 = i
  BY <1>1
<1> HIDE DEF h
<1>5. h \in Seq(S) /\ Len(h) = n /\ \A i \in 1 .. n : h[i] = s[i]
  BY <1>1, <1>3, <1>4
<1> QED BY <1>5 DEF h

(* The rest of it. *)
LEMMA LastPart ==
  ASSUME NEW S, NEW s \in Seq(S), NEW n \in 0 .. Len(s)
  PROVE  LET t == SubSeq(s, n + 1, Len(s))
         IN  /\ t \in Seq(S) /\ Len(t) = Len(s) - n
             /\ \A i \in 1 .. Len(s) - n : t[i] = s[n + i]
<1> DEFINE t == SubSeq(s, n + 1, Len(s))
           k == Len(s) - n
<1>1. n \in Nat /\ n <= Len(s) /\ Len(s) \in Nat /\ \A i \in 1 .. Len(s) : s[i] \in S
  OBVIOUS
<1>2. k \in Nat /\ k = Len(s) - n
  BY <1>1
<1>3. /\ t \in Seq(S) /\ Len(t) = IF n + 1 <= Len(s) THEN Len(s) - (n + 1) + 1 ELSE 0
      /\ \A i \in 1 .. Len(s) - (n + 1) + 1 : t[i] = s[n + 1 + i - 1]
  <2>1. \A i \in n + 1 .. Len(s) : s[i] \in S
    BY <1>1
  <2>2. n + 1 \in Int /\ Len(s) \in Int
    BY <1>1
  <2> QED BY <2>1, <2>2, SubSeqProperties
<1> HIDE DEF t, k
<1>4. Len(t) = k
  BY <1>1, <1>2, <1>3
<1>5. ASSUME NEW i \in 1 .. k PROVE t[i] = s[n + i]
  <2>1. n + 1 + i - 1 = n + i
    BY <1>1
  <2>2. i \in 1 .. Len(s) - (n + 1) + 1
    BY <1>1, <1>2
  <2>3. t[i] = s[n + 1 + i - 1]
    BY <1>3, <2>2
  <2> QED BY <2>1, <2>3
<1>6. /\ t \in Seq(S) /\ Len(t) = Len(s) - n
      /\ \A i \in 1 .. Len(s) - n : t[i] = s[n + i]
  BY <1>2, <1>3, <1>4, <1>5
<1> QED BY <1>6 DEF t

LEMMA JoinedTail ==
  ASSUME NEW S, NEW a \in Seq(S), NEW b \in Seq(S)
  PROVE  SubSeq(Joined(a, b), Len(a) + 1, Len(Joined(a, b))) = b
<1> DEFINE u == Joined(a, b)
           t == SubSeq(u, Len(a) + 1, Len(u))
<1>1. /\ u \in Seq(S) /\ Len(u) = Len(a) + Len(b) /\ Len(a) \in Nat /\ Len(b) \in Nat
      /\ \A i \in 1 .. Len(b) : u[Len(a) + i] = b[i]
  <2>1. Len(a) \in Nat /\ Len(b) \in Nat
    OBVIOUS
  <2>2. u \in Seq(S) /\ IsJoin(u, a, Len(a), b, Len(b))
    BY JoinedSeq
  <2> HIDE DEF u
  <2> QED BY <2>1, <2>2 DEF IsJoin
<1> HIDE DEF u
<1>2. /\ t \in Seq(S) /\ Len(t) = Len(b)
      /\ \A i \in 1 .. Len(b) : t[i] = u[Len(a) + i]
  <2>1. Len(a) \in 0 .. Len(u) /\ Len(u) - Len(a) = Len(b)
    BY <1>1
  <2> HIDE DEF t
  <2>2. /\ t \in Seq(S) /\ Len(t) = Len(u) - Len(a)
        /\ \A i \in 1 .. Len(u) - Len(a) : t[i] = u[Len(a) + i]
    BY <1>1, <2>1, LastPart DEF t
  <2> QED BY <2>1, <2>2
<1> HIDE DEF t
<1>3. t = b
  BY <1>1, <1>2, SeqEqual
<1> QED BY <1>3 DEF t, u

LEMMA JoinedEmpty ==
  ASSUME NEW S, NEW a \in Seq(S)
  PROVE  Joined(<<>>, a) = a /\ Joined(a, <<>>) = a
BY ConcatEmptySeq DEF Joined

LEMMA JoinedAssociative ==
  ASSUME NEW S, NEW a \in Seq(S), NEW b \in Seq(S), NEW c \in Seq(S)
  PROVE  Joined(Joined(a, b), c) = Joined(a, Joined(b, c))
BY ConcatAssociative, SMT DEF Joined

(* The bytes of the first messages of s, after each of them. *)
IsFlat(h, s, S) == /\ h \in [0 .. Len(s) -> Seq(S)] /\ h[0] = <<>>
                   /\ \A k \in 1 .. Len(s) : h[k] = Joined(h[k - 1], s[k])

(* FlattenSeq is the concatenation of the elements from the first to the last. *)
LEMMA Flat ==
  ASSUME NEW S, NEW s \in Seq(Seq(S))
  PROVE  \E h : IsFlat(h, s, S) /\ FlattenSeq(s) = h[Len(s)]
<1> DEFINE n == Len(s)
           Step == [p \in (1 .. n) \X Seq(S) |-> Joined(p[2], s[p[1]])]
           G(f) == [i \in 1 .. n |-> IF i = 1 THEN s[i] ELSE Joined(f[i - 1], s[i])]
           c == CHOOSE f : f = G(f)
<1>1. n \in Nat /\ \A k \in 1 .. n : s[k] \in Seq(S)
  OBVIOUS
<1>2. Step \in [(1 .. n) \X Seq(S) -> Seq(S)] /\ <<>> \in Seq(S)
  <2>1. ASSUME NEW p \in (1 .. n) \X Seq(S) PROVE Joined(p[2], s[p[1]]) \in Seq(S)
    <3>1. p[2] \in Seq(S) /\ s[p[1]] \in Seq(S)
      BY <1>1
    <3> QED BY <3>1, JoinedSeq
  <2> QED BY <2>1
<1> HIDE DEF Step, n
<1>3. PICK h : IsFold(h, n, Seq(S), <<>>, Step)
  BY <1>1, <1>2, FoldRuns
<1>4. h \in [0 .. n -> Seq(S)] /\ h[0] = <<>> /\ \A k \in 1 .. n : h[k] = Joined(h[k - 1], s[k])
  <2>1. /\ h \in [0 .. n -> Seq(S)] /\ h[0] = <<>>
        /\ \A k \in 1 .. n : h[k] = Step[<<k, h[k - 1]>>]
    BY <1>3 DEF IsFold
  <2>2. ASSUME NEW k \in 1 .. n PROVE h[k] = Joined(h[k - 1], s[k])
    <3>1. h[k - 1] \in Seq(S)
      <4>1. k - 1 \in 0 .. n
        BY <1>1
      <4> QED BY <2>1, <4>1
    <3>2. Step[<<k, h[k - 1]>>] = Joined(h[k - 1], s[k])
      BY <3>1 DEF Step
    <3> QED BY <2>1, <3>2
  <2> QED BY <2>1, <2>2
<1>5. CASE n = 0
  <2>1. s = <<>> /\ FlattenSeq(s) = s
    BY <1>5 DEF FlattenSeq, n
  <2> QED BY <1>4, <1>5, <2>1 DEF IsFlat, n
<1>6. CASE n # 0
  <2>1. FlattenSeq(s) = c[n]
    BY <1>6 DEF FlattenSeq, n, Joined
  <2> DEFINE e == [i \in 1 .. n |-> h[i]]
  <2>2. e = G(e)
    <3>1. ASSUME NEW i \in 1 .. n PROVE h[i] = IF i = 1 THEN s[i] ELSE Joined(h[i - 1], s[i])
      <4>1. CASE i = 1
        <5>1. i - 1 = 0 /\ h[i - 1] = <<>>
          BY <1>4, <4>1
        <5>2. h[i] = Joined(h[i - 1], s[i]) /\ s[i] \in Seq(S)
          BY <1>1, <1>4
        <5>3. Joined(<<>>, s[i]) = s[i]
          BY <5>2, JoinedEmpty
        <5> QED BY <4>1, <5>1, <5>2, <5>3
      <4>2. CASE i # 1
        BY <1>4, <4>2
      <4> QED BY <4>1, <4>2
    <3>2. \A i \in 1 .. n : i # 1 => i - 1 \in 1 .. n
      BY <1>1
    <3>3. \A i \in 1 .. n : e[i] = h[i]
      OBVIOUS
    <3>4. G(e) = [i \in 1 .. n |-> h[i]]
      <4> HIDE DEF e
      <4> QED BY <3>1, <3>2, <3>3
    <3> QED BY <3>4
  <2>3. c = G(c)
    <3> HIDE DEF e, G
    <3> QED BY <2>2
  <2> HIDE DEF c
  <2>4. \A i \in 1 .. n : c[i] = IF i = 1 THEN s[i] ELSE Joined(c[i - 1], s[i])
    BY <2>3
  <2> DEFINE T == {k \in 0 .. n : k = 0 \/ c[k] = h[k]}
  <2>5. ASSUME NEW k \in 0 .. n - 1, k \in T PROVE k + 1 \in T
    <3>1. k + 1 \in 1 .. n /\ (k + 1) - 1 = k /\ k + 1 \in 0 .. n
      BY <1>1
    <3>2. CASE k = 0
      <4>1. k + 1 = 1 /\ h[k] = <<>>
        BY <1>4, <3>2
      <4>2. h[k + 1] = Joined(h[k], s[k + 1]) /\ s[k + 1] \in Seq(S)
        BY <1>1, <1>4, <3>1
      <4>3. Joined(<<>>, s[k + 1]) = s[k + 1]
        BY <4>2, JoinedEmpty
      <4>4. c[k + 1] = s[k + 1]
        BY <2>4, <3>1, <4>1
      <4> QED BY <3>1, <4>1, <4>2, <4>3, <4>4
    <3>3. CASE k # 0
      <4>1. c[k] = h[k] /\ k + 1 # 1
        BY <2>5, <3>3
      <4>2. c[k + 1] = Joined(c[k], s[k + 1]) /\ h[k + 1] = Joined(h[k], s[k + 1])
        BY <1>4, <2>4, <3>1, <4>1
      <4> QED BY <3>1, <4>1, <4>2
    <3> QED BY <3>2, <3>3
  <2>6. 0 .. n \subseteq T
    <3>1. 0 \in T
      BY <1>1
    <3> HIDE DEF T
    <3> QED BY <1>1, <2>5, <3>1, UpTo
  <2>7. c[n] = h[n]
    BY <1>1, <1>6, <2>6
  <2> QED BY <1>4, <2>1, <2>7 DEF IsFlat, n
<1> QED BY <1>5, <1>6

(* Two folds agree on the messages that their sequences share. *)
LEMMA FlatAgree ==
  ASSUME NEW S, NEW s \in Seq(Seq(S)), NEW t \in Seq(Seq(S)), NEW h, NEW e,
         IsFlat(h, s, S), IsFlat(e, t, S), NEW n \in Nat, n <= Len(s), n <= Len(t),
         \A k \in 1 .. n : s[k] = t[k]
  PROVE  h[n] = e[n]
<1> DEFINE T == {k \in 0 .. n : h[k] = e[k]}
<1>1. 0 \in T
  BY DEF IsFlat
<1>2. ASSUME NEW k \in 0 .. n - 1, k \in T PROVE k + 1 \in T
  <2>1. /\ k + 1 \in 1 .. Len(s) /\ k + 1 \in 1 .. Len(t) /\ k + 1 \in 1 .. n
        /\ (k + 1) - 1 = k /\ k + 1 \in 0 .. n
    OBVIOUS
  <2>2. h[k + 1] = Joined(h[k], s[k + 1]) /\ e[k + 1] = Joined(e[k], t[k + 1])
    BY <2>1 DEF IsFlat
  <2> QED BY <1>2, <2>1, <2>2
<1>3. 0 .. n \subseteq T
  <2> HIDE DEF T
  <2> QED BY <1>1, <1>2, UpTo
<1> QED BY <1>3

(* The bytes of no message, of one more at the end, of one at the front. *)
LEMMA FlattenAppend ==
  ASSUME NEW S, NEW s \in Seq(Seq(S)), NEW m \in Seq(S)
  PROVE  FlattenSeq(Append(s, m)) = Joined(FlattenSeq(s), m)
<1> DEFINE t == Append(s, m)
<1>1. /\ t \in Seq(Seq(S)) /\ Len(t) = Len(s) + 1 /\ t[Len(s) + 1] = m
      /\ Len(s) \in Nat /\ \A k \in 1 .. Len(s) : t[k] = s[k]
  BY AppendProperties
<1> HIDE DEF t
<1>2. PICK h : IsFlat(h, s, S) /\ FlattenSeq(s) = h[Len(s)]
  BY Flat
<1>3. PICK e : IsFlat(e, t, S) /\ FlattenSeq(t) = e[Len(t)]
  BY <1>1, Flat
<1>4. h[Len(s)] = e[Len(s)]
  <2>1. Len(s) <= Len(s) /\ Len(s) <= Len(t) /\ \A k \in 1 .. Len(s) : s[k] = t[k]
    BY <1>1
  <2>2. IsFlat(h, s, S) /\ IsFlat(e, t, S) /\ t \in Seq(Seq(S)) /\ Len(s) \in Nat
    BY <1>1, <1>2, <1>3
  <2> QED BY <2>1, <2>2, FlatAgree
<1>5. e[Len(s) + 1] = Joined(e[Len(s)], m)
  <2>1. Len(s) + 1 \in 1 .. Len(t) /\ (Len(s) + 1) - 1 = Len(s)
    BY <1>1
  <2> QED BY <1>1, <1>3, <2>1 DEF IsFlat
<1> QED BY <1>1, <1>2, <1>3, <1>4, <1>5 DEF t

LEMMA FlattenFirst ==
  ASSUME NEW S, NEW s \in Seq(Seq(S)), s # <<>>
  PROVE  FlattenSeq(s) = Joined(Head(s), FlattenSeq(Tail(s)))
<1> DEFINE t == Tail(s)
           m == Head(s)
<1>1. /\ t \in Seq(Seq(S)) /\ m \in Seq(S) /\ m = s[1] /\ Len(t) = Len(s) - 1
      /\ Len(s) \in Nat \ {0} /\ Len(t) \in Nat /\ \A k \in 1 .. Len(t) : t[k] = s[k + 1]
  <2>1. /\ t \in Seq(Seq(S)) /\ m \in Seq(S) /\ Len(t) = Len(s) - 1
        /\ \A k \in 1 .. Len(t) : t[k] = s[k + 1]
    BY HeadTailProperties
  <2> QED BY <2>1
<1> HIDE DEF t, m
<1>2. PICK h : IsFlat(h, s, S) /\ FlattenSeq(s) = h[Len(s)]
  BY Flat
<1>3. PICK e : IsFlat(e, t, S) /\ FlattenSeq(t) = e[Len(t)]
  BY <1>1, Flat
<1>4. /\ \A k \in 1 .. Len(s) : h[k] = Joined(h[k - 1], s[k])
      /\ \A k \in 1 .. Len(t) : e[k] = Joined(e[k - 1], t[k])
      /\ h[0] = <<>> /\ e[0] = <<>>
      /\ \A k \in 0 .. Len(t) : e[k] \in Seq(S)
  BY <1>2, <1>3 DEF IsFlat
<1> DEFINE T == {k \in 0 .. Len(t) : h[k + 1] = Joined(m, e[k])}
<1>5. 0 \in T
  <2>1. 1 \in 1 .. Len(s) /\ 1 - 1 = 0 /\ 0 \in 0 .. Len(t) /\ 0 + 1 = 1
    BY <1>1
  <2>2. h[1] = Joined(<<>>, m)
    BY <1>1, <1>4, <2>1
  <2>3. Joined(<<>>, m) = m /\ Joined(m, <<>>) = m
    BY <1>1, JoinedEmpty
  <2> QED BY <1>4, <2>1, <2>2, <2>3
<1>6. ASSUME NEW k \in 0 .. Len(t) - 1, k \in T PROVE k + 1 \in T
  <2>1. /\ k + 1 \in 1 .. Len(t) /\ k + 2 \in 1 .. Len(s) /\ (k + 2) - 1 = k + 1
        /\ (k + 1) - 1 = k /\ (k + 1) + 1 = k + 2 /\ k \in 0 .. Len(t) /\ k + 1 \in 0 .. Len(t)
    BY <1>1
  <2>2. h[k + 2] = Joined(h[k + 1], s[k + 2]) /\ e[k + 1] = Joined(e[k], t[k + 1]) /\ t[k + 1] = s[k + 2]
    BY <1>1, <1>4, <2>1
  <2>3. h[k + 1] = Joined(m, e[k])
    BY <1>6
  <2>4. Joined(Joined(m, e[k]), t[k + 1]) = Joined(m, Joined(e[k], t[k + 1]))
    <3>1. e[k] \in Seq(S)
      BY <1>4, <2>1
    <3>2. t[k + 1] \in Seq(S) /\ m \in Seq(S)
      BY <1>1, <2>1
    <3> QED BY <3>1, <3>2, JoinedAssociative
  <2> QED BY <2>1, <2>2, <2>3, <2>4
<1>7. 0 .. Len(t) \subseteq T
  <2> HIDE DEF T
  <2> QED BY <1>1, <1>5, <1>6, UpTo
<1>8. h[Len(t) + 1] = Joined(m, e[Len(t)]) /\ Len(t) + 1 = Len(s)
  <2>1. Len(t) \in 0 .. Len(t) /\ Len(t) + 1 = Len(s)
    BY <1>1
  <2> QED BY <1>7, <2>1
<1> QED BY <1>2, <1>3, <1>8 DEF t, m

LEMMA FlattenBytes ==
  ASSUME NEW S, NEW s \in Seq(Seq(S))
  PROVE  FlattenSeq(s) \in Seq(S) /\ FlattenSeq(<<>>) = <<>>
<1>1. PICK h : IsFlat(h, s, S) /\ FlattenSeq(s) = h[Len(s)]
  BY Flat
<1> QED BY <1>1 DEF IsFlat, FlattenSeq

-----------------------------------------------------------------------------
(* The least element of a set of numbers.                                  *)

LEMMA MinIs ==
  ASSUME NEW T \in SUBSET Nat, T # {}
  PROVE  Min(T) \in T /\ \A k \in T : Min(T) <= k
<1>1. \E m \in T : \A k \in T : m <= k
  BY LeastNat
<1> QED BY <1>1 DEF Min

LEMMA MinEq ==
  ASSUME NEW T \in SUBSET Nat, NEW m \in T, \A k \in T : m <= k
  PROVE  Min(T) = m
<1>1. Min(T) \in T /\ Min(T) <= m
  BY MinIs
<1>2. m <= Min(T) /\ Min(T) \in Nat /\ m \in Nat
  BY <1>1
<1> QED BY <1>1, <1>2

-----------------------------------------------------------------------------
(* The messages of the server.                                             *)

PacketMessages == {PacketBytes(p) : p \in Packets}

LEMMA OctetIs == \A x : x \in Octet <=> x \in Int /\ 0 <= x /\ x < 256
BY DEF Octet

(* The length of a packet is its two octets. *)
LEMMA TwoOctets ==
  ASSUME NEW n \in Nat, n \div 256 \in Octet
  PROVE  \E c, x \in Octet : n \div 256 = c /\ n % 256 = x /\ c * 256 + x = n
<1>1. n % 256 \in Int /\ 0 <= n % 256 /\ n % 256 < 256
  OBVIOUS
<1> DEFINE c == n \div 256
           x == n % 256
<1>2. c \in Int
  OBVIOUS
<1>3. x = n - 256 * c
  OBVIOUS
<1>4. x \in Int /\ 0 <= x /\ x < 256
  BY <1>1
<1>5. n \div 256 = c /\ n % 256 = x
  OBVIOUS
<1> HIDE DEF c, x
<1>6. c * 256 + x = n
  BY <1>2, <1>3, <1>4
<1>7. c \in Octet /\ x \in Octet
  BY <1>4, <1>5, OctetIs
<1> QED BY <1>5, <1>6, <1>7

(* A packet: its four octets of header give its length, and all of it is octets. *)
LEMMA PacketIs ==
  ASSUME NEW m \in PacketMessages
  PROVE  /\ m \in Seq(Octet) /\ Len(m) \in Nat /\ Len(m) >= 4
         /\ m[1] = Dollar /\ m[3] * 256 + m[4] + 4 = Len(m)
         /\ \E p \in Packets :
              m[2] = p.ch /\ m[3] = Len(p.data) \div 256 /\ SubSeq(m, 5, Len(m)) = p.data
<1>1. PICK p \in Packets : m = PacketBytes(p)
  BY DEF PacketMessages
<1>2. p.ch \in Octet /\ p.data \in Seq(Octet) /\ Len(p.data) \in Nat
      /\ Len(p.data) \div 256 \in Octet
  <2>1. p.ch \in Octet /\ p.data \in Seq(Octet) /\ Len(p.data) \div 256 \in Octet
    BY FramingAssumption
  <2> QED BY <2>1, LenProperties
<1>3. PICK c, x \in Octet : /\ Len(p.data) \div 256 = c /\ Len(p.data) % 256 = x
                           /\ c * 256 + x = Len(p.data)
  BY <1>2, TwoOctets
<1> DEFINE head == <<Dollar, p.ch, c, x>>
<1>4. m = Joined(head, p.data)
  BY <1>1, <1>3 DEF PacketBytes, Joined
<1>5. Dollar \in Octet
  BY OctetIs DEF Dollar
<1>6. head \in Seq(Octet) /\ Len(head) = 4 /\ head[1] = Dollar /\ head[2] = p.ch
      /\ head[3] = c /\ head[4] = x
  BY <1>2, <1>3, <1>5
<1> HIDE DEF head
<1>7. m \in Seq(Octet) /\ Len(m) = 4 + Len(p.data) /\ \A i \in 1 .. 4 : m[i] = head[i]
  <2>1. p.data \in Seq(Octet) /\ head \in Seq(Octet)
    BY <1>2, <1>6
  <2>2. m \in Seq(Octet) /\ IsJoin(m, head, Len(head), p.data, Len(p.data))
    BY <1>4, <2>1, JoinedSeq
  <2> QED BY <1>6, <2>2 DEF IsJoin
<1>8. m[1] = Dollar /\ m[2] = p.ch /\ m[3] = c /\ m[4] = x
  BY <1>6, <1>7
<1>9. SubSeq(m, 5, Len(m)) = p.data
  <2>1. p.data \in Seq(Octet) /\ head \in Seq(Octet) /\ Len(head) + 1 = 5
    BY <1>2, <1>6
  <2> QED BY <1>4, <2>1, JoinedTail
<1>10. Len(m) \in Nat /\ Len(m) >= 4 /\ c * 256 + x + 4 = Len(m)
  <2>1. c \in Int /\ x \in Int
    BY OctetIs
  <2> QED BY <1>2, <1>3, <1>7, <2>1
<1> QED BY <1>3, <1>7, <1>8, <1>9, <1>10

(* A reply: a status line, one empty line, which ends the head, a body of text, and
   nothing in it that would end the string. *)
EndsHead(m, i) ==
  /\ m[i] = NL
  /\ \/ i > 1 /\ m[i - 1] = NL
     \/ i > 2 /\ m[i - 1] = CR /\ m[i - 2] = NL

(* Where a newline ends the head, of the first eight elements. *)
LEMMA EndsAt ==
  ASSUME NEW m
  PROVE  /\ ~ EndsHead(m, 1)
         /\ EndsHead(m, 2) <=> (m[2] = NL /\ m[1] = NL)
         /\ EndsHead(m, 3) <=> (m[3] = NL /\ (m[2] = NL \/ (m[2] = CR /\ m[1] = NL)))
         /\ EndsHead(m, 4) <=> (m[4] = NL /\ (m[3] = NL \/ (m[3] = CR /\ m[2] = NL)))
         /\ EndsHead(m, 5) <=> (m[5] = NL /\ (m[4] = NL \/ (m[4] = CR /\ m[3] = NL)))
         /\ EndsHead(m, 6) <=> (m[6] = NL /\ (m[5] = NL \/ (m[5] = CR /\ m[4] = NL)))
         /\ EndsHead(m, 7) <=> (m[7] = NL /\ (m[6] = NL \/ (m[6] = CR /\ m[5] = NL)))
         /\ EndsHead(m, 8) <=> (m[8] = NL /\ (m[7] = NL \/ (m[7] = CR /\ m[6] = NL)))
BY DEF EndsHead

IsReplyOf(m, head, body) ==
  /\ m \in Seq(Nat) /\ head \in 3 .. 8 /\ body \in Nat /\ Len(m) = head + body
  /\ m[1] \in {Good, Bad}
  /\ EndsHead(m, head) /\ \A i \in 1 .. head - 1 : ~ EndsHead(m, i)
  /\ \A i \in 1 .. head : m[i] # NUL
  /\ \A i \in head + 1 .. head + body : m[i] = Text
  /\ body = 0 => \A i \in 1 .. head : m[i] < Length(0)
  /\ body > 0 => \E j \in 1 .. head :
                   m[j] = Length(body) /\ \A i \in 1 .. j - 1 : m[i] < Length(0)

(* The elements of a reply: its head with either line end, without and with a length. *)
IsHead(h, st, body) ==
  \/ body = 0 /\ Len(h) = 5 /\ h[1] = st /\ h[2] = CR /\ h[3] = NL /\ h[4] = CR /\ h[5] = NL
  \/ body = 0 /\ Len(h) = 3 /\ h[1] = st /\ h[2] = NL /\ h[3] = NL
  \/ /\ body > 0 /\ Len(h) = 8 /\ h[1] = st /\ h[2] = CR /\ h[3] = NL /\ h[4] = Length(body)
     /\ h[5] = CR /\ h[6] = NL /\ h[7] = CR /\ h[8] = NL
  \/ /\ body > 0 /\ Len(h) = 5 /\ h[1] = st /\ h[2] = NL /\ h[3] = Length(body)
     /\ h[4] = NL /\ h[5] = NL

LEMMA ReplyHead ==
  ASSUME NEW r \in Replies
  PROVE  \E h \in Seq(Nat) :
           /\ IsHead(h, r.status, r.body)
           /\ ReplyBytes(r) = Joined(h, [i \in 1 .. r.body |-> Text])
<1> DEFINE st == r.status
           L == Length(r.body)
           eol == IF r.crlf THEN <<CR, NL>> ELSE <<NL>>
           length == IF r.body = 0 THEN <<>> ELSE Joined(<<L>>, eol)
           text == [i \in 1 .. r.body |-> Text]
           first == Joined(<<st>>, eol)
           h == Joined(Joined(first, length), eol)
<1>1. st \in Nat /\ r.body \in Nat /\ L \in Nat /\ CR \in Nat /\ NL \in Nat
  BY FramingAssumption DEF Length, CR, NL
<1>2. ReplyBytes(r) = Joined(h, text)
  BY DEF ReplyBytes, Joined
<1>3. /\ eol \in Seq(Nat) /\ Len(eol) = (IF r.crlf THEN 2 ELSE 1)
      /\ r.crlf => eol[1] = CR /\ eol[2] = NL
      /\ ~ r.crlf => eol[1] = NL
  BY <1>1
<1>4. <<st>> \in Seq(Nat) /\ Len(<<st>>) = 1 /\ <<st>>[1] = st
  BY <1>1
<1>5. <<L>> \in Seq(Nat) /\ Len(<<L>>) = 1 /\ <<L>>[1] = L
  BY <1>1
<1> HIDE DEF eol
<1>6. /\ first \in Seq(Nat) /\ Len(first) = 1 + Len(eol) /\ first[1] = st
      /\ \A i \in 1 .. Len(eol) : first[1 + i] = eol[i]
  <2>1. first \in Seq(Nat) /\ IsJoin(first, <<st>>, Len(<<st>>), eol, Len(eol))
    BY <1>3, <1>4, JoinedSeq
  <2> HIDE DEF first
  <2> QED BY <1>4, <2>1 DEF IsJoin
<1>7. /\ length \in Seq(Nat) /\ Len(length) = (IF r.body = 0 THEN 0 ELSE 1 + Len(eol))
      /\ r.body # 0 => /\ length[1] = L
                       /\ \A i \in 1 .. Len(eol) : length[1 + i] = eol[i]
  <2>1. CASE r.body = 0
    BY <2>1
  <2>2. CASE r.body # 0
    <3> DEFINE l == Joined(<<L>>, eol)
    <3>1. l \in Seq(Nat) /\ IsJoin(l, <<L>>, Len(<<L>>), eol, Len(eol))
      BY <1>3, <1>5, JoinedSeq
    <3>2. length = l
      BY <2>2
    <3> HIDE DEF l, length
    <3> QED BY <1>5, <2>2, <3>1, <3>2 DEF IsJoin
  <2> QED BY <2>1, <2>2
<1> HIDE DEF length, first
<1>8. h \in Seq(Nat) /\ IsHead(h, st, r.body)
  <2> DEFINE u == Joined(first, length)
  <2>1. /\ u \in Seq(Nat) /\ Len(u) = Len(first) + Len(length)
        /\ \A i \in 1 .. Len(first) : u[i] = first[i]
        /\ \A i \in 1 .. Len(length) : u[Len(first) + i] = length[i]
    <3>1. u \in Seq(Nat) /\ IsJoin(u, first, Len(first), length, Len(length))
      BY <1>6, <1>7, JoinedSeq
    <3> HIDE DEF u
    <3> QED BY <3>1 DEF IsJoin
  <2> HIDE DEF u
  <2>2. /\ h \in Seq(Nat) /\ Len(h) = Len(u) + Len(eol)
        /\ \A i \in 1 .. Len(u) : h[i] = u[i]
        /\ \A i \in 1 .. Len(eol) : h[Len(u) + i] = eol[i]
    <3>1. h = Joined(u, eol)
      BY DEF u
    <3> HIDE DEF h
    <3>2. h \in Seq(Nat) /\ IsJoin(h, u, Len(u), eol, Len(eol))
      BY <1>3, <2>1, <3>1, JoinedSeq
    <3> QED BY <3>2 DEF IsJoin
  <2> HIDE DEF h
  <2>3. CASE r.crlf
    <3>1. Len(eol) = 2 /\ eol[1] = CR /\ eol[2] = NL
      BY <1>3, <2>3
    <3>2. Len(first) = 3 /\ first[1] = st /\ first[1 + 1] = CR /\ first[1 + 2] = NL
      BY <1>6, <3>1
    <3>3. Len(u) = 3 + Len(length) /\ u[1] = st /\ u[2] = CR /\ u[3] = NL
      BY <2>1, <3>2
    <3>4. CASE r.body = 0
      <4>1. Len(u) = 3
        BY <1>7, <3>3, <3>4
      <4>2. Len(h) = 5 /\ h[1] = u[1] /\ h[2] = u[2] /\ h[3] = u[3]
        BY <2>2, <3>1, <4>1
      <4>3. h[3 + 1] = CR /\ h[3 + 2] = NL
        BY <2>2, <3>1, <4>1
      <4>4. h[4] = CR /\ h[5] = NL
        BY <4>3
      <4>5. IsHead(h, st, r.body)
        BY <3>3, <3>4, <4>2, <4>4 DEF IsHead
      <4> QED BY <2>2, <4>5
    <3>5. CASE r.body # 0
      <4>1. Len(length) = 3 /\ length[1] = L /\ length[1 + 1] = CR /\ length[1 + 2] = NL
        BY <1>7, <3>1, <3>5
      <4>2. Len(u) = 6 /\ u[3 + 1] = L /\ u[3 + 2] = CR /\ u[3 + 3] = NL
        BY <2>1, <3>2, <3>3, <4>1
      <4>3. /\ Len(h) = 8 /\ h[1] = u[1] /\ h[2] = u[2] /\ h[3] = u[3]
            /\ h[4] = u[4] /\ h[5] = u[5] /\ h[6] = u[6]
        BY <2>2, <3>1, <4>2
      <4>4. h[6 + 1] = CR /\ h[6 + 2] = NL
        BY <2>2, <3>1, <4>2
      <4>5. r.body > 0
        BY <1>1, <3>5
      <4>6. h[7] = CR /\ h[8] = NL /\ u[4] = L /\ u[5] = CR /\ u[6] = NL
        BY <4>2, <4>4
      <4>7. IsHead(h, st, r.body)
        BY <3>3, <4>3, <4>5, <4>6 DEF IsHead
      <4> QED BY <2>2, <4>7
    <3> QED BY <3>4, <3>5
  <2>4. CASE ~ r.crlf
    <3>1. Len(eol) = 1 /\ eol[1] = NL
      BY <1>3, <2>4
    <3>2. Len(first) = 2 /\ first[1] = st /\ first[1 + 1] = NL
      BY <1>6, <3>1
    <3>3. Len(u) = 2 + Len(length) /\ u[1] = st /\ u[2] = NL
      BY <2>1, <3>2
    <3>4. CASE r.body = 0
      <4>1. Len(u) = 2
        BY <1>7, <3>3, <3>4
      <4>2. Len(h) = 3 /\ h[1] = u[1] /\ h[2] = u[2] /\ h[2 + 1] = NL
        BY <2>2, <3>1, <4>1
      <4>3. h[3] = NL
        BY <4>2
      <4>4. IsHead(h, st, r.body)
        BY <3>3, <3>4, <4>2, <4>3 DEF IsHead
      <4> QED BY <2>2, <4>4
    <3>5. CASE r.body # 0
      <4>1. Len(length) = 2 /\ length[1] = L /\ length[1 + 1] = NL
        BY <1>7, <3>1, <3>5
      <4>2. Len(u) = 4 /\ u[2 + 1] = L /\ u[2 + 2] = NL
        BY <2>1, <3>2, <3>3, <4>1
      <4>3. /\ Len(h) = 5 /\ h[1] = u[1] /\ h[2] = u[2] /\ h[3] = u[3] /\ h[4] = u[4]
            /\ h[4 + 1] = NL
        BY <2>2, <3>1, <4>2
      <4>4. r.body > 0
        BY <1>1, <3>5
      <4>5. h[5] = NL /\ u[3] = L /\ u[4] = NL
        BY <4>2, <4>3
      <4>6. IsHead(h, st, r.body)
        BY <3>3, <4>3, <4>4, <4>5 DEF IsHead
      <4> QED BY <2>2, <4>6
    <3> QED BY <3>4, <3>5
  <2> QED BY <2>3, <2>4
<1> HIDE DEF h, text
<1> QED BY <1>2, <1>8 DEF text

(* The server's replies are of that form. *)
LEMMA ReplyIs ==
  ASSUME NEW m \in ReplyMessages
  PROVE  \E head, body : IsReplyOf(m, head, body)
<1>1. PICK r \in Replies : m = ReplyBytes(r)
  BY DEF ReplyMessages
<1>2. PICK h \in Seq(Nat) : /\ IsHead(h, r.status, r.body)
                           /\ m = Joined(h, [i \in 1 .. r.body |-> Text])
  BY <1>1, ReplyHead
<1> DEFINE text == [i \in 1 .. r.body |-> Text]
           n == Len(h)
           k == r.body
<1>3. k \in Nat /\ r.status \in {Good, Bad}
  BY FramingAssumption DEF Good, Bad
<1>4. text \in Seq(Nat) /\ Len(text) = k /\ \A i \in 1 .. k : text[i] = Text
  BY <1>3 DEF Text
<1> HIDE DEF text
<1>5. m \in Seq(Nat) /\ IsJoin(m, h, n, text, k)
  BY <1>2, <1>4, JoinedSeq DEF text
<1>6. n \in {3, 5, 8} /\ h[1] \in {Good, Bad}
  BY <1>2, <1>3 DEF IsHead
<1>7. Len(m) = n + k /\ \A i \in 1 .. n : m[i] = h[i]
  BY <1>5 DEF IsJoin
<1>8. ASSUME NEW i \in n + 1 .. n + k PROVE m[i] = Text
  <2>1. i - n \in 1 .. k /\ n + (i - n) = i
    BY <1>3, <1>6
  <2>2. m[n + (i - n)] = text[i - n]
    BY <1>5, <2>1 DEF IsJoin
  <2> QED BY <1>4, <2>1, <2>2
<1>9. /\ EndsHead(m, n) /\ \A i \in 1 .. n - 1 : ~ EndsHead(m, i)
      /\ \A i \in 1 .. n : m[i] # NUL
      /\ k = 0 => \A i \in 1 .. n : m[i] < Length(0)
      /\ k > 0 => \E j \in 1 .. n :
                   m[j] = Length(k) /\ \A i \in 1 .. j - 1 : m[i] < Length(0)
  <2> DEFINE st == r.status
  <2>1. st \in Nat /\ st # NUL /\ st < Length(0) /\ st # NL /\ st # CR
    BY <1>3 DEF Good, Bad, NUL, Length, NL, CR
  <2>2. /\ Length(k) \in Nat /\ Length(k) # NUL /\ Length(k) # NL /\ Length(k) # CR
        /\ CR \in Nat /\ NL \in Nat /\ CR # NL /\ CR # NUL /\ NL # NUL
        /\ CR < Length(0) /\ NL < Length(0)
    BY <1>3 DEF Length, NUL, NL, CR
  <2> HIDE DEF st
  <2>3. CASE /\ k = 0 /\ n = 5 /\ h[1] = st /\ h[2] = CR /\ h[3] = NL /\ h[4] = CR /\ h[5] = NL
    <3>1. m[1] = st /\ m[2] = CR /\ m[3] = NL /\ m[4] = CR /\ m[5] = NL
      BY <1>7, <2>3
    <3> HIDE DEF n, k
    <3>2. EndsHead(m, 5)
      BY <3>1, EndsAt
    <3>3. ~ EndsHead(m, 1) /\ ~ EndsHead(m, 2) /\ ~ EndsHead(m, 3) /\ ~ EndsHead(m, 4)
      BY <2>1, <2>2, <3>1, EndsAt
    <3> QED BY <2>1, <2>2, <2>3, <3>1, <3>2, <3>3
  <2>4. CASE k = 0 /\ n = 3 /\ h[1] = st /\ h[2] = NL /\ h[3] = NL
    <3>1. m[1] = st /\ m[2] = NL /\ m[3] = NL
      BY <1>7, <2>4
    <3> HIDE DEF n, k
    <3>2. EndsHead(m, 3) /\ ~ EndsHead(m, 1) /\ ~ EndsHead(m, 2)
      BY <2>1, <2>2, <3>1, EndsAt
    <3> QED BY <2>1, <2>2, <2>4, <3>1, <3>2
  <2>5. CASE /\ k > 0 /\ n = 8 /\ h[1] = st /\ h[2] = CR /\ h[3] = NL /\ h[4] = Length(k)
             /\ h[5] = CR /\ h[6] = NL /\ h[7] = CR /\ h[8] = NL
    <3>1. /\ m[1] = st /\ m[2] = CR /\ m[3] = NL /\ m[4] = Length(k)
          /\ m[5] = CR /\ m[6] = NL /\ m[7] = CR /\ m[8] = NL
      BY <1>7, <2>5
    <3> HIDE DEF n, k
    <3>2. EndsHead(m, 8)
      BY <3>1, EndsAt
    <3>3. ~ EndsHead(m, 1) /\ ~ EndsHead(m, 2) /\ ~ EndsHead(m, 3)
      BY <2>1, <2>2, <3>1, EndsAt
    <3>4. ~ EndsHead(m, 4) /\ ~ EndsHead(m, 5) /\ ~ EndsHead(m, 6) /\ ~ EndsHead(m, 7)
      BY <2>1, <2>2, <3>1, EndsAt
    <3>5. \A i \in 1 .. n : m[i] # NUL
      BY <2>1, <2>2, <2>5, <3>1
    <3>6. 4 \in 1 .. n /\ m[4] = Length(k) /\ \A i \in 1 .. 4 - 1 : m[i] < Length(0)
      <4>1. \A i \in 1 .. 4 - 1 : i = 1 \/ i = 2 \/ i = 3
        OBVIOUS
      <4>2. m[1] < Length(0) /\ m[2] < Length(0) /\ m[3] < Length(0)
        BY <2>1, <2>2, <3>1
      <4> QED BY <2>5, <3>1, <4>1, <4>2
    <3>7. \A i \in 1 .. n - 1 : ~ EndsHead(m, i)
      BY <2>5, <3>3, <3>4
    <3> QED BY <2>5, <3>2, <3>5, <3>6, <3>7
  <2>6. CASE /\ k > 0 /\ n = 5 /\ h[1] = st /\ h[2] = NL /\ h[3] = Length(k)
             /\ h[4] = NL /\ h[5] = NL
    <3>1. m[1] = st /\ m[2] = NL /\ m[3] = Length(k) /\ m[4] = NL /\ m[5] = NL
      BY <1>7, <2>6
    <3> HIDE DEF n, k
    <3>2. EndsHead(m, 5)
      BY <3>1, EndsAt
    <3>3. ~ EndsHead(m, 1) /\ ~ EndsHead(m, 2) /\ ~ EndsHead(m, 3) /\ ~ EndsHead(m, 4)
      BY <2>1, <2>2, <3>1, EndsAt
    <3>4. \A i \in 1 .. n : m[i] # NUL
      BY <2>1, <2>2, <2>6, <3>1
    <3>5. 3 \in 1 .. n /\ m[3] = Length(k) /\ \A i \in 1 .. 3 - 1 : m[i] < Length(0)
      <4>1. \A i \in 1 .. 3 - 1 : i = 1 \/ i = 2
        OBVIOUS
      <4>2. m[1] < Length(0) /\ m[2] < Length(0)
        BY <2>1, <2>2, <3>1
      <4> QED BY <2>6, <3>1, <4>1, <4>2
    <3>6. \A i \in 1 .. n - 1 : ~ EndsHead(m, i)
      BY <2>6, <3>3
    <3> QED BY <2>6, <3>2, <3>4, <3>5, <3>6
  <2> QED BY <1>2, <2>3, <2>4, <2>5, <2>6 DEF IsHead, st
<1>10. m[1] \in {Good, Bad} /\ n \in 3 .. 8
  BY <1>6, <1>7
<1> HIDE DEF n, k
<1>11. IsReplyOf(m, n, k)
  <2>1. m \in Seq(Nat) /\ Len(m) = n + k /\ k \in Nat
    BY <1>3, <1>5, <1>7
  <2>2. \A i \in n + 1 .. n + k : m[i] = Text
    BY <1>8
  <2> QED BY <1>9, <1>10, <2>1, <2>2 DEF IsReplyOf
<1> QED BY <1>11

(* Where two concatenations of one sequence part: the one that is cut later begins
   with all of the first part of the other, and the rest of it follows. *)
LEMMA JoinedSplit ==
  ASSUME NEW S, NEW a \in Seq(S), NEW b \in Seq(S), NEW c \in Seq(S), NEW d \in Seq(S),
         Joined(a, b) = Joined(c, d), Len(c) <= Len(a)
  PROVE  /\ SubSeq(a, 1, Len(c)) = c
         /\ Joined(SubSeq(a, Len(c) + 1, Len(a)), b) = d
<1> DEFINE u == Joined(a, b)
           n == Len(c)
           t == SubSeq(a, n + 1, Len(a))
           h == SubSeq(a, 1, n)
           v == Joined(t, b)
<1>1. /\ u \in Seq(S) /\ Len(u) = Len(a) + Len(b) /\ Len(u) = n + Len(d)
      /\ \A i \in 1 .. Len(a) : u[i] = a[i]
      /\ \A i \in 1 .. Len(b) : u[Len(a) + i] = b[i]
      /\ \A i \in 1 .. n : u[i] = c[i]
      /\ \A i \in 1 .. Len(d) : u[n + i] = d[i]
  <2>1. u \in Seq(S) /\ IsJoin(u, a, Len(a), b, Len(b))
    BY JoinedSeq
  <2>2. u = Joined(c, d)
    OBVIOUS
  <2> HIDE DEF u
  <2>3. IsJoin(u, c, Len(c), d, Len(d))
    BY <2>2, JoinedSeq
  <2> QED BY <2>1, <2>3 DEF IsJoin
<1>2. /\ Len(a) \in Nat /\ Len(b) \in Nat /\ n \in Nat /\ Len(d) \in Nat /\ n <= Len(a)
      /\ \A i \in 1 .. Len(a) : a[i] \in S
  OBVIOUS
<1> HIDE DEF u, n
<1>3. h \in Seq(S) /\ Len(h) = n /\ \A i \in 1 .. n : h[i] = a[i]
  <2>1. n \in 0 .. Len(a)
    BY <1>2
  <2> QED BY <2>1, FirstPart
<1>4. /\ t \in Seq(S) /\ Len(t) = Len(a) - n
      /\ \A i \in 1 .. Len(a) - n : t[i] = a[n + i]
  <2>1. n \in 0 .. Len(a)
    BY <1>2
  <2> QED BY <2>1, LastPart
<1> HIDE DEF h, t
<1>5. h = c
  <2>1. \A i \in 1 .. n : h[i] = c[i]
    <3>1. \A i \in 1 .. n : i \in 1 .. Len(a)
      BY <1>2
    <3> QED BY <1>1, <1>3, <3>1
  <2>2. Len(h) = Len(c)
    BY <1>3 DEF n
  <2>3. \A i \in 1 .. Len(h) : h[i] = c[i]
    BY <1>3, <2>1
  <2> QED BY <1>3, <2>2, <2>3, SeqEqual
<1>6. /\ v \in Seq(S) /\ Len(v) = Len(t) + Len(b)
      /\ \A i \in 1 .. Len(t) : v[i] = t[i]
      /\ \A i \in 1 .. Len(b) : v[Len(t) + i] = b[i]
  <2>1. v \in Seq(S) /\ IsJoin(v, t, Len(t), b, Len(b))
    BY <1>4, JoinedSeq
  <2> HIDE DEF v
  <2> QED BY <2>1 DEF IsJoin
<1> HIDE DEF v
<1>7. Len(v) = Len(d)
  <2>1. /\ Len(v) = Len(t) + Len(b) /\ Len(t) = Len(a) - n
        /\ Len(a) + Len(b) = n + Len(d)
    BY <1>1, <1>4, <1>6
  <2> QED BY <1>2, <2>1
<1>8. ASSUME NEW i \in 1 .. Len(d) PROVE v[i] = d[i]
  <2>1. CASE i <= Len(t)
    <3> DEFINE j == n + i
    <3>1. i \in 1 .. Len(t) /\ i \in 1 .. Len(a) - n /\ j \in 1 .. Len(a)
      BY <1>2, <1>4, <2>1
    <3>2. v[i] = a[j]
      BY <1>4, <1>6, <3>1
    <3>3. u[j] = d[i]
      BY <1>1
    <3> HIDE DEF j
    <3> QED BY <1>1, <3>1, <3>2, <3>3
  <2>2. CASE i > Len(t)
    <3> DEFINE k == i - Len(t)
               j == n + i
    <3>1. k \in 1 .. Len(b) /\ Len(t) + k = i /\ Len(a) + k = j
      BY <1>1, <1>2, <1>4, <2>2
    <3>2. u[j] = d[i]
      BY <1>1
    <3> HIDE DEF k, j
    <3>3. v[Len(t) + k] = b[k] /\ u[Len(a) + k] = b[k]
      BY <1>1, <1>6, <3>1
    <3> QED BY <3>1, <3>2, <3>3
  <2> QED BY <1>2, <1>4, <2>1, <2>2
<1>9. v = d
  <2>1. \A i \in 1 .. Len(v) : v[i] = d[i]
    BY <1>7, <1>8
  <2> QED BY <1>6, <1>7, <2>1, SeqEqual
<1> QED BY <1>5, <1>9 DEF h, v, t, n

-----------------------------------------------------------------------------
(* Finding the first message.                                              *)

(* What the string functions see of a buffer that is terminated. *)
LEMMA VisibleIs ==
  ASSUME NEW s \in Seq(Nat), NEW g \in Seq(Nat), g = <<>> \/ g[1] = NUL
  PROVE  \E n \in 0 .. Len(s) : /\ Visible(s, g) = SubSeq(s, 1, n)
                                /\ n < Len(s) => s[n + 1] = NUL
<1> DEFINE u == Joined(s, g)
           nuls == {i \in DOMAIN u : u[i] = NUL}
<1>1. /\ u \in Seq(Nat) /\ Len(u) = Len(s) + Len(g) /\ DOMAIN u = 1 .. Len(u)
      /\ \A i \in 1 .. Len(s) : u[i] = s[i]
      /\ \A i \in 1 .. Len(g) : u[Len(s) + i] = g[i]
  <2>1. u \in Seq(Nat) /\ IsJoin(u, s, Len(s), g, Len(g))
    BY JoinedSeq
  <2> HIDE DEF u
  <2>2. DOMAIN u = 1 .. Len(u)
    BY <2>1
  <2> QED BY <2>1, <2>2 DEF IsJoin
<1>2. Len(s) \in Nat /\ Len(g) \in Nat /\ (g = <<>> \/ Len(g) > 0)
  OBVIOUS
<1>3. Visible(s, g) = IF nuls = {} THEN u ELSE SubSeq(u, 1, Min(nuls) - 1)
  BY DEF Visible, Joined
<1>4. CASE nuls = {}
  <2>1. ~ (Len(g) > 0)
    <3> SUFFICES ASSUME Len(g) > 0 PROVE FALSE
      OBVIOUS
    <3>1. 1 \in 1 .. Len(g) /\ Len(s) + 1 \in 1 .. Len(s) + Len(g)
      BY <1>2
    <3>2. g[1] = NUL
      BY <1>2
    <3> HIDE DEF u
    <3>3. u[Len(s) + 1] = NUL /\ Len(s) + 1 \in DOMAIN u
      BY <1>1, <3>1, <3>2
    <3> QED BY <1>4, <3>3
  <2>2. u = s
    BY <1>2, <2>1, JoinedEmpty
  <2>3. Visible(s, g) = SubSeq(s, 1, Len(s))
    BY <1>3, <1>4, <2>2, SubSeqFull
  <2>4. Len(s) \in 0 .. Len(s) /\ ~ (Len(s) < Len(s))
    BY <1>2
  <2> QED BY <2>3, <2>4
<1>5. CASE nuls # {}
  <2> DEFINE k == Min(nuls)
             n == k - 1
  <2>1. nuls \in SUBSET Nat
    <3> HIDE DEF u
    <3> QED BY <1>1
  <2>2. k \in nuls /\ \A i \in nuls : k <= i
    <3> HIDE DEF nuls
    <3> QED BY <1>5, <2>1, MinIs
  <2> HIDE DEF k, u
  <2>3. k \in 1 .. Len(u) /\ u[k] = NUL /\ k \in Nat
    BY <1>1, <2>1, <2>2
  <2>4. k <= Len(s) + 1
    <3> SUFFICES ASSUME k > Len(s) + 1 PROVE FALSE
      BY <1>2, <2>3
    <3>1. Len(g) > 0 /\ 1 \in 1 .. Len(g) /\ Len(s) + 1 \in 1 .. Len(u)
      BY <1>1, <1>2, <2>3
    <3>2. u[Len(s) + 1] = NUL
      BY <1>1, <1>2, <3>1
    <3>3. k <= Len(s) + 1
      BY <1>1, <2>2, <3>1, <3>2
    <3> QED BY <1>2, <2>3, <3>3
  <2>5. n \in 0 .. Len(s) /\ n + 1 = k /\ n \in 0 .. Len(u)
    BY <1>1, <1>2, <2>3, <2>4
  <2> HIDE DEF n
  <2>6. SubSeq(u, 1, n) = SubSeq(s, 1, n)
    <3> DEFINE a == SubSeq(u, 1, n)
               b == SubSeq(s, 1, n)
    <3>1. a \in Seq(Nat) /\ Len(a) = n /\ \A i \in 1 .. n : a[i] = u[i]
      BY <1>1, <2>5, FirstPart
    <3>2. b \in Seq(Nat) /\ Len(b) = n /\ \A i \in 1 .. n : b[i] = s[i]
      BY <2>5, FirstPart
    <3>3. \A i \in 1 .. n : u[i] = s[i]
      BY <1>1, <2>5
    <3> HIDE DEF a, b
    <3>4. Len(a) = Len(b) /\ \A i \in 1 .. Len(a) : a[i] = b[i]
      BY <3>1, <3>2, <3>3
    <3>5. a = b
      BY <3>1, <3>2, <3>4, SeqEqual
    <3> QED BY <3>5 DEF a, b
  <2>7. Visible(s, g) = SubSeq(u, 1, n)
    BY <1>3, <1>5 DEF k, n
  <2>8. ASSUME n < Len(s) PROVE s[n + 1] = NUL
    <3>1. k \in 1 .. Len(s) /\ n + 1 = k
      BY <1>2, <2>3, <2>5, <2>8
    <3>2. s[k] = NUL
      BY <1>1, <2>3, <3>1
    <3> QED BY <3>1, <3>2
  <2> QED BY <2>5, <2>6, <2>7, <2>8
<1> QED BY <1>4, <1>5

(* The beginning of a text of n bytes that is a reply, and what follows it: octets,
   of which the first begins a packet. *)
IsText(t, n, m, head, body) ==
  /\ t \in Seq(Nat) /\ n \in Nat /\ Len(t) = n
  /\ \A i \in 1 .. n : /\ i <= head => t[i] = m[i]
                       /\ head < i /\ i <= head + body => t[i] = Text
                       /\ head + body < i => t[i] < Length(0)
                       /\ i = head + body + 1 => t[i] = Dollar

LEMMA EndsAgree ==
  ASSUME NEW s, NEW t, NEW i \in Nat, i > 0, \A k \in 1 .. i : s[k] = t[k]
  PROVE  EndsHead(s, i) <=> EndsHead(t, i)
<1>1. s[i] = t[i]
  OBVIOUS
<1>2. i > 1 => s[i - 1] = t[i - 1]
  <2>1. i > 1 => i - 1 \in 1 .. i
    OBVIOUS
  <2> QED BY <2>1
<1>3. i > 2 => s[i - 2] = t[i - 2]
  <2>1. i > 2 => i - 2 \in 1 .. i
    OBVIOUS
  <2> QED BY <2>1
<1>4. i > 2 => i > 1
  OBVIOUS
<1> QED BY <1>1, <1>2, <1>3, <1>4 DEF EndsHead

LEMMA HeadEndsAre ==
  ASSUME NEW t, NEW n \in Nat, t \in Seq(Nat), Len(t) = n
  PROVE  HeadEnds(t) = {i \in 1 .. n : EndsHead(t, i)}
<1>1. DOMAIN t = 1 .. n
  OBVIOUS
<1> QED BY <1>1 DEF HeadEnds, EndsHead

(* Its empty line is that of the reply's head. *)
LEMMA HeadFound ==
  ASSUME NEW t, NEW n, NEW m, NEW head, NEW body,
         IsReplyOf(m, head, body), IsText(t, n, m, head, body)
  PROVE  /\ n < head => HeadEnds(t) = {}
         /\ head <= n => HeadEnds(t) # {} /\ Min(HeadEnds(t)) = head
<1>1. /\ n \in Nat /\ head \in Nat /\ head >= 3 /\ body \in Nat
      /\ t \in Seq(Nat) /\ Len(t) = n
      /\ \A i \in 1 .. n : i <= head => t[i] = m[i]
      /\ EndsHead(m, head) /\ \A i \in 1 .. head - 1 : ~ EndsHead(m, i)
  BY DEF IsReplyOf, IsText
<1>2. ASSUME NEW i \in 1 .. n, i <= head PROVE EndsHead(t, i) <=> EndsHead(m, i)
  <2>1. \A k \in 1 .. i : t[k] = m[k]
    <3>1. \A k \in 1 .. i : k \in 1 .. n /\ k <= head
      BY <1>1, <1>2
    <3> QED BY <1>1, <3>1
  <2> QED BY <2>1, EndsAgree
<1> DEFINE E == HeadEnds(t)
<1>3. E = {i \in 1 .. n : EndsHead(t, i)}
  BY <1>1, HeadEndsAre
<1> HIDE DEF E
<1>4. \A i \in E : i >= head
  <2> SUFFICES ASSUME NEW i \in E, ~ (i >= head) PROVE FALSE
    OBVIOUS
  <2>1. i \in 1 .. n /\ i <= head /\ i \in 1 .. head - 1 /\ EndsHead(t, i)
    BY <1>1, <1>3
  <2> QED BY <1>1, <1>2, <2>1
<1>5. n < head => E = {}
  <2> SUFFICES ASSUME n < head, NEW i \in E PROVE FALSE
    OBVIOUS
  <2>1. i \in 1 .. n /\ i >= head
    BY <1>3, <1>4
  <2> QED BY <1>1, <2>1
<1>6. ASSUME head <= n PROVE E # {} /\ Min(E) = head
  <2>1. head \in 1 .. n /\ head <= head
    BY <1>1, <1>6
  <2>2. head \in E
    <3>1. EndsHead(t, head)
      BY <1>1, <1>2, <2>1
    <3> QED BY <1>3, <2>1, <3>1
  <2>3. E \in SUBSET Nat /\ \A i \in E : head <= i
    BY <1>1, <1>3, <1>4
  <2>4. Min(E) = head
    BY <2>2, <2>3, MinEq
  <2> QED BY <2>2, <2>4
<1> QED BY <1>5, <1>6 DEF E

(* The body begins after it: with text, or where the next message does. *)
LEMMA BodyFound ==
  ASSUME NEW t, NEW n, NEW m, NEW head, NEW body,
         IsReplyOf(m, head, body), IsText(t, n, m, head, body), head <= n
  PROVE  BodyStart(t) = head + 1
<1>1. /\ n \in Nat /\ head \in Nat /\ body \in Nat /\ t \in Seq(Nat) /\ Len(t) = n
      /\ Min(HeadEnds(t)) = head
  <2>1. Min(HeadEnds(t)) = head
    BY HeadFound
  <2> QED BY <2>1 DEF IsReplyOf, IsText
<1> DEFINE F == {i \in head + 1 .. n : t[i] \notin {NL, CR}}
           G == F \cup {n + 1}
<1>2. BodyStart(t) = Min(G)
  <2> DEFINE e == Min(HeadEnds(t))
             k == Len(t)
  <2>1. BodyStart(t) = Min({i \in e + 1 .. k : t[i] \notin {NL, CR}} \cup {k + 1})
    BY DEF BodyStart
  <2>2. e = head /\ k = n
    BY <1>1
  <2> HIDE DEF e, k
  <2> QED BY <2>1, <2>2
<1>3. G \in SUBSET Nat /\ \A i \in G : head + 1 <= i
  BY <1>1
<1>4. head + 1 \in G
  <2>1. CASE head = n
    BY <2>1
  <2>2. CASE head < n
    <3>1. head + 1 \in 1 .. n /\ head + 1 \in head + 1 .. n
      BY <1>1, <2>2
    <3>2. t[head + 1] = Text \/ t[head + 1] = Dollar
      <4>1. head < head + 1 /\ (head + 1 <= head + body \/ head + 1 = head + body + 1)
        BY <1>1
      <4> QED BY <3>1, <4>1 DEF IsText
    <3>3. t[head + 1] \notin {NL, CR}
      BY <3>2 DEF Text, Dollar, NL, CR
    <3> QED BY <3>1, <3>3
  <2> QED BY <1>1, <2>1, <2>2
<1> HIDE DEF G
<1>5. Min(G) = head + 1
  BY <1>3, <1>4, MinEq
<1> QED BY <1>2, <1>5

(* Its length is the one the reply gives. *)
LEMMA LengthFound ==
  ASSUME NEW t, NEW n, NEW m, NEW head, NEW body,
         IsReplyOf(m, head, body), IsText(t, n, m, head, body), head <= n
  PROVE  body_exists(t) = body
<1>1. /\ n \in Nat /\ head \in Nat /\ body \in Nat /\ t \in Seq(Nat) /\ Len(t) = n
      /\ DOMAIN t = 1 .. n /\ \A i \in 1 .. n : t[i] \in Nat
      /\ \A i \in 1 .. n : i <= head => t[i] = m[i]
      /\ \A i \in 1 .. n : head + body < i => t[i] < Length(0)
      /\ \A i \in 1 .. n : head < i /\ i <= head + body => t[i] = Text
      /\ Length(0) \in Nat /\ Text < Length(0) /\ Text \in Nat
  BY DEF IsReplyOf, IsText, Length, Text
<1> DEFINE L == {i \in DOMAIN t : t[i] >= Length(0)}
<1>2. body_exists(t) = IF L = {} THEN 0 ELSE t[Min(L)] - Length(0)
  BY DEF body_exists
<1>3. \A i \in L : i <= head
  <2> SUFFICES ASSUME NEW i \in L, ~ (i <= head) PROVE FALSE
    OBVIOUS
  <2>1. i \in 1 .. n /\ t[i] >= Length(0) /\ head < i /\ t[i] \in Nat
    BY <1>1
  <2>2. i <= head + body \/ head + body < i
    BY <1>1, <2>1
  <2>3. t[i] < Length(0)
    BY <1>1, <2>1, <2>2
  <2> QED BY <1>1, <2>1, <2>3
<1>4. CASE body = 0
  <2>1. \A i \in 1 .. head : m[i] < Length(0)
    BY <1>4 DEF IsReplyOf
  <2>2. L = {}
    <3> SUFFICES ASSUME NEW i \in L PROVE FALSE
      OBVIOUS
    <3>1. i \in 1 .. n /\ i <= head /\ t[i] >= Length(0) /\ t[i] = m[i] /\ t[i] \in Nat
      BY <1>1, <1>3
    <3>2. i \in 1 .. head
      BY <1>1, <3>1
    <3> QED BY <1>1, <2>1, <3>1, <3>2
  <2> QED BY <1>2, <1>4, <2>2
<1>5. CASE body # 0
  <2>1. PICK j \in 1 .. head : m[j] = Length(body) /\ \A i \in 1 .. j - 1 : m[i] < Length(0)
    BY <1>1, <1>5 DEF IsReplyOf
  <2>2. j \in 1 .. n /\ j \in Nat /\ t[j] = Length(body)
    BY <1>1, <2>1
  <2>3. j \in L
    BY <1>1, <2>2 DEF Length
  <2>4. \A i \in L : j <= i
    <3> SUFFICES ASSUME NEW i \in L, ~ (j <= i) PROVE FALSE
      OBVIOUS
    <3>1. i \in 1 .. n /\ i <= head /\ t[i] >= Length(0) /\ t[i] = m[i] /\ t[i] \in Nat
      BY <1>1, <1>3
    <3>2. i \in 1 .. j - 1
      BY <1>1, <2>2, <3>1
    <3> QED BY <1>1, <2>1, <3>1, <3>2
  <2>5. L \in SUBSET Nat
    BY <1>1
  <2> HIDE DEF L
  <2>6. Min(L) = j
    BY <2>3, <2>4, <2>5, MinEq
  <2>7. body_exists(t) = Length(body) - Length(0)
    BY <1>2, <2>2, <2>3, <2>6
  <2>8. Length(body) - Length(0) = body
    BY <1>1 DEF Length
  <2> QED BY <2>7, <2>8
<1> QED BY <1>4, <1>5

(* So the reply is found when it is all there, and only then. *)
LEMMA TextFound ==
  ASSUME NEW t, NEW n, NEW m, NEW head, NEW body,
         IsReplyOf(m, head, body), IsText(t, n, m, head, body)
  PROVE  TextSize(t) = IF n < Len(m) THEN 0 ELSE Len(m)
<1>1. /\ n \in Nat /\ head \in Nat /\ body \in Nat /\ Len(m) = head + body /\ Len(t) = n
  BY DEF IsReplyOf, IsText
<1>2. CASE n < head
  <2>1. TextSize(t) = 0
    BY <1>2, HeadFound DEF TextSize
  <2>2. n < Len(m)
    BY <1>1, <1>2
  <2> QED BY <2>1, <2>2
<1>3. CASE head <= n
  <2>1. HeadEnds(t) # {} /\ BodyStart(t) = head + 1 /\ body_exists(t) = body
    BY <1>3, HeadFound, BodyFound, LengthFound
  <2>2. TextSize(t) = IF n - (head + 1 - 1) < body THEN 0 ELSE head + 1 - 1 + body
    BY <1>1, <2>1 DEF TextSize
  <2>3. head + 1 - 1 = head
    BY <1>1
  <2>4. n - head < body <=> n < Len(m)
    BY <1>1
  <2> QED BY <1>1, <2>2, <2>3, <2>4
<1> QED BY <1>1, <1>2, <1>3

(* The first message of a buffer b, of which c is still to come, is m: the server's
   messages are m and then those with the bytes r. *)
Framed(b, c, m, r) == /\ b \in Seq(Nat) /\ c \in Seq(Nat) /\ b # <<>>
                      /\ m \in Messages /\ r \in Seq(Nat)
                      /\ Joined(b, c) = Joined(m, r)

LEMMA MessagesAre == \A m \in Messages : m \in Seq(Nat) /\ m # <<>>
<1>1. ASSUME NEW m \in PacketMessages PROVE m \in Seq(Nat) /\ Len(m) # 0
  <2>1. Octet \subseteq Nat
    BY OctetIs
  <2>2. m \in Seq(Octet) /\ Len(m) >= 4 /\ Len(m) \in Nat
    BY PacketIs
  <2>3. m \in Seq(Nat)
    BY <2>1, <2>2, SeqMonotonic
  <2> QED BY <2>2, <2>3
<1>2. ASSUME NEW m \in ReplyMessages PROVE m \in Seq(Nat) /\ Len(m) # 0
  <2>1. PICK head, body : IsReplyOf(m, head, body)
    BY ReplyIs
  <2> QED BY <2>1 DEF IsReplyOf
<1> QED BY <1>1, <1>2 DEF Messages, PacketMessages

(* As far as the buffer goes, its bytes are those of the message and then of the rest. *)
LEMMA FramedBytes ==
  ASSUME NEW b, NEW c, NEW m, NEW r, Framed(b, c, m, r)
  PROVE  /\ Len(b) \in Nat \ {0} /\ Len(m) \in Nat \ {0} /\ Len(r) \in Nat
         /\ m \in Seq(Nat) /\ Len(b) <= Len(m) + Len(r)
         /\ \A i \in 1 .. Len(b) : i <= Len(m) => b[i] = m[i]
         /\ \A i \in 1 .. Len(r) : Len(m) + i <= Len(b) => b[Len(m) + i] = r[i]
<1>1. /\ b \in Seq(Nat) /\ c \in Seq(Nat) /\ m \in Seq(Nat) /\ r \in Seq(Nat)
      /\ b # <<>> /\ m # <<>> /\ Joined(b, c) = Joined(m, r)
  BY MessagesAre DEF Framed
<1>2. Len(b) \in Nat \ {0} /\ Len(m) \in Nat \ {0} /\ Len(r) \in Nat /\ Len(c) \in Nat
  BY <1>1
<1> DEFINE u == Joined(b, c)
<1>3. /\ Len(u) = Len(b) + Len(c) /\ Len(u) = Len(m) + Len(r)
      /\ \A i \in 1 .. Len(b) : u[i] = b[i]
      /\ \A i \in 1 .. Len(m) : u[i] = m[i]
      /\ \A i \in 1 .. Len(r) : u[Len(m) + i] = r[i]
  <2>1. IsJoin(u, b, Len(b), c, Len(c))
    BY <1>1, JoinedSeq
  <2>2. IsJoin(Joined(m, r), m, Len(m), r, Len(r))
    BY <1>1, JoinedSeq
  <2>3. u = Joined(m, r)
    BY <1>1
  <2> HIDE DEF u
  <2> QED BY <2>1, <2>2, <2>3 DEF IsJoin
<1> HIDE DEF u
<1>4. ASSUME NEW i \in 1 .. Len(b), i <= Len(m) PROVE b[i] = m[i]
  <2>1. i \in 1 .. Len(m)
    BY <1>2, <1>4
  <2> QED BY <1>3, <2>1
<1>5. ASSUME NEW i \in 1 .. Len(r), Len(m) + i <= Len(b) PROVE b[Len(m) + i] = r[i]
  <2> DEFINE k == Len(m) + i
  <2>1. k \in 1 .. Len(b)
    BY <1>2, <1>5
  <2>2. u[k] = r[i]
    BY <1>3
  <2> HIDE DEF k
  <2>3. b[k] = r[i]
    BY <1>3, <2>1, <2>2
  <2> QED BY <2>3 DEF k
<1>6. Len(b) <= Len(m) + Len(r)
  BY <1>2, <1>3
<1> QED BY <1>1, <1>2, <1>4, <1>5, <1>6

(* The bytes of packets: none, or octets that begin with a dollar sign. *)
PacketsOnly(r) == r \in Seq(Octet) /\ (r = <<>> \/ r[1] = Dollar)

(* A reply is found when it is all in the buffer, if packets follow it. *)
LEMMA ReplyFramed ==
  ASSUME NEW b, NEW c, NEW m, NEW r, Framed(b, c, m, r), m \in ReplyMessages,
         PacketsOnly(r), NEW n \in 0 .. Len(b), n < Len(b) => b[n + 1] = NUL
  PROVE  TextSize(SubSeq(b, 1, n)) = IF Len(b) < Len(m) THEN 0 ELSE Len(m)
<1> DEFINE t == SubSeq(b, 1, n)
<1>1. PICK head, body : IsReplyOf(m, head, body)
  BY ReplyIs
<1>2. /\ head \in Nat /\ body \in Nat /\ Len(m) = head + body
      /\ \A i \in 1 .. head : m[i] # NUL
      /\ \A i \in head + 1 .. head + body : m[i] = Text
  BY <1>1 DEF IsReplyOf
<1>3. /\ Len(b) \in Nat \ {0} /\ Len(r) \in Nat /\ n \in Nat /\ n <= Len(b)
      /\ Len(b) <= Len(m) + Len(r) /\ Len(m) \in Nat
      /\ \A i \in 1 .. Len(b) : i <= Len(m) => b[i] = m[i]
      /\ \A i \in 1 .. Len(r) : Len(m) + i <= Len(b) => b[Len(m) + i] = r[i]
  <2>1. /\ Len(b) \in Nat \ {0} /\ Len(m) \in Nat \ {0} /\ Len(r) \in Nat
        /\ Len(b) <= Len(m) + Len(r)
        /\ \A i \in 1 .. Len(b) : i <= Len(m) => b[i] = m[i]
        /\ \A i \in 1 .. Len(r) : Len(m) + i <= Len(b) => b[Len(m) + i] = r[i]
    BY FramedBytes
  <2>2. n \in Nat /\ n <= Len(b)
    BY <2>1
  <2> QED BY <2>1, <2>2
<1>4. t \in Seq(Nat) /\ Len(t) = n /\ \A i \in 1 .. n : t[i] = b[i]
  BY FirstPart DEF Framed
<1> HIDE DEF t
<1>5. \A i \in 1 .. Len(m) : m[i] # NUL
  <2> SUFFICES ASSUME NEW i \in 1 .. Len(m) PROVE m[i] # NUL
    OBVIOUS
  <2>1. i \in 1 .. head \/ i \in head + 1 .. head + body
    BY <1>2
  <2> QED BY <1>2, <2>1 DEF Text, NUL
<1>6. n < Len(m) <=> Len(b) < Len(m)
  <2>1. ASSUME n < Len(m), n < Len(b) PROVE FALSE
    <3> DEFINE k == n + 1
    <3>1. k \in 1 .. Len(m) /\ k \in 1 .. Len(b) /\ k <= Len(m) /\ b[k] = NUL
      BY <1>3, <2>1
    <3> HIDE DEF k
    <3> QED BY <1>3, <1>5, <3>1
  <2> QED BY <1>3, <2>1
<1>7. ASSUME NEW i \in 1 .. n
      PROVE  /\ i <= head => t[i] = m[i]
             /\ head < i /\ i <= head + body => t[i] = Text
             /\ head + body < i => t[i] < Length(0)
             /\ i = head + body + 1 => t[i] = Dollar
  <2>1. i \in 1 .. Len(b) /\ t[i] = b[i] /\ i \in Nat
    BY <1>3, <1>4
  <2>2. CASE i <= Len(m)
    <3>1. b[i] = m[i]
      BY <1>3, <2>1, <2>2
    <3>2. head < i => i \in head + 1 .. head + body
      BY <1>2, <2>1, <2>2
    <3>3. ~ (head + body < i) /\ i # head + body + 1
      BY <1>2, <2>1, <2>2
    <3> QED BY <1>2, <2>1, <3>1, <3>2, <3>3
  <2>3. CASE Len(m) < i
    <3> DEFINE k == i - Len(m)
    <3>1. k \in 1 .. Len(r) /\ Len(m) + k = i /\ i <= Len(b)
      BY <1>3, <2>1, <2>3
    <3>2. ~ (i <= head) /\ ~ (i <= head + body) /\ (i = head + body + 1 => k = 1)
      BY <1>2, <2>1, <2>3
    <3> HIDE DEF k
    <3>3. b[i] = r[k]
      BY <1>3, <3>1
    <3>4. r[k] \in Octet
      BY <3>1 DEF PacketsOnly
    <3>5. r[k] < Length(0)
      BY <3>4, OctetIs DEF Length
    <3>6. k = 1 => r[k] = Dollar
      <4>1. r # <<>>
        BY <3>1
      <4> QED BY <4>1 DEF PacketsOnly
    <3> QED BY <2>1, <3>2, <3>3, <3>5, <3>6
  <2> QED BY <1>3, <2>1, <2>2, <2>3
<1>8. IsText(t, n, m, head, body)
  BY <1>3, <1>4, <1>7 DEF IsText
<1>9. TextSize(t) = IF n < Len(m) THEN 0 ELSE Len(m)
  BY <1>1, <1>8, TextFound
<1>10. TextSize(t) = IF Len(b) < Len(m) THEN 0 ELSE Len(m)
  BY <1>6, <1>9
<1> QED BY <1>10 DEF t

(* A packet's first four bytes have no empty line in them. *)
NoEmptyLine == \A m \in PacketMessages : HeadEnds(SubSeq(m, 1, 4)) = {}

(* What lies behind the buffer is a '\0'. *)
BufferTerminated == \A g \in Beyond : g = <<>> \/ g[1] = NUL

(* The server sends packets to a client that has asked for interleaved ones. *)
PacketsAsked == Packets # {} => Entries # <<>>

(* The header of a packet is no text that ends. *)
LEMMA PacketNoText ==
  ASSUME NoEmptyLine, NEW b, NEW c, NEW m, NEW r, Framed(b, c, m, r),
         m \in PacketMessages, Len(b) <= 4, NEW n \in 0 .. Len(b)
  PROVE  TextSize(SubSeq(b, 1, n)) = 0
<1> DEFINE t == SubSeq(b, 1, n)
           h == SubSeq(m, 1, 4)
<1>1. /\ Len(b) \in Nat /\ Len(m) \in Nat /\ m \in Seq(Nat)
      /\ \A i \in 1 .. Len(b) : i <= Len(m) => b[i] = m[i]
  BY FramedBytes
<1>2. Len(m) >= 4 /\ 4 \in 0 .. Len(m) /\ n \in Nat /\ n <= 4
  <2>1. Len(m) >= 4
    BY PacketIs
  <2> QED BY <1>1, <2>1
<1>3. t \in Seq(Nat) /\ Len(t) = n /\ \A i \in 1 .. n : t[i] = b[i]
  BY FirstPart DEF Framed
<1>4. h \in Seq(Nat) /\ Len(h) = 4 /\ \A i \in 1 .. 4 : h[i] = m[i]
  BY <1>1, <1>2, FirstPart
<1>5. HeadEnds(h) = {}
  BY DEF NoEmptyLine
<1> HIDE DEF t, h
<1>6. \A i \in 1 .. n : i \in 1 .. 4 /\ t[i] = h[i]
  <2> SUFFICES ASSUME NEW i \in 1 .. n PROVE i \in 1 .. 4 /\ t[i] = h[i]
    OBVIOUS
  <2>1. i \in 1 .. Len(b) /\ i <= Len(m) /\ i \in 1 .. 4
    BY <1>1, <1>2
  <2> QED BY <1>1, <1>3, <1>4, <2>1
<1>7. HeadEnds(t) = {i \in 1 .. n : EndsHead(t, i)} /\ HeadEnds(h) = {i \in 1 .. 4 : EndsHead(h, i)}
  BY <1>2, <1>3, <1>4, HeadEndsAre
<1>8. HeadEnds(t) = {}
  <2> SUFFICES ASSUME NEW i \in HeadEnds(t) PROVE FALSE
    OBVIOUS
  <2>1. i \in 1 .. n /\ i \in Nat /\ i > 0 /\ EndsHead(t, i)
    BY <1>7
  <2>2. \A k \in 1 .. i : t[k] = h[k]
    BY <1>2, <1>6, <2>1
  <2>3. EndsHead(h, i)
    BY <2>1, <2>2, EndsAgree
  <2>4. i \in HeadEnds(h)
    BY <1>6, <1>7, <2>1, <2>3
  <2> QED BY <1>5, <2>4
<1>9. TextSize(t) = 0
  BY <1>8 DEF TextSize
<1> QED BY <1>9 DEF t

(* The kind of the first message shows in the first byte of the buffer. *)
LEMMA KindFound ==
  ASSUME PacketsAsked, NEW b, NEW c, NEW m, NEW r, Framed(b, c, m, r)
  PROVE  /\ m \in PacketMessages => IsPacket(b)
         /\ m \in ReplyMessages => ~ IsPacket(b) /\ b[1] # Dollar
         /\ b[1] = m[1]
<1>1. b[1] = m[1]
  <2>1. /\ Len(b) \in Nat \ {0} /\ Len(m) \in Nat \ {0}
        /\ \A i \in 1 .. Len(b) : i <= Len(m) => b[i] = m[i]
    BY FramedBytes
  <2>2. 1 \in 1 .. Len(b) /\ 1 <= Len(m)
    BY <2>1
  <2> QED BY <2>1, <2>2
<1>2. ASSUME m \in PacketMessages PROVE IsPacket(b)
  <2>1. m[1] = Dollar
    BY <1>2, PacketIs
  <2>2. Entries # <<>>
    BY <1>2 DEF PacketMessages, PacketsAsked
  <2> QED BY <1>1, <2>1, <2>2 DEF IsPacket
<1>3. ASSUME m \in ReplyMessages PROVE ~ IsPacket(b) /\ b[1] # Dollar
  <2>1. PICK head, body : IsReplyOf(m, head, body)
    BY <1>3, ReplyIs
  <2>2. m[1] # Dollar
    BY <2>1 DEF IsReplyOf, Good, Bad, Dollar
  <2> QED BY <1>1, <2>2 DEF IsPacket
<1> QED BY <1>1, <1>2, <1>3

(* full_msg_rcvd finds the first message when it is all there, and nothing before. *)
LEMMA MessageFound ==
  ASSUME NoEmptyLine, BufferTerminated, PacketsAsked,
         NEW b, NEW c, NEW m, NEW r, Framed(b, c, m, r),
         m \in ReplyMessages => PacketsOnly(r), NEW g \in Garbage
  PROVE  \/ full_msg_rcvd(b, g) = 0
         \/ full_msg_rcvd(b, g) = Len(m) /\ Len(m) <= Len(b)
<1>1. g \in Seq(Nat) /\ (g = <<>> \/ g[1] = NUL)
  <2>1. g = <<>> \/ g \in Beyond
    BY DEF Garbage
  <2>2. Beyond \subseteq Seq(Nat) /\ <<>> \in Seq(Nat)
    BY FramingAssumption
  <2> QED BY <2>1, <2>2 DEF BufferTerminated
<1>2. b \in Seq(Nat)
  BY DEF Framed
<1>3. PICK n \in 0 .. Len(b) : /\ Visible(b, g) = SubSeq(b, 1, n)
                               /\ n < Len(b) => b[n + 1] = NUL
  BY <1>1, <1>2, VisibleIs
<1>4. /\ Len(b) \in Nat /\ Len(m) \in Nat
      /\ \A i \in 1 .. Len(b) : i <= Len(m) => b[i] = m[i]
  BY FramedBytes
<1>5. CASE m \in ReplyMessages
  <2>1. full_msg_rcvd(b, g) = TextSize(SubSeq(b, 1, n))
    BY <1>3, <1>5, KindFound DEF full_msg_rcvd
  <2>2. TextSize(SubSeq(b, 1, n)) = IF Len(b) < Len(m) THEN 0 ELSE Len(m)
    BY <1>3, <1>5, ReplyFramed
  <2> QED BY <1>4, <2>1, <2>2
<1>6. CASE m \in PacketMessages
  <2>1. IsPacket(b)
    BY <1>6, KindFound
  <2>2. CASE Len(b) > 4
    <3>1. full_msg_rcvd(b, g) = PacketSize(b)
      BY <2>1, <2>2 DEF full_msg_rcvd
    <3>2. Len(m) >= 4 /\ m[3] * 256 + m[4] + 4 = Len(m)
      BY <1>6, PacketIs
    <3>3. b[3] = m[3] /\ b[4] = m[4]
      <4>1. 3 \in 1 .. Len(b) /\ 4 \in 1 .. Len(b) /\ 3 <= Len(m) /\ 4 <= Len(m)
        BY <1>4, <2>2, <3>2
      <4> QED BY <1>4, <4>1
    <3>4. PacketSize(b) = IF Len(m) <= Len(b) THEN Len(m) ELSE 0
      BY <3>2, <3>3 DEF PacketSize
    <3> QED BY <3>1, <3>4
  <2>3. CASE Len(b) <= 4
    <3>1. full_msg_rcvd(b, g) = TextSize(SubSeq(b, 1, n))
      <4>1. ~ (Len(b) > 4)
        BY <1>4, <2>3
      <4> QED BY <1>3, <4>1 DEF full_msg_rcvd
    <3>2. TextSize(SubSeq(b, 1, n)) = 0
      BY <1>6, <2>3, PacketNoText
    <3> QED BY <3>1, <3>2
  <2> QED BY <1>4, <2>2, <2>3
<1>7. m \in ReplyMessages \/ m \in PacketMessages
  BY DEF Framed, Messages, PacketMessages
<1> QED BY <1>5, <1>6, <1>7

(* What is found is the message, and what is left is the beginning of the rest. *)
LEMMA MessageTaken ==
  ASSUME NEW b, NEW c, NEW m, NEW r, Framed(b, c, m, r), Len(m) <= Len(b), NEW g \in Seq(Nat)
  PROVE  /\ SubSeq(b \o g, 1, Len(m)) = m
         /\ Joined(SubSeq(b, Len(m) + 1, Len(b)), c) = r
         /\ SubSeq(b, Len(m) + 1, Len(b)) \in Seq(Nat)
         /\ SubSeq(b, 5, Len(m)) = SubSeq(m, 5, Len(m))
<1>1. /\ b \in Seq(Nat) /\ c \in Seq(Nat) /\ m \in Seq(Nat) /\ r \in Seq(Nat)
      /\ Joined(b, c) = Joined(m, r)
  BY MessagesAre DEF Framed
<1>2. Len(b) \in Nat \ {0} /\ Len(m) \in Nat \ {0}
  BY FramedBytes
<1>3. SubSeq(b, 1, Len(m)) = m /\ Joined(SubSeq(b, Len(m) + 1, Len(b)), c) = r
  BY <1>1, JoinedSplit
<1>4. SubSeq(b, Len(m) + 1, Len(b)) \in Seq(Nat)
  <2>1. Len(m) \in 0 .. Len(b)
    BY <1>2
  <2> QED BY <1>1, <2>1, LastPart
<1>5. SubSeq(b \o g, 1, Len(m)) = m
  <2>1. 1 \in 1 .. Len(b) /\ Len(m) \in 1 .. Len(b)
    BY <1>2
  <2>2. SubSeq(b \o g, 1, Len(m)) = SubSeq(b, 1, Len(m))
    BY <1>1, <2>1, SubSeqOfConcat1
  <2> QED BY <1>3, <2>2
<1>6. SubSeq(b, 5, Len(m)) = SubSeq(m, 5, Len(m))
  <2>1. \A i \in 1 .. Len(b) : i <= Len(m) => b[i] = m[i]
    BY FramedBytes
  <2> DEFINE x == SubSeq(b, 5, Len(m))
             y == SubSeq(m, 5, Len(m))
             k == Len(m) - 5 + 1
  <2>2. \A i \in 5 .. Len(m) : b[i] = m[i] /\ b[i] \in Nat /\ m[i] \in Nat
    <3> SUFFICES ASSUME NEW i \in 5 .. Len(m) PROVE b[i] = m[i] /\ b[i] \in Nat /\ m[i] \in Nat
      OBVIOUS
    <3>1. i \in 1 .. Len(b) /\ i \in 1 .. Len(m) /\ i <= Len(m)
      BY <1>2
    <3> QED BY <1>1, <2>1, <3>1
  <2>3. /\ x \in Seq(Nat) /\ Len(x) = IF 5 <= Len(m) THEN k ELSE 0
        /\ \A i \in 1 .. k : x[i] = b[5 + i - 1]
    BY <1>2, <2>2, SubSeqProperties
  <2>4. /\ y \in Seq(Nat) /\ Len(y) = IF 5 <= Len(m) THEN k ELSE 0
        /\ \A i \in 1 .. k : y[i] = m[5 + i - 1]
    BY <1>2, <2>2, SubSeqProperties
  <2> HIDE DEF x, y
  <2>5. ASSUME NEW i \in 1 .. k PROVE x[i] = y[i]
    <3> DEFINE j == 5 + i - 1
    <3>1. j \in 5 .. Len(m)
      BY <1>2
    <3>2. x[i] = b[j] /\ y[i] = m[j]
      BY <2>3, <2>4
    <3> HIDE DEF j
    <3> QED BY <2>2, <3>1, <3>2
  <2>6. Len(x) = Len(y) /\ \A i \in 1 .. Len(x) : x[i] = y[i]
    BY <1>2, <2>3, <2>4, <2>5
  <2>7. x = y
    BY <2>3, <2>4, <2>6, SeqEqual
  <2> QED BY <2>7 DEF x, y
<1> QED BY <1>3, <1>4, <1>5, <1>6

-----------------------------------------------------------------------------
(* The packets of a channel.                                               *)

Payload(m) == SubSeq(m, 5, Len(m))

LEMMA PayloadIs == ASSUME NEW m \in Seq(Nat) PROVE Payload(m) \in Seq(Nat)
<1>1. \A i \in 5 .. Len(m) : m[i] \in Nat
  OBVIOUS
<1>2. Len(m) \in Int
  OBVIOUS
<1> QED BY <1>1, <1>2, SubSeqProperties DEF Payload

(* The payloads found after each message. *)
DataStep(ms, ch, k, s) == IF IsOn(ms[k], ch) THEN Append(s, Payload(ms[k])) ELSE s
IsData(h, ms, ch) ==
  /\ h \in [0 .. Len(ms) -> Seq(Seq(Nat))] /\ h[0] = <<>>
  /\ \A k \in 1 .. Len(ms) : h[k] = DataStep(ms, ch, k, h[k - 1])

LEMMA DataIs ==
  ASSUME NEW ms \in Seq(Seq(Nat)), NEW ch
  PROVE  \E h : IsData(h, ms, ch) /\ DataOn(ms, ch) = h[Len(ms)]
<1> DEFINE n == Len(ms)
           D == Seq(Seq(Nat))
           Step == [p \in (1 .. n) \X D |-> DataStep(ms, ch, p[1], p[2])]
           G(f) == [k \in 0 .. n |-> IF k = 0 THEN <<>> ELSE DataStep(ms, ch, k, f[k - 1])]
           c == CHOOSE f : f = G(f)
<1>1. n \in Nat /\ <<>> \in D
  OBVIOUS
<1>2. ASSUME NEW k \in 1 .. n, NEW s \in D PROVE DataStep(ms, ch, k, s) \in D
  <2>1. Payload(ms[k]) \in Seq(Nat)
    <3>1. ms[k] \in Seq(Nat)
      OBVIOUS
    <3> QED BY <3>1, PayloadIs
  <2> QED BY <2>1, AppendProperties DEF DataStep
<1> HIDE DEF n, D
<1>3. Step \in [(1 .. n) \X D -> D]
  <2>1. ASSUME NEW p \in (1 .. n) \X D PROVE DataStep(ms, ch, p[1], p[2]) \in D
    BY <1>2
  <2> QED BY <2>1
<1> HIDE DEF Step
<1>4. PICK h : IsFold(h, n, D, <<>>, Step)
  BY <1>1, <1>3, FoldRuns
<1>5. h \in [0 .. n -> D] /\ h[0] = <<>> /\ \A k \in 1 .. n : h[k] = DataStep(ms, ch, k, h[k - 1])
  <2>1. /\ h \in [0 .. n -> D] /\ h[0] = <<>>
        /\ \A k \in 1 .. n : h[k] = Step[<<k, h[k - 1]>>]
    BY <1>4 DEF IsFold
  <2>2. ASSUME NEW k \in 1 .. n PROVE h[k] = DataStep(ms, ch, k, h[k - 1])
    <3>1. h[k - 1] \in D
      <4>1. k - 1 \in 0 .. n
        BY <1>1
      <4> QED BY <2>1, <4>1
    <3>2. Step[<<k, h[k - 1]>>] = DataStep(ms, ch, k, h[k - 1])
      BY <3>1 DEF Step
    <3> QED BY <2>1, <3>2
  <2> QED BY <2>1, <2>2
<1>6. h = G(h)
  <2>1. \A k \in 0 .. n : h[k] = IF k = 0 THEN <<>> ELSE DataStep(ms, ch, k, h[k - 1])
    <3>1. \A k \in 0 .. n : k = 0 \/ k \in 1 .. n
      BY <1>1
    <3> QED BY <1>5, <3>1
  <2> QED BY <1>5, <2>1
<1>7. c = G(c)
  <2> HIDE DEF G
  <2> QED BY <1>6
<1>8. DataOn(ms, ch) = c[n]
  BY DEF DataOn, DataStep, Payload, n
<1> HIDE DEF c
<1>9. c[0] = <<>> /\ \A k \in 1 .. n : c[k] = DataStep(ms, ch, k, c[k - 1])
  <2>1. \A k \in 0 .. n : c[k] = IF k = 0 THEN <<>> ELSE DataStep(ms, ch, k, c[k - 1])
    BY <1>7
  <2>2. \A k \in 1 .. n : k \in 0 .. n /\ k # 0
    BY <1>1
  <2>3. 0 \in 0 .. n
    BY <1>1
  <2> QED BY <2>1, <2>2, <2>3
<1> DEFINE T == {k \in 0 .. n : c[k] \in D}
<1>10. ASSUME NEW k \in 0 .. n - 1, k \in T PROVE k + 1 \in T
  <2>1. k + 1 \in 1 .. n /\ k + 1 \in 0 .. n /\ (k + 1) - 1 = k
    BY <1>1
  <2>2. c[k + 1] = DataStep(ms, ch, k + 1, c[k])
    BY <1>9, <2>1
  <2>3. DataStep(ms, ch, k + 1, c[k]) \in D
    BY <1>2, <1>10, <2>1
  <2> QED BY <2>1, <2>2, <2>3
<1>11. 0 .. n \subseteq T
  <2>1. 0 \in T
    BY <1>1, <1>9
  <2> HIDE DEF T
  <2> QED BY <1>1, <1>10, <2>1, UpTo
<1>12. c \in [0 .. n -> D]
  <2>1. \A k \in 0 .. n : c[k] \in D
    BY <1>11
  <2>2. c = [k \in 0 .. n |-> c[k]]
    BY <1>7
  <2> QED BY <2>1, <2>2
<1> QED BY <1>8, <1>9, <1>12 DEF IsData, n, D

(* Two of them agree on the messages they share. *)
LEMMA DataAgree ==
  ASSUME NEW s \in Seq(Seq(Nat)), NEW t \in Seq(Seq(Nat)), NEW ch, NEW h, NEW e,
         IsData(h, s, ch), IsData(e, t, ch), NEW n \in Nat, n <= Len(s), n <= Len(t),
         \A k \in 1 .. n : s[k] = t[k]
  PROVE  h[n] = e[n]
<1> DEFINE T == {k \in 0 .. n : h[k] = e[k]}
<1>1. 0 \in T
  BY DEF IsData
<1>2. ASSUME NEW k \in 0 .. n - 1, k \in T PROVE k + 1 \in T
  <2>1. /\ k + 1 \in 1 .. Len(s) /\ k + 1 \in 1 .. Len(t) /\ k + 1 \in 1 .. n
        /\ (k + 1) - 1 = k /\ k + 1 \in 0 .. n
    OBVIOUS
  <2>2. h[k + 1] = DataStep(s, ch, k + 1, h[k]) /\ e[k + 1] = DataStep(t, ch, k + 1, e[k])
    BY <2>1 DEF IsData
  <2> QED BY <1>2, <2>1, <2>2 DEF DataStep
<1>3. 0 .. n \subseteq T
  <2> HIDE DEF T
  <2> QED BY <1>1, <1>2, UpTo
<1> QED BY <1>3

LEMMA DataEmpty == \A ch : DataOn(<<>>, ch) = <<>>
<1> SUFFICES ASSUME NEW ch PROVE DataOn(<<>>, ch) = <<>>
  OBVIOUS
<1>1. <<>> \in Seq(Seq(Nat)) /\ Len(<<>>) = 0
  OBVIOUS
<1>2. PICK h : IsData(h, <<>>, ch) /\ DataOn(<<>>, ch) = h[Len(<<>>)]
  BY <1>1, DataIs
<1> QED BY <1>1, <1>2 DEF IsData

(* One more message adds its payload when it is on the channel. *)
LEMMA DataAppend ==
  ASSUME NEW ms \in Seq(Seq(Nat)), NEW m \in Seq(Nat), NEW ch
  PROVE  /\ IsOn(m, ch) => DataOn(Append(ms, m), ch) = Append(DataOn(ms, ch), Payload(m))
         /\ ~ IsOn(m, ch) => DataOn(Append(ms, m), ch) = DataOn(ms, ch)
<1> DEFINE t == Append(ms, m)
           n == Len(ms)
<1>1. /\ t \in Seq(Seq(Nat)) /\ Len(t) = n + 1 /\ t[n + 1] = m
      /\ n \in Nat /\ \A k \in 1 .. n : t[k] = ms[k]
  BY AppendProperties
<1>2. PICK h : IsData(h, ms, ch) /\ DataOn(ms, ch) = h[n]
  BY DataIs
<1> HIDE DEF t, n
<1>3. PICK e : IsData(e, t, ch) /\ DataOn(t, ch) = e[Len(t)]
  BY <1>1, DataIs
<1>4. h[n] = e[n]
  <2>1. n <= Len(ms) /\ n <= Len(t) /\ \A k \in 1 .. n : ms[k] = t[k]
    BY <1>1 DEF n
  <2>2. IsData(h, ms, ch) /\ IsData(e, t, ch) /\ t \in Seq(Seq(Nat)) /\ n \in Nat
    BY <1>1, <1>2, <1>3
  <2> QED BY <2>1, <2>2, DataAgree
<1>5. e[n + 1] = DataStep(t, ch, n + 1, e[n])
  <2>1. n + 1 \in 1 .. Len(t) /\ (n + 1) - 1 = n
    BY <1>1
  <2> QED BY <1>3, <2>1 DEF IsData
<1>6. DataOn(t, ch) = DataStep(t, ch, n + 1, DataOn(ms, ch))
  BY <1>1, <1>2, <1>3, <1>4, <1>5
<1> DEFINE k == n + 1
<1>7. t[k] = m /\ DataOn(t, ch) = DataStep(t, ch, k, DataOn(ms, ch))
  BY <1>1, <1>6
<1> HIDE DEF k
<1>8. /\ IsOn(m, ch) => DataOn(t, ch) = Append(DataOn(ms, ch), Payload(m))
      /\ ~ IsOn(m, ch) => DataOn(t, ch) = DataOn(ms, ch)
  BY <1>7 DEF DataStep
<1> QED BY <1>8 DEF t

(* The payloads of the first messages are the first payloads. *)
LEMMA PrefixIs ==
  ASSUME NEW S, NEW s \in Seq(S), NEW t \in Seq(S)
  PROVE  IsPrefix(s, t) <=> Len(s) <= Len(t) /\ \A i \in 1 .. Len(s) : s[i] = t[i]
<1>1. SubSeq(s, 1, Len(s)) = s
  BY SubSeqFull
<1>2. CASE Len(s) <= Len(t)
  <2> DEFINE a == SubSeq(t, 1, Len(s))
  <2>1. Len(s) \in 0 .. Len(t)
    BY <1>2
  <2>2. a \in Seq(S) /\ Len(a) = Len(s) /\ \A i \in 1 .. Len(s) : a[i] = t[i]
    BY <2>1, FirstPart
  <2> HIDE DEF a
  <2>3. ASSUME \A i \in 1 .. Len(s) : s[i] = t[i] PROVE s = a
    <3>1. \A i \in 1 .. Len(s) : s[i] = a[i]
      BY <2>2, <2>3
    <3> QED BY <2>2, <3>1, SeqEqual
  <2>4. s = a => \A i \in 1 .. Len(s) : s[i] = t[i]
    BY <2>2
  <2>5. IsPrefix(s, t) <=> s = a
    BY <1>1, <1>2 DEF IsPrefix, a
  <2> QED BY <1>2, <2>3, <2>4, <2>5
<1>3. CASE ~ (Len(s) <= Len(t))
  BY <1>3 DEF IsPrefix
<1> QED BY <1>2, <1>3

LEMMA DataPrefix ==
  ASSUME NEW ms \in Seq(Seq(Nat)), NEW d \in 0 .. Len(ms), NEW ch
  PROVE  IsPrefix(DataOn(SubSeq(ms, 1, d), ch), DataOn(ms, ch))
<1> DEFINE s == SubSeq(ms, 1, d)
           D == Seq(Seq(Nat))
           n == Len(ms)
<1>1. s \in Seq(Seq(Nat)) /\ Len(s) = d /\ \A i \in 1 .. d : s[i] = ms[i]
  BY FirstPart
<1>2. n \in Nat /\ d \in Nat /\ d <= n
  OBVIOUS
<1> HIDE DEF s
<1>3. PICK h : IsData(h, ms, ch) /\ DataOn(ms, ch) = h[n]
  BY DataIs
<1>4. PICK e : IsData(e, s, ch) /\ DataOn(s, ch) = e[d]
  BY <1>1, DataIs
<1>5. h[d] = e[d]
  <2>1. d <= Len(ms) /\ d <= Len(s) /\ \A k \in 1 .. d : ms[k] = s[k]
    BY <1>1, <1>2
  <2>2. IsData(h, ms, ch) /\ IsData(e, s, ch) /\ s \in Seq(Seq(Nat)) /\ d \in Nat
    BY <1>1, <1>2, <1>3, <1>4
  <2> QED BY <2>1, <2>2, DataAgree
<1>6. /\ \A k \in 0 .. n : h[k] \in D
      /\ \A k \in 1 .. n : h[k] = DataStep(ms, ch, k, h[k - 1])
  BY <1>3 DEF IsData
<1> DEFINE Begins(a, b) == Len(a) <= Len(b) /\ \A i \in 1 .. Len(a) : a[i] = b[i]
           T == {j \in 0 .. n - d : Begins(h[d], h[d + j])}
<1>7. 0 \in T
  <2>1. h[d] \in D /\ d + 0 = d /\ 0 \in 0 .. n - d
    BY <1>2, <1>6
  <2>2. Len(h[d]) \in Nat
    BY <2>1
  <2>3. Begins(h[d], h[d])
    BY <2>2
  <2> QED BY <2>1, <2>3
<1>8. ASSUME NEW j \in 0 .. n - d - 1, j \in T PROVE j + 1 \in T
  <2> DEFINE k == d + j
             a == h[d]
             b == h[k]
  <2>1. /\ k + 1 \in 1 .. n /\ k \in 0 .. n /\ (k + 1) - 1 = k /\ k + 1 = d + (j + 1)
        /\ j + 1 \in 0 .. n - d
    BY <1>2
  <2>2. h[k + 1] = DataStep(ms, ch, k + 1, b) /\ b \in D /\ a \in D
    BY <1>2, <1>6, <2>1
  <2>3. Begins(a, b)
    BY <1>8
  <2>4. Payload(ms[k + 1]) \in Seq(Nat)
    <3>1. ms[k + 1] \in Seq(Nat)
      BY <2>1
    <3> QED BY <3>1, PayloadIs
  <2> HIDE DEF a, b, k
  <2>5. Len(a) \in Nat /\ Len(b) \in Nat
    BY <2>2
  <2>6. Begins(a, h[k + 1])
    <3>1. CASE IsOn(ms[k + 1], ch)
      <4> DEFINE x == Append(b, Payload(ms[k + 1]))
      <4>1. h[k + 1] = x
        BY <2>2, <3>1 DEF DataStep
      <4>2. Len(x) = Len(b) + 1 /\ \A i \in 1 .. Len(b) : x[i] = b[i]
        BY <2>2, <2>4, AppendProperties
      <4> HIDE DEF x
      <4>3. \A i \in 1 .. Len(a) : a[i] = x[i]
        <5>1. \A i \in 1 .. Len(a) : i \in 1 .. Len(b)
          BY <2>3, <2>5
        <5> QED BY <2>3, <4>2, <5>1
      <4>4. Len(a) <= Len(x)
        BY <2>3, <2>5, <4>2
      <4> QED BY <4>1, <4>3, <4>4
    <3>2. CASE ~ IsOn(ms[k + 1], ch)
      <4>1. h[k + 1] = b
        BY <2>2, <3>2 DEF DataStep
      <4> QED BY <2>3, <4>1
    <3> QED BY <3>1, <3>2
  <2>7. Begins(h[d], h[d + (j + 1)])
    BY <2>1, <2>6 DEF a
  <2> HIDE DEF Begins
  <2> QED BY <2>1, <2>7
<1>9. n - d \in T
  <2>1. n - d \in Nat /\ \A j \in 0 .. (n - d) - 1 : j \in 0 .. n - d - 1
    BY <1>2
  <2> HIDE DEF T
  <2>2. 0 .. n - d \subseteq T
    BY <1>7, <1>8, <2>1, UpTo
  <2> QED BY <2>1, <2>2
<1>10. Begins(h[d], h[n])
  <2>1. d + (n - d) = n
    BY <1>2
  <2> HIDE DEF Begins
  <2> QED BY <1>9, <2>1
<1>11. h[d] \in D /\ h[n] \in D /\ DataOn(s, ch) = h[d] /\ DataOn(ms, ch) = h[n]
  BY <1>2, <1>3, <1>4, <1>5, <1>6
<1>12. IsPrefix(h[d], h[n])
  BY <1>10, <1>11, PrefixIs
<1> QED BY <1>11, <1>12 DEF s

-----------------------------------------------------------------------------
(* The inductive invariant.                                                *)

(* The messages sent and not yet handled. *)
Rest == SubSeq(sent, Len(handled) + 1, Len(sent))

(* What was handled is what was sent first. *)
Ordered == /\ sent \in Seq(Messages) /\ handled \in Seq(Messages)
           /\ Len(handled) <= Len(sent) /\ handled = SubSeq(sent, 1, Len(handled))

(* The buffer and what is on its way are the rest, message after message. *)
Streamed == open => Joined(buffer, net) = FlattenSeq(Rest)

(* No more than one reply is among them: requests are answered one at a time. *)
OneReply ==
  \A i, k \in Len(handled) + 1 .. Len(sent) :
    sent[i] \in ReplyMessages /\ sent[k] \in ReplyMessages => i = k

(* The packet that the RTP thread has been woken for is still in the socket pair. *)
WokenFor == rtpIn # 0 => sock[<<rtpIn, "rtp">>] > 0

(* A socket pair has been given all the packets that were handled of its channel, or
   none when an earlier entry has the same channel. *)
ChannelOf(f) == IF f[2] = "rtp" THEN Entries[f[1]].rtp ELSE Entries[f[1]].rtcp
Given(f, ms) == IF f \in Route(ChannelOf(f)) THEN DataOn(ms, ChannelOf(f)) ELSE <<>>
Routed == routed = [f \in Fds |-> Given(f, handled)]

FInv == /\ TypeOK /\ Ordered /\ Streamed /\ NoByteLost /\ OneReply
        /\ WokenFor /\ Routed

LEMMA FramingInit == Init => FInv
<1> SUFFICES ASSUME Init PROVE FInv
  OBVIOUS
<1>1. /\ net = <<>> /\ buffer = <<>> /\ sent = <<>> /\ handled = <<>>
      /\ rtpIn = 0 /\ routed = [f \in Fds |-> <<>>]
  BY DEF Init
<1>2. TypeOK
  BY FramingAssumption DEF Init, TypeOK
<1>3. Ordered
  <2>1. SubSeq(<<>>, 1, 0) = <<>>
    BY SubSeqEmpty
  <2> QED BY <1>1, <2>1 DEF Ordered
<1>4. FlattenSeq(<<>>) = <<>> /\ Joined(<<>>, <<>>) = <<>> /\ <<>> \in Seq(Nat)
  <2>1. <<>> \in Seq(Nat) /\ <<>> \in Seq(Seq(Nat))
    OBVIOUS
  <2> QED BY <2>1, FlattenBytes, JoinedEmpty
<1>5. Streamed
  <2>1. Rest = <<>>
    <3>1. SubSeq(<<>>, 0 + 1, 0) = <<>>
      BY SubSeqEmpty
    <3> QED BY <1>1, <3>1 DEF Rest
  <2> QED BY <1>1, <1>4, <2>1 DEF Streamed
<1>6. NoByteLost
  BY <1>1, <1>4 DEF NoByteLost, Joined
<1>7. OneReply
  BY <1>1 DEF OneReply
<1>8. Routed
  <2>1. \A f \in Fds : Given(f, <<>>) = <<>>
    BY DataEmpty DEF Given
  <2> QED BY <1>1, <2>1 DEF Routed
<1> QED BY <1>1, <1>2, <1>3, <1>5, <1>6, <1>7, <1>8 DEF FInv, WokenFor

-----------------------------------------------------------------------------
(* Sequences that grow at the end, and the part of them from some place on. *)

LEMMA RestGrows ==
  ASSUME NEW S, NEW s \in Seq(S), NEW e \in S, NEW d \in 0 .. Len(s)
  PROVE  /\ SubSeq(Append(s, e), 1, d) = SubSeq(s, 1, d)
         /\ SubSeq(Append(s, e), d + 1, Len(Append(s, e))) = Append(SubSeq(s, d + 1, Len(s)), e)
<1> DEFINE t == Append(s, e)
           n == Len(s)
<1>1. /\ t \in Seq(S) /\ Len(t) = n + 1 /\ \A i \in 1 .. n : t[i] = s[i]
      /\ t[n + 1] = e /\ n \in Nat /\ d \in Nat /\ d <= n
  <2>1. n \in Nat /\ d \in Nat /\ d <= n
    OBVIOUS
  <2> QED BY <2>1, AppendProperties
<1> HIDE DEF t, n
<1>2. SubSeq(t, 1, d) = SubSeq(s, 1, d)
  <2> DEFINE a == SubSeq(t, 1, d)
             b == SubSeq(s, 1, d)
  <2>1. a \in Seq(S) /\ Len(a) = d /\ \A i \in 1 .. d : a[i] = t[i]
    <3>1. d \in 0 .. Len(t)
      BY <1>1
    <3> QED BY <1>1, <3>1, FirstPart
  <2>2. b \in Seq(S) /\ Len(b) = d /\ \A i \in 1 .. d : b[i] = s[i]
    BY FirstPart
  <2>3. \A i \in 1 .. d : i \in 1 .. n
    BY <1>1
  <2> HIDE DEF a, b
  <2>4. Len(a) = Len(b) /\ \A i \in 1 .. Len(a) : a[i] = b[i]
    BY <1>1, <2>1, <2>2, <2>3
  <2>5. a = b
    BY <2>1, <2>2, <2>4, SeqEqual
  <2> QED BY <2>5 DEF a, b
<1>3. SubSeq(t, d + 1, Len(t)) = Append(SubSeq(s, d + 1, n), e)
  <2> DEFINE a == SubSeq(t, d + 1, Len(t))
             b == SubSeq(s, d + 1, n)
             c == Append(b, e)
             k == n - d
  <2>1. /\ a \in Seq(S) /\ Len(a) = Len(t) - d
        /\ \A i \in 1 .. Len(t) - d : a[i] = t[d + i]
    <3>1. d \in 0 .. Len(t)
      BY <1>1
    <3> QED BY <1>1, <3>1, LastPart
  <2>2. b \in Seq(S) /\ Len(b) = k /\ \A i \in 1 .. k : b[i] = s[d + i]
    BY LastPart DEF n
  <2>3. k \in Nat /\ Len(t) - d = k + 1 /\ d + (k + 1) = n + 1
    BY <1>1
  <2> HIDE DEF a, b
  <2>4. /\ c \in Seq(S) /\ Len(c) = k + 1 /\ c[k + 1] = e
        /\ \A i \in 1 .. k : c[i] = b[i]
    BY <2>2, AppendProperties
  <2> HIDE DEF c
  <2>5. ASSUME NEW i \in 1 .. k + 1 PROVE a[i] = c[i]
    <3> DEFINE j == d + i
    <3>1. a[i] = t[j]
      BY <2>1, <2>3
    <3>2. CASE i \in 1 .. k
      <4>1. j \in 1 .. n
        BY <1>1, <3>2
      <4>2. c[i] = s[j]
        BY <2>2, <2>4, <3>2
      <4> HIDE DEF j
      <4> QED BY <1>1, <3>1, <4>1, <4>2
    <3>3. CASE i = k + 1
      <4>1. j = n + 1
        BY <1>1, <3>3
      <4>2. a[i] = t[n + 1]
        BY <3>1, <4>1
      <4>3. c[i] = c[k + 1]
        BY <3>3
      <4> QED BY <1>1, <2>4, <4>2, <4>3
    <3>4. i \in 1 .. k \/ i = k + 1
      BY <2>3
    <3> QED BY <3>2, <3>3, <3>4
  <2>6. Len(a) = Len(c) /\ \A i \in 1 .. Len(a) : a[i] = c[i]
    BY <2>1, <2>3, <2>4, <2>5
  <2>7. a = c
    BY <2>1, <2>4, <2>6, SeqEqual
  <2> QED BY <2>7 DEF a, b, c
<1> QED BY <1>2, <1>3 DEF t, n

LEMMA RestTaken ==
  ASSUME NEW S, NEW s \in Seq(S), NEW d \in 0 .. Len(s) - 1
  PROVE  LET q == SubSeq(s, d + 1, Len(s))
         IN  /\ q \in Seq(S) /\ q # <<>> /\ Head(q) = s[d + 1]
             /\ Tail(q) = SubSeq(s, d + 2, Len(s))
             /\ Append(SubSeq(s, 1, d), s[d + 1]) = SubSeq(s, 1, d + 1)
<1> DEFINE n == Len(s)
           q == SubSeq(s, d + 1, n)
           k == d + 1
<1>1. n \in Nat /\ d \in Nat /\ k \in 1 .. n /\ n \in k .. n /\ d \in 0 .. n /\ s[k] \in S
  OBVIOUS
<1>2. q \in Seq(S) /\ Len(q) = n - d
  BY <1>1, LastPart
<1>3. q # <<>>
  <2> HIDE DEF q
  <2>1. Len(q) # 0
    BY <1>1, <1>2
  <2> QED BY <2>1
<1>4. Head(q) = s[k] /\ Tail(q) = SubSeq(s, k + 1, n)
  BY <1>1, HeadTailOfSubSeq
<1>5. k + 1 = d + 2
  BY <1>1
<1>6. Append(SubSeq(s, 1, d), s[k]) = SubSeq(s, 1, k)
  <2> DEFINE a == SubSeq(s, 1, d)
             b == SubSeq(s, 1, k)
             e == s[k]
             c == Append(a, e)
  <2>1. a \in Seq(S) /\ Len(a) = d /\ \A i \in 1 .. d : a[i] = s[i]
    BY <1>1, FirstPart
  <2>2. b \in Seq(S) /\ Len(b) = k /\ \A i \in 1 .. k : b[i] = s[i]
    <3>1. k \in 0 .. n
      BY <1>1
    <3> HIDE DEF k
    <3> QED BY <3>1, FirstPart
  <2> HIDE DEF a, b
  <2>3. c \in Seq(S) /\ Len(c) = d + 1 /\ c[d + 1] = e /\ \A i \in 1 .. d : c[i] = a[i]
    <3>1. e \in S
      BY <1>1
    <3> HIDE DEF e
    <3> QED BY <2>1, <3>1, AppendProperties
  <2> HIDE DEF c
  <2>4. ASSUME NEW i \in 1 .. k PROVE c[i] = b[i]
    <3>1. i \in 1 .. d \/ i = d + 1
      BY <1>1
    <3> QED BY <2>1, <2>2, <2>3, <3>1
  <2>5. Len(c) = Len(b) /\ \A i \in 1 .. Len(c) : c[i] = b[i]
    BY <2>2, <2>3, <2>4
  <2>6. c = b
    BY <2>2, <2>3, <2>5, SeqEqual
  <2> QED BY <2>6 DEF a, b, c
<1> HIDE DEF q
<1>7. /\ q \in Seq(S) /\ q # <<>> /\ Head(q) = s[d + 1]
      /\ Tail(q) = SubSeq(s, d + 2, Len(s))
      /\ Append(SubSeq(s, 1, d), s[d + 1]) = SubSeq(s, 1, d + 1)
  BY <1>2, <1>3, <1>4, <1>5, <1>6
<1> QED BY <1>7 DEF q

-----------------------------------------------------------------------------
(* The steps.                                                              *)

(* What the server sends is added to the rest. *)
LEMMA SendKeeps ==
  ASSUME FInv, NEW m \in Messages, ServerSends(m),
         \/ m \notin ReplyMessages
         \/ \A i \in Len(handled) + 1 .. Len(sent) : sent[i] \notin ReplyMessages
  PROVE  FInv'
<1> DEFINE d == Len(handled)
           n == Len(sent)
<1>1. /\ sent' = Append(sent, m) /\ net' = Joined(net, m)
      /\ UNCHANGED <<buffer, pc, open, handled, routed, sock, held, rtpIn>>
  BY DEF ServerSends, others, Joined
<1>2. /\ sent \in Seq(Messages) /\ handled \in Seq(Messages) /\ d <= n
      /\ handled = SubSeq(sent, 1, d) /\ d \in Nat /\ n \in Nat /\ d \in 0 .. n
  BY DEF FInv, Ordered
<1>3. /\ sent' \in Seq(Messages) /\ Len(sent') = n + 1 /\ sent'[n + 1] = m
      /\ \A i \in 1 .. n : sent'[i] = sent[i]
  BY <1>1, <1>2, AppendProperties
<1>4. SubSeq(sent', 1, d) = SubSeq(sent, 1, d) /\ Rest' = Append(Rest, m)
  BY <1>1, <1>2, RestGrows DEF Rest
<1>5. buffer \in Seq(Nat) /\ net \in Seq(Nat) /\ m \in Seq(Nat)
  BY MessagesAre DEF FInv, TypeOK
<1>6. TypeOK'
  <2>1. net' \in Seq(Nat)
    BY <1>1, <1>5, JoinedSeq
  <2> QED BY <1>1, <2>1 DEF FInv, TypeOK
<1>7. Ordered'
  BY <1>1, <1>2, <1>3, <1>4 DEF Ordered
<1>8. /\ Rest \in Seq(Seq(Nat)) /\ sent \in Seq(Seq(Nat)) /\ handled \in Seq(Seq(Nat))
  <2>1. Messages \subseteq Seq(Nat)
    BY MessagesAre
  <2>2. Rest \in Seq(Messages)
    BY <1>2, LastPart DEF Rest
  <2> QED BY <1>2, <2>1, <2>2, SeqMonotonic
<1>9. Streamed'
  <2> SUFFICES ASSUME open' PROVE Joined(buffer', net') = FlattenSeq(Rest')
    BY DEF Streamed
  <2>1. Joined(buffer, net) = FlattenSeq(Rest)
    BY <1>1 DEF FInv, Streamed
  <2>2. FlattenSeq(Rest') = Joined(FlattenSeq(Rest), m)
    BY <1>4, <1>5, <1>8, FlattenAppend
  <2>3. Joined(Joined(buffer, net), m) = Joined(buffer, Joined(net, m))
    BY <1>5, JoinedAssociative
  <2> QED BY <1>1, <2>1, <2>2, <2>3
<1>10. NoByteLost'
  <2> SUFFICES ASSUME open' PROVE FlattenSeq(sent') = FlattenSeq(handled') \o buffer' \o net'
    BY DEF NoByteLost
  <2> DEFINE h == FlattenSeq(handled)
             b == Joined(h, buffer)
  <2>1. FlattenSeq(sent) = Joined(b, net)
    BY <1>1 DEF FInv, NoByteLost, Joined
  <2>2. FlattenSeq(sent') = Joined(FlattenSeq(sent), m)
    BY <1>1, <1>5, <1>8, FlattenAppend
  <2>3. b \in Seq(Nat)
    <3>1. h \in Seq(Nat)
      BY <1>8, FlattenBytes
    <3> QED BY <1>5, <3>1, JoinedSeq
  <2>4. Joined(Joined(b, net), m) = Joined(b, Joined(net, m))
    BY <1>5, <2>3, JoinedAssociative
  <2>5. FlattenSeq(sent') = Joined(b, net')
    BY <1>1, <2>1, <2>2, <2>4
  <2> QED BY <1>1, <2>5 DEF Joined
<1>11. OneReply'
  <2> SUFFICES ASSUME NEW i \in d + 1 .. n + 1, NEW k \in d + 1 .. n + 1,
                      sent'[i] \in ReplyMessages, sent'[k] \in ReplyMessages
               PROVE  i = k
    BY <1>1, <1>3 DEF OneReply
  <2>1. \A j \in d + 1 .. n : j \in 1 .. n /\ sent'[j] = sent[j]
    BY <1>2, <1>3
  <2>2. (i = n + 1 \/ i \in d + 1 .. n) /\ (k = n + 1 \/ k \in d + 1 .. n)
    BY <1>2
  <2>3. m \in ReplyMessages => \A j \in d + 1 .. n : sent[j] \notin ReplyMessages
    OBVIOUS
  <2>4. CASE i = n + 1
    <3>1. m \in ReplyMessages
      BY <1>3, <2>4
    <3> QED BY <2>1, <2>2, <2>3, <2>4, <3>1
  <2>5. CASE k = n + 1
    <3>1. m \in ReplyMessages
      BY <1>3, <2>5
    <3> QED BY <2>1, <2>2, <2>3, <2>5, <3>1
  <2>6. CASE i \in d + 1 .. n /\ k \in d + 1 .. n
    BY <2>1, <2>6 DEF FInv, OneReply
  <2> QED BY <2>2, <2>4, <2>5, <2>6
<1>12. WokenFor' /\ Routed'
  BY <1>1 DEF FInv, WokenFor, Routed, Given
<1> QED BY <1>6, <1>7, <1>9, <1>10, <1>11, <1>12 DEF FInv

(* A reply is sent when none is left: as many were handled as were sent. *)
LEMMA AllAnswered ==
  ASSUME FInv, Asked = Answers
  PROVE  \A i \in Len(handled) + 1 .. Len(sent) : sent[i] \notin ReplyMessages
<1> DEFINE d == Len(handled)
           n == Len(sent)
           H == RepliesIn(handled)
           R == RepliesIn(sent)
<1>1. /\ sent \in Seq(Messages) /\ handled \in Seq(Messages) /\ d <= n
      /\ handled = SubSeq(sent, 1, d) /\ d \in Nat /\ n \in Nat /\ d \in 0 .. n
  BY DEF FInv, Ordered
<1>2. \A i \in 1 .. d : handled[i] = sent[i]
  <2>1. \A i \in 1 .. d : SubSeq(sent, 1, d)[i] = sent[i]
    BY <1>1, FirstPart
  <2> QED BY <1>1, <2>1
<1>3. H \subseteq 1 .. d /\ R \subseteq 1 .. n /\ H \subseteq R
  BY <1>1, <1>2 DEF RepliesIn
<1>4. IsFiniteSet(R)
  <2>1. IsFiniteSet(1 .. n)
    BY <1>1, FS_Interval
  <2> HIDE DEF R
  <2> QED BY <1>3, <2>1, FS_Subset
<1>5. H = R
  <2>1. Cardinality(H) = Cardinality(R)
    BY DEF Asked, Answers
  <2> HIDE DEF H, R
  <2> QED BY <1>3, <1>4, <2>1, FS_Subset
<1> SUFFICES ASSUME NEW i \in d + 1 .. n, sent[i] \in ReplyMessages PROVE FALSE
  OBVIOUS
<1>6. sent[i][1] # Dollar
  <2>1. PICK head, body : IsReplyOf(sent[i], head, body)
    BY ReplyIs
  <2> QED BY <2>1 DEF IsReplyOf, Good, Bad, Dollar
<1>7. i \in R
  BY <1>1, <1>6 DEF RepliesIn
<1> HIDE DEF H, R
<1> QED BY <1>1, <1>3, <1>5, <1>7

LEMMA PartedIs ==
  ASSUME NEW s \in Seq(Nat), NEW n \in 1 .. Len(s)
  PROVE  SubSeq(s, 1, n) \o SubSeq(s, n + 1, Len(s)) = s
<1>1. 1 \in 1 .. Len(s) + 1 /\ n \in 1 - 1 .. Len(s) /\ Len(s) \in n .. Len(s)
  OBVIOUS
<1>2. SubSeq(s, 1, n) \o SubSeq(s, n + 1, Len(s)) = SubSeq(s, 1, Len(s))
  BY <1>1, ConcatAdjacentSubSeq, Zenon
<1>3. SubSeq(s, 1, Len(s)) = s
  BY SubSeqFull, Zenon
<1> QED BY <1>2, <1>3

(* The bytes that arrive go from one part of the rest to the other. *)
LEMMA ReceiveKeeps ==
  ASSUME FInv, NEW n \in 1 .. Len(net), Receive(n)
  PROVE  FInv'
<1> DEFINE x == SubSeq(net, 1, n)
<1>1. /\ buffer' = Joined(buffer, x) /\ net' = SubSeq(net, n + 1, Len(net)) /\ pc' = "handle"
      /\ UNCHANGED <<open, sent, handled, routed, sock, held, rtpIn>>
  BY DEF Receive, others, Joined
<1>2. buffer \in Seq(Nat) /\ net \in Seq(Nat)
  BY DEF FInv, TypeOK
<1>3. x \in Seq(Nat) /\ net' \in Seq(Nat) /\ Joined(x, net') = net
  <2>1. n \in 0 .. Len(net)
    BY <1>2
  <2>2. x \in Seq(Nat)
    BY <1>2, <2>1, FirstPart
  <2>3. net' \in Seq(Nat)
    <3>1. SubSeq(net, n + 1, Len(net)) \in Seq(Nat)
      BY <1>2, <2>1, LastPart
    <3> QED BY <1>1, <3>1
  <2>4. x \o SubSeq(net, n + 1, Len(net)) = net
    BY <1>2, PartedIs
  <2>5. Joined(x, net') = net
    BY <1>1, <2>4 DEF Joined
  <2> QED BY <2>2, <2>3, <2>5
<1> HIDE DEF x
<1>4. Joined(buffer', net') = Joined(buffer, net)
  <2>1. Joined(Joined(buffer, x), net') = Joined(buffer, Joined(x, net'))
    BY <1>2, <1>3, JoinedAssociative
  <2> QED BY <1>1, <1>3, <2>1
<1>5. TypeOK'
  <2>1. buffer' \in Seq(Nat)
    BY <1>1, <1>2, <1>3, JoinedSeq
  <2> QED BY <1>1, <1>3, <2>1 DEF FInv, TypeOK
<1>6. Ordered' /\ OneReply' /\ WokenFor' /\ Routed' /\ Rest' = Rest
  BY <1>1 DEF FInv, Ordered, OneReply, WokenFor, Routed, Given, Rest
<1>7. Streamed'
  BY <1>1, <1>4, <1>6 DEF FInv, Streamed
<1>8. NoByteLost'
  <2> SUFFICES ASSUME open' PROVE FlattenSeq(sent') = FlattenSeq(handled') \o buffer' \o net'
    BY DEF NoByteLost
  <2> DEFINE h == FlattenSeq(handled)
  <2>1. h \in Seq(Nat)
    <3>1. handled \in Seq(Messages) /\ Messages \subseteq Seq(Nat)
      BY MessagesAre DEF FInv, Ordered
    <3>2. handled \in Seq(Seq(Nat))
      BY <3>1, SeqMonotonic
    <3> QED BY <3>2, FlattenBytes
  <2>2. FlattenSeq(sent) = Joined(Joined(h, buffer), net)
    BY <1>1 DEF FInv, NoByteLost, Joined
  <2>3. FlattenSeq(handled') = h /\ FlattenSeq(sent') = FlattenSeq(sent)
    BY <1>1
  <2> HIDE DEF h
  <2>4. Joined(Joined(h, buffer), net) = Joined(h, Joined(buffer, net))
    BY <1>2, <2>1, JoinedAssociative
  <2>5. Joined(Joined(h, buffer'), net') = Joined(h, Joined(buffer', net'))
    <3>1. buffer' \in Seq(Nat)
      BY <1>5 DEF TypeOK
    <3> QED BY <1>3, <2>1, <3>1, JoinedAssociative
  <2>6. FlattenSeq(sent') = Joined(Joined(h, buffer'), net')
    BY <1>4, <2>2, <2>3, <2>4, <2>5
  <2> QED BY <2>3, <2>6 DEF Joined
<1> QED BY <1>5, <1>6, <1>7, <1>8 DEF FInv

(* The buffer begins with the first message of the rest, and what follows a reply is
   packets. *)
LEMMA FirstOfRest ==
  ASSUME FInv, open, buffer # <<>>
  PROVE  LET m == sent[Len(handled) + 1]
             r == FlattenSeq(SubSeq(sent, Len(handled) + 2, Len(sent)))
         IN  /\ Len(handled) < Len(sent) /\ Framed(buffer, net, m, r)
             /\ m \in ReplyMessages => PacketsOnly(r)
<1> DEFINE d == Len(handled)
           n == Len(sent)
           m == sent[d + 1]
           q == SubSeq(sent, d + 2, n)
           r == FlattenSeq(q)
<1>1. /\ sent \in Seq(Messages) /\ d <= n /\ d \in Nat /\ n \in Nat
      /\ buffer \in Seq(Nat) /\ net \in Seq(Nat) /\ Joined(buffer, net) = FlattenSeq(Rest)
  BY DEF FInv, Ordered, TypeOK, Streamed
<1>2. Messages \subseteq Seq(Nat)
  BY MessagesAre
<1>3. d < n
  <2> SUFFICES ASSUME ~ (d < n) PROVE FALSE
    OBVIOUS
  <2>1. Rest = <<>>
    <3>1. n < d + 1 /\ n \in Int /\ d + 1 \in Int
      BY <1>1
    <3> QED BY <3>1, SubSeqEmpty DEF Rest
  <2>2. Joined(buffer, net) = <<>>
    <3>1. <<>> \in Seq(Seq(Nat))
      OBVIOUS
    <3>2. FlattenSeq(<<>>) = <<>>
      BY <3>1, FlattenBytes
    <3> QED BY <1>1, <2>1, <3>2
  <2>3. buffer = <<>>
    BY <1>1, <2>2, ConcatEqualIffEmpty DEF Joined
  <2> QED BY <2>3
<1>4. /\ Rest \in Seq(Messages) /\ Rest # <<>> /\ Head(Rest) = m /\ Tail(Rest) = q
      /\ m \in Messages
  <2>1. d \in 0 .. Len(sent) - 1
    BY <1>1, <1>3
  <2>2. /\ Rest \in Seq(Messages) /\ Rest # <<>> /\ Head(Rest) = m /\ Tail(Rest) = q
    BY <1>1, <2>1, RestTaken DEF Rest
  <2>3. m \in Messages
    <3>1. d + 1 \in 1 .. n
      BY <1>1, <1>3
    <3> QED BY <1>1, <3>1
  <2> QED BY <2>2, <2>3
<1>5. Rest \in Seq(Seq(Nat))
  BY <1>2, <1>4, SeqMonotonic
<1>6. Joined(buffer, net) = Joined(m, r)
  <2>1. FlattenSeq(Rest) = Joined(Head(Rest), FlattenSeq(Tail(Rest)))
    BY <1>4, <1>5, FlattenFirst
  <2> QED BY <1>1, <1>4, <2>1
<1>7. r \in Seq(Nat)
  <2>1. Tail(Rest) \in Seq(Seq(Nat))
    BY <1>4, <1>5, HeadTailProperties
  <2>2. q \in Seq(Seq(Nat))
    BY <1>4, <2>1
  <2> HIDE DEF q
  <2> QED BY <2>2, FlattenBytes
<1> HIDE DEF m, q
<1>8. Framed(buffer, net, m, r)
  BY <1>1, <1>4, <1>6, <1>7 DEF Framed
<1>9. ASSUME m \in ReplyMessages PROVE PacketsOnly(r)
  <2>1. /\ q \in Seq(Messages) /\ Len(q) = n - (d + 1)
        /\ \A i \in 1 .. n - (d + 1) : q[i] = sent[d + 1 + i]
    <3> DEFINE e == d + 1
               a == SubSeq(sent, e + 1, n)
    <3>1. e \in 0 .. n /\ e + 1 = d + 2
      BY <1>1, <1>3
    <3>2. a = q
      BY <3>1 DEF q
    <3> HIDE DEF e
    <3>3. /\ a \in Seq(Messages) /\ Len(a) = n - e
          /\ \A i \in 1 .. n - e : a[i] = sent[e + i]
      BY <1>1, <3>1, LastPart
    <3> HIDE DEF a
    <3> QED BY <3>2, <3>3 DEF e
  <2>2. ASSUME NEW i \in 1 .. Len(q) PROVE q[i] \in PacketMessages
    <3> DEFINE k == d + 1 + i
    <3>1. k \in d + 1 .. n /\ d + 1 \in d + 1 .. n /\ d + 1 # k
      BY <1>1, <1>3, <2>1
    <3>2. q[i] = sent[k] /\ q[i] \in Messages
      BY <2>1
    <3> HIDE DEF k
    <3>3. sent[k] \notin ReplyMessages
      <4>1. sent[d + 1] \in ReplyMessages
        BY <1>9 DEF m
      <4> QED BY <3>1, <4>1 DEF FInv, OneReply
    <3> QED BY <3>2, <3>3 DEF Messages, PacketMessages
  <2>3. q \in Seq(Seq(Octet))
    <3>1. q \in Seq(PacketMessages)
      BY <2>1, <2>2
    <3>2. PacketMessages \subseteq Seq(Octet)
      BY PacketIs
    <3> QED BY <3>1, <3>2, SeqMonotonic
  <2>4. r \in Seq(Octet)
    BY <2>3, FlattenBytes
  <2>5. CASE q = <<>>
    <3>1. r = <<>>
      BY <2>3, <2>5, FlattenBytes
    <3> QED BY <2>4, <3>1 DEF PacketsOnly
  <2>6. CASE q # <<>>
    <3> DEFINE p == Head(q)
               x == FlattenSeq(Tail(q))
    <3>1. p \in PacketMessages
      <4>1. 1 \in 1 .. Len(q) /\ p = q[1]
        BY <2>1, <2>6
      <4> QED BY <2>2, <4>1
    <3>2. r = Joined(p, x)
      BY <2>3, <2>6, FlattenFirst
    <3>3. p \in Seq(Octet) /\ Len(p) >= 4 /\ p[1] = Dollar
      BY <3>1, PacketIs
    <3>4. x \in Seq(Octet)
      <4>1. Tail(q) \in Seq(Seq(Octet))
        BY <2>3, <2>6, HeadTailProperties
      <4> HIDE DEF q
      <4> QED BY <4>1, FlattenBytes
    <3> HIDE DEF p, x
    <3>5. IsJoin(r, p, Len(p), x, Len(x))
      BY <3>2, <3>3, <3>4, JoinedSeq
    <3>6. 1 \in 1 .. Len(p)
      BY <3>3
    <3>7. r[1] = Dollar
      BY <3>3, <3>5, <3>6 DEF IsJoin
    <3> QED BY <2>4, <3>7 DEF PacketsOnly
  <2> QED BY <2>5, <2>6
<1> QED BY <1>3, <1>8, <1>9 DEF m, q

(* What Handle removes from the buffer is the first message of the rest. *)
TakesFirst(m) ==
  /\ m = sent[Len(handled) + 1] /\ m \in Messages /\ Len(handled) < Len(sent)
  /\ handled' = Append(handled, m) /\ sent' = sent /\ net' = net

LEMMA HandledFirst ==
  ASSUME FInv, NEW m, TakesFirst(m)
  PROVE  /\ Ordered' /\ OneReply'
         /\ Rest' = SubSeq(sent, Len(handled) + 2, Len(sent))
<1> DEFINE d == Len(handled)
           n == Len(sent)
<1>1. /\ sent \in Seq(Messages) /\ handled \in Seq(Messages) /\ d < n
      /\ handled = SubSeq(sent, 1, d) /\ d \in Nat /\ n \in Nat /\ m = sent[d + 1]
      /\ m \in Messages /\ handled' = Append(handled, m) /\ sent' = sent
  BY DEF FInv, Ordered, TakesFirst
<1>2. handled' \in Seq(Messages) /\ Len(handled') = d + 1
  BY <1>1, AppendProperties
<1>3. handled' = SubSeq(sent, 1, d + 1)
  <2>1. d \in 0 .. Len(sent) - 1
    BY <1>1
  <2>2. Append(SubSeq(sent, 1, d), sent[d + 1]) = SubSeq(sent, 1, d + 1)
    BY <1>1, <2>1, RestTaken
  <2> QED BY <1>1, <2>2
<1>4. Ordered'
  <2>1. d + 1 <= n
    BY <1>1
  <2> QED BY <1>1, <1>2, <1>3, <2>1 DEF Ordered
<1>5. OneReply'
  <2>1. \A i \in d + 1 + 1 .. n : i \in d + 1 .. n
    BY <1>1
  <2> QED BY <1>1, <1>2, <2>1 DEF FInv, OneReply
<1>6. Rest' = SubSeq(sent, d + 2, n)
  <2>1. d + 1 + 1 = d + 2
    BY <1>1
  <2> QED BY <1>1, <1>2, <2>1 DEF Rest
<1> QED BY <1>4, <1>5, <1>6

(* Without it, buffer and stream are the rest that is left. *)
LEMMA TakenKeeps ==
  ASSUME FInv, open, open', NEW m, TakesFirst(m), NEW r, Framed(buffer, net, m, r),
         r = FlattenSeq(SubSeq(sent, Len(handled) + 2, Len(sent))),
         buffer' \in Seq(Nat), Joined(buffer', net) = r
  PROVE  Streamed' /\ NoByteLost'
<1>1. /\ handled' = Append(handled, m) /\ sent' = sent /\ net' = net
  BY DEF TakesFirst
<1>2. Streamed'
  BY <1>1, HandledFirst DEF Streamed
<1>3. NoByteLost'
  <2> DEFINE h == FlattenSeq(handled)
             b == buffer'
  <2>1. /\ handled \in Seq(Seq(Nat)) /\ m \in Seq(Nat) /\ net \in Seq(Nat) /\ r \in Seq(Nat)
        /\ buffer \in Seq(Nat) /\ b \in Seq(Nat) /\ Joined(buffer, net) = Joined(m, r)
    <3>1. handled \in Seq(Messages) /\ Messages \subseteq Seq(Nat)
      BY MessagesAre DEF FInv, Ordered
    <3>2. handled \in Seq(Seq(Nat))
      BY <3>1, SeqMonotonic
    <3> QED BY <3>1, <3>2 DEF Framed
  <2>2. h \in Seq(Nat)
    BY <2>1, FlattenBytes
  <2>3. FlattenSeq(sent) = Joined(Joined(h, buffer), net)
    BY DEF FInv, NoByteLost, Joined
  <2>4. FlattenSeq(handled') = Joined(h, m)
    BY <1>1, <2>1, FlattenAppend
  <2> HIDE DEF h, b
  <2>5. Joined(Joined(h, buffer), net) = Joined(h, Joined(buffer, net))
    BY <2>1, <2>2, JoinedAssociative
  <2>6. Joined(Joined(h, m), r) = Joined(h, Joined(m, r))
    BY <2>1, <2>2, JoinedAssociative
  <2>7. Joined(Joined(Joined(h, m), b), net) = Joined(Joined(h, m), Joined(b, net))
    <3>1. Joined(h, m) \in Seq(Nat)
      BY <2>1, <2>2, JoinedSeq
    <3> QED BY <2>1, <3>1, JoinedAssociative
  <2>8. r = Joined(b, net)
    BY DEF b
  <2>9. FlattenSeq(sent) = Joined(Joined(Joined(h, m), b), net)
    BY <2>1, <2>3, <2>5, <2>6, <2>7, <2>8
  <2> QED BY <1>1, <2>4, <2>9 DEF NoByteLost, Joined, b
<1> QED BY <1>2, <1>3

(* A packet goes to a socket pair whose channel it names. *)
LEMMA RouteIs ==
  ASSUME NEW ch, NEW f \in Route(ch)
  PROVE  f \in Fds /\ ChannelOf(f) = ch
<1> DEFINE ids == {i \in Ids : Serves(i, ch)}
           i == Min(ids)
           side == IF Entries[i].rtcp = ch THEN "rtcp" ELSE "rtp"
<1>1. ids # {} /\ f = <<i, side>>
  BY DEF Route
<1>2. i \in ids
  <2>1. ids \in SUBSET Nat
    BY FramingAssumption DEF Ids
  <2> HIDE DEF ids
  <2> QED BY <1>1, <2>1, MinIs
<1>3. i \in Ids /\ Serves(i, ch)
  BY <1>2
<1> HIDE DEF i
<1>4. f \in Fds
  BY <1>1, <1>3 DEF Fds
<1>5. CASE Entries[i].rtcp = ch
  <2>1. f[1] = i /\ f[2] = "rtcp"
    BY <1>1, <1>5
  <2> QED BY <1>4, <1>5, <2>1 DEF ChannelOf
<1>6. CASE Entries[i].rtcp # ch
  <2>1. f[1] = i /\ f[2] = "rtp" /\ Entries[i].rtp = ch
    BY <1>1, <1>3, <1>6 DEF Serves
  <2> QED BY <1>4, <2>1 DEF ChannelOf
<1> QED BY <1>5, <1>6

(* A packet that was handled is in the socket pair of its channel. *)
LEMMA PacketRouted ==
  ASSUME Routed, handled \in Seq(Seq(Nat)), NEW m \in PacketMessages,
         handled' = Append(handled, m),
         routed' = [f \in Fds |-> IF f \in Route(m[2]) THEN Append(routed[f], Payload(m))
                                  ELSE routed[f]]
  PROVE  Routed'
<1>1. m \in Seq(Nat) /\ m[1] = Dollar
  <2>1. m \in Messages
    BY DEF Messages, PacketMessages
  <2> QED BY <2>1, MessagesAre, PacketIs
<1>2. ASSUME NEW f \in Fds PROVE routed'[f] = Given(f, handled')
  <2> DEFINE ch == ChannelOf(f)
  <2>1. routed[f] = Given(f, handled)
    BY DEF Routed
  <2>2. IsOn(m, ch) <=> m[2] = ch
    BY <1>1 DEF IsOn
  <2>3. /\ m[2] = ch => DataOn(handled', ch) = Append(DataOn(handled, ch), Payload(m))
        /\ m[2] # ch => DataOn(handled', ch) = DataOn(handled, ch)
    BY <1>1, <2>2, DataAppend
  <2>4. f \in Route(m[2]) => m[2] = ch
    BY RouteIs
  <2>5. CASE f \in Route(m[2])
    <3>1. m[2] = ch /\ f \in Route(ch)
      BY <2>4, <2>5
    <3>2. Given(f, handled) = DataOn(handled, ch) /\ Given(f, handled') = DataOn(handled', ch)
      BY <3>1 DEF Given
    <3>3. routed'[f] = Append(routed[f], Payload(m))
      BY <2>5
    <3> QED BY <2>1, <2>3, <3>1, <3>2, <3>3
  <2>6. CASE f \notin Route(m[2])
    <3>1. routed'[f] = routed[f]
      BY <2>6
    <3>2. f \in Route(ch) => m[2] # ch
      BY <2>6
    <3>3. Given(f, handled') = Given(f, handled)
      BY <2>3, <3>2 DEF Given
    <3> QED BY <2>1, <3>1, <3>3
  <2> QED BY <2>5, <2>6
<1> QED BY <1>2 DEF Routed

(* A reply goes to none of them. *)
LEMMA ReplyRouted ==
  ASSUME Routed, handled \in Seq(Seq(Nat)), NEW m \in Seq(Nat), m[1] # Dollar,
         handled' = Append(handled, m), routed' = routed
  PROVE  Routed'
<1>1. ASSUME NEW f \in Fds PROVE Given(f, handled') = Given(f, handled)
  <2>1. ~ IsOn(m, ChannelOf(f))
    BY DEF IsOn
  <2>2. DataOn(handled', ChannelOf(f)) = DataOn(handled, ChannelOf(f))
    BY <2>1, DataAppend
  <2> QED BY <2>2 DEF Given
<1> QED BY <1>1 DEF Routed

(* Handle takes one message whole from the buffer. *)
LEMMA HandleKeeps ==
  ASSUME NoEmptyLine, BufferTerminated, PacketsAsked, FInv, Handle
  PROVE  FInv'
<1> DEFINE m == sent[Len(handled) + 1]
           r == FlattenSeq(SubSeq(sent, Len(handled) + 2, Len(sent)))
<1>1. open /\ buffer # <<>> /\ UNCHANGED <<net, sent, held, rtpIn>>
  BY DEF Handle
<1>2. /\ Len(handled) < Len(sent) /\ Framed(buffer, net, m, r)
      /\ m \in ReplyMessages => PacketsOnly(r)
  BY <1>1, FirstOfRest
<1> HIDE DEF r
<1>3. PICK g \in Garbage :
        /\ full_msg_rcvd(buffer, g) > 0
        /\ handled' = Append(handled, SubSeq(buffer \o g, 1, full_msg_rcvd(buffer, g)))
        /\ IF IsPacket(buffer) THEN HandlePacket(full_msg_rcvd(buffer, g))
           ELSE HandleReply(full_msg_rcvd(buffer, g)) \/ HandleError
  BY DEF Handle
<1> DEFINE size == Len(m)
<1>4. full_msg_rcvd(buffer, g) = size /\ size <= Len(buffer) /\ size > 0
  <2>1. full_msg_rcvd(buffer, g) = 0 \/ (full_msg_rcvd(buffer, g) = size /\ size <= Len(buffer))
    BY <1>2, MessageFound
  <2>2. ~ (0 > 0)
    OBVIOUS
  <2> HIDE DEF size
  <2> QED BY <1>3, <2>1, <2>2
<1>5. g \in Seq(Nat)
  <2>1. <<>> \in Seq(Nat)
    OBVIOUS
  <2> QED BY <2>1, FramingAssumption DEF Garbage
<1> HIDE DEF m
<1> DEFINE left == SubSeq(buffer, size + 1, Len(buffer))
<1>6. /\ SubSeq(buffer \o g, 1, size) = m /\ Joined(left, net) = r
      /\ left \in Seq(Nat) /\ SubSeq(buffer, 5, size) = Payload(m)
  BY <1>2, <1>4, <1>5, MessageTaken DEF Payload
<1>7. m \in Messages /\ m \in Seq(Nat) /\ (m \in ReplyMessages \/ m \in PacketMessages)
  <2>1. m \in Messages
    BY <1>2 DEF Framed
  <2> QED BY <2>1, MessagesAre DEF Messages, PacketMessages
<1>8. TakesFirst(m)
  BY <1>1, <1>2, <1>3, <1>4, <1>6, <1>7 DEF TakesFirst, m
<1>9. Ordered' /\ OneReply'
  BY <1>8, HandledFirst
<1>10. handled \in Seq(Seq(Nat)) /\ Routed /\ buffer \in Seq(Nat) /\ net \in Seq(Nat)
  <2>1. handled \in Seq(Messages) /\ Messages \subseteq Seq(Nat)
    BY MessagesAre DEF FInv, Ordered
  <2>2. handled \in Seq(Seq(Nat))
    BY <2>1, SeqMonotonic
  <2> QED BY <2>2 DEF FInv, TypeOK
<1> HIDE DEF left, size
<1>11. ~ (size > Len(buffer))
  <2>1. Len(buffer) \in Nat /\ size \in Nat
    BY <1>7, <1>10 DEF size
  <2> QED BY <1>4, <2>1
<1>12. handled' = Append(handled, m)
  BY <1>8 DEF TakesFirst
<1>13. CASE m \in PacketMessages
  <2>1. IsPacket(buffer)
    BY <1>2, <1>13, KindFound
  <2>2. HandlePacket(size)
    BY <1>3, <1>4, <2>1
  <2>3. /\ buffer' = left /\ open' = open /\ pc' = pc
        /\ Sent(Route(buffer[2]))
        /\ routed' = [f \in Fds |-> IF f \in Route(buffer[2])
                                    THEN Append(routed[f], SubSeq(buffer, 5, size))
                                    ELSE routed[f]]
    BY <1>11, <2>2 DEF HandlePacket, remove_pkt, left
  <2>4. buffer[2] = m[2]
    <3>1. /\ Len(buffer) \in Nat \ {0} /\ Len(m) \in Nat \ {0}
          /\ \A i \in 1 .. Len(buffer) : i <= Len(m) => buffer[i] = m[i]
      BY <1>2, FramedBytes
    <3>2. Len(m) >= 4
      BY <1>13, PacketIs
    <3>3. 2 \in 1 .. Len(buffer) /\ 2 <= Len(m)
      BY <1>4, <3>1, <3>2 DEF size
    <3> QED BY <3>1, <3>3
  <2>5. Routed'
    BY <1>6, <1>10, <1>12, <1>13, <2>3, <2>4, PacketRouted
  <2>6. Streamed' /\ NoByteLost'
    BY <1>1, <1>2, <1>6, <1>8, <2>3, TakenKeeps DEF r, m
  <2>7. sock' = [f \in Fds |-> IF f \in Route(buffer[2]) THEN sock[f] + 1 ELSE sock[f]]
        /\ \A f \in Route(buffer[2]) : sock[f] < SockSize
    BY <2>3 DEF Sent
  <2>8. sock' \in [Fds -> 0 .. SockSize]
    <3>1. ASSUME NEW f \in Fds
          PROVE  (IF f \in Route(buffer[2]) THEN sock[f] + 1 ELSE sock[f]) \in 0 .. SockSize
      <4>1. sock[f] \in 0 .. SockSize /\ SockSize \in Nat
        BY FramingAssumption DEF FInv, TypeOK
      <4> QED BY <2>7, <4>1
    <3> QED BY <2>7, <3>1
  <2>9. TypeOK'
    BY <1>1, <1>6, <1>10, <2>3, <2>8 DEF FInv, TypeOK
  <2>10. WokenFor'
    <3> SUFFICES ASSUME rtpIn # 0 PROVE sock'[<<rtpIn, "rtp">>] > 0
      BY <1>1 DEF WokenFor
    <3> DEFINE f == <<rtpIn, "rtp">>
    <3>1. f \in Fds
      BY DEF FInv, TypeOK, Fds
    <3>2. sock[f] > 0
      BY DEF FInv, WokenFor
    <3> HIDE DEF f
    <3>3. sock[f] \in 0 .. SockSize /\ SockSize \in Nat
      BY <3>1, FramingAssumption DEF FInv, TypeOK
    <3>4. sock'[f] > 0
      BY <2>7, <3>1, <3>2, <3>3
    <3> QED BY <3>4 DEF f
  <2> QED BY <1>9, <2>5, <2>6, <2>9, <2>10 DEF FInv
<1>14. CASE m \in ReplyMessages
  <2>1. ~ IsPacket(buffer) /\ m[1] # Dollar
    <3>1. ~ IsPacket(buffer) /\ buffer[1] # Dollar /\ buffer[1] = m[1]
      BY <1>2, <1>14, KindFound
    <3> QED BY <3>1
  <2>2. HandleReply(size) \/ HandleError
    BY <1>3, <1>4, <2>1
  <2>3. routed' = routed /\ sock' = sock
    BY <2>2 DEF HandleReply, HandleError
  <2>4. Routed'
    BY <1>7, <1>10, <1>12, <2>1, <2>3, ReplyRouted
  <2>5. WokenFor'
    BY <1>1, <2>3 DEF FInv, WokenFor
  <2>6. CASE HandleReply(size)
    <3>1. buffer' = left /\ open' = open /\ pc' = pc
      BY <1>11, <2>6 DEF HandleReply, remove_pkt, left
    <3>2. Streamed' /\ NoByteLost'
      BY <1>1, <1>2, <1>6, <1>8, <3>1, TakenKeeps DEF r, m
    <3>3. TypeOK'
      BY <1>1, <1>6, <2>3, <3>1 DEF FInv, TypeOK
    <3> QED BY <1>9, <2>4, <2>5, <3>2, <3>3 DEF FInv
  <2>7. CASE HandleError
    <3>1. buffer' = <<>> /\ ~ open' /\ pc' = "forward"
      BY <2>7 DEF HandleError
    <3>2. Streamed' /\ NoByteLost'
      BY <3>1 DEF Streamed, NoByteLost
    <3>3. TypeOK'
      BY <1>1, <2>3, <3>1 DEF FInv, TypeOK
    <3> QED BY <1>9, <2>4, <2>5, <3>2, <3>3 DEF FInv
  <2> QED BY <2>2, <2>6, <2>7
<1> QED BY <1>7, <1>13, <1>14

(* The steps that leave the stream and its history alone. *)
LEMMA QuietKeeps ==
  ASSUME FInv, UNCHANGED <<net, buffer, open, sent, handled, routed>>, TypeOK', WokenFor'
  PROVE  FInv'
<1>1. Ordered' /\ OneReply' /\ Routed' /\ Rest' = Rest
  BY DEF FInv, Ordered, OneReply, Routed, Given, Rest
<1>2. Streamed' /\ NoByteLost'
  BY <1>1 DEF FInv, Streamed, NoByteLost
<1> QED BY <1>1, <1>2 DEF FInv

LEMMA OthersKeep ==
  ASSUME FInv, Request \/ Handled \/ Forward \/ RtpStore
                 \/ \E i \in Ids : RtpReady(i) \/ Rtcp(i) \/ ReadFrame(i)
  PROVE  FInv'
<1>1. TypeOK /\ WokenFor /\ SockSize \in Nat /\ PoolSize \in Nat
  BY FramingAssumption DEF FInv
<1>2. /\ sock \in [Fds -> 0 .. SockSize] /\ held \in [Ids -> 0 .. PoolSize]
      /\ rtpIn \in {0} \cup Ids /\ \A i \in Ids : <<i, "rtp">> \in Fds /\ <<i, "rtcp">> \in Fds
      /\ \A i \in Ids : i # 0
  BY <1>1 DEF TypeOK, Fds, Ids
<1>3. CASE Request \/ Handled \/ Forward
  <2>1. UNCHANGED <<net, buffer, open, sent, handled, routed, sock, held, rtpIn>>
    BY <1>3 DEF Request, Handled, Forward, others
  <2>2. pc' \in {"select", "handle", "forward"}
    BY <1>1, <1>3 DEF Request, Handled, Forward, TypeOK
  <2>3. TypeOK' /\ WokenFor'
    BY <1>1, <2>1, <2>2 DEF TypeOK, WokenFor
  <2> QED BY <2>1, <2>3, QuietKeeps
<1>4. CASE RtpStore
  <2>1. /\ rtpIn # 0 /\ held[rtpIn] < PoolSize /\ rtpIn' = 0
        /\ held' = [held EXCEPT ![rtpIn] = @ + 1]
        /\ sock' = [sock EXCEPT ![<<rtpIn, "rtp">>] = @ - 1]
        /\ UNCHANGED <<net, buffer, open, sent, handled, routed, pc>>
    BY <1>4 DEF RtpStore
  <2>2. rtpIn \in Ids /\ sock[<<rtpIn, "rtp">>] > 0
    BY <1>1, <1>2, <2>1 DEF WokenFor
  <2>3. held' \in [Ids -> 0 .. PoolSize]
    BY <1>1, <1>2, <2>1, <2>2
  <2>4. sock' \in [Fds -> 0 .. SockSize]
    <3> DEFINE f == <<rtpIn, "rtp">>
    <3>1. f \in Fds /\ sock[f] > 0 /\ sock' = [sock EXCEPT ![f] = @ - 1]
      BY <1>2, <2>1, <2>2
    <3> HIDE DEF f
    <3>2. sock[f] - 1 \in 0 .. SockSize
      BY <1>1, <1>2, <3>1
    <3> QED BY <1>2, <3>1, <3>2
  <2>5. TypeOK' /\ WokenFor'
    BY <1>1, <2>1, <2>3, <2>4 DEF TypeOK, WokenFor
  <2> QED BY <2>1, <2>5, QuietKeeps
<1>5. ASSUME NEW i \in Ids, RtpReady(i) PROVE FInv'
  <2>1. /\ rtpIn' = i /\ sock[<<i, "rtp">>] > 0
        /\ UNCHANGED <<net, buffer, open, sent, handled, routed, pc, sock, held>>
    BY <1>5 DEF RtpReady
  <2>2. TypeOK' /\ WokenFor'
    BY <1>1, <2>1 DEF TypeOK, WokenFor
  <2> QED BY <2>1, <2>2, QuietKeeps
<1>6. ASSUME NEW i \in Ids, Rtcp(i) PROVE FInv'
  <2> DEFINE f == <<i, "rtcp">>
  <2>1. /\ sock[f] > 0 /\ sock' = [sock EXCEPT ![f] = @ - 1]
        /\ UNCHANGED <<net, buffer, open, sent, handled, routed, pc, rtpIn, held>>
    BY <1>6 DEF Rtcp
  <2>2. f \in Fds /\ \A k \in Ids : <<k, "rtp">> # f
    BY <1>2
  <2> HIDE DEF f
  <2>3. sock' \in [Fds -> 0 .. SockSize]
    <3>1. sock[f] - 1 \in 0 .. SockSize
      BY <1>1, <1>2, <2>1, <2>2
    <3> QED BY <1>2, <2>1, <2>2, <3>1
  <2>4. WokenFor'
    <3> SUFFICES ASSUME rtpIn # 0 PROVE sock'[<<rtpIn, "rtp">>] > 0
      BY <2>1 DEF WokenFor
    <3> DEFINE e == <<rtpIn, "rtp">>
    <3>1. e \in Fds /\ e # f /\ sock[e] > 0
      BY <1>1, <1>2, <2>2 DEF WokenFor
    <3> HIDE DEF e
    <3>2. sock'[e] = sock[e]
      BY <1>2, <2>1, <3>1
    <3> QED BY <3>1, <3>2 DEF e
  <2>5. TypeOK'
    BY <1>1, <2>1, <2>3 DEF TypeOK
  <2> QED BY <2>1, <2>4, <2>5, QuietKeeps
<1>7. ASSUME NEW i \in Ids, ReadFrame(i) PROVE FInv'
  <2>1. /\ held[i] > 0 /\ held' = [held EXCEPT ![i] = @ - 1]
        /\ UNCHANGED <<net, buffer, open, sent, handled, routed, pc, rtpIn, sock>>
    BY <1>7 DEF ReadFrame
  <2>2. held' \in [Ids -> 0 .. PoolSize]
    <3>1. held[i] - 1 \in 0 .. PoolSize
      BY <1>1, <1>2, <2>1
    <3> QED BY <1>2, <2>1, <3>1
  <2>3. TypeOK' /\ WokenFor'
    BY <1>1, <2>1, <2>2 DEF TypeOK, WokenFor
  <2> QED BY <2>1, <2>3, QuietKeeps
<1> QED BY <1>3, <1>4, <1>5, <1>6, <1>7

LEMMA FramingNext ==
  ASSUME NoEmptyLine, BufferTerminated, PacketsAsked, FInv, [Next]_vars
  PROVE  FInv'
<1>1. CASE Reply
  <2>1. PICK m \in ReplyMessages : ServerSends(m)
    BY <1>1 DEF Reply
  <2>2. Asked = Answers
    BY <1>1 DEF Reply
  <2>3. \A i \in Len(handled) + 1 .. Len(sent) : sent[i] \notin ReplyMessages
    BY <2>2, AllAnswered
  <2>4. m \in Messages
    BY DEF Messages
  <2> QED BY <2>1, <2>3, <2>4, SendKeeps
<1>2. CASE Stream
  <2>1. PICK p \in Packets : ServerSends(PacketBytes(p))
    BY <1>2 DEF Stream
  <2> DEFINE m == PacketBytes(p)
  <2>2. m \in Messages /\ m \in PacketMessages
    BY DEF Messages, PacketMessages
  <2> HIDE DEF m
  <2>3. m \notin ReplyMessages
    <3> SUFFICES ASSUME m \in ReplyMessages PROVE FALSE
      OBVIOUS
    <3>1. PICK head, body : IsReplyOf(m, head, body)
      BY ReplyIs
    <3>2. m[1] = Dollar
      BY <2>2, PacketIs
    <3> QED BY <3>1, <3>2 DEF IsReplyOf, Good, Bad, Dollar
  <2>4. ServerSends(m)
    BY <2>1 DEF m
  <2> QED BY <2>2, <2>3, <2>4, SendKeeps
<1>3. CASE \E n \in 1 .. Len(net) : Receive(n)
  BY <1>3, ReceiveKeeps
<1>4. CASE Handle
  BY <1>4, HandleKeeps
<1>5. CASE Request \/ Handled \/ Forward \/ RtpStore
             \/ \E i \in Ids : RtpReady(i) \/ Rtcp(i) \/ ReadFrame(i)
  BY <1>5, OthersKeep
<1>6. CASE UNCHANGED vars
  <2>1. UNCHANGED <<net, buffer, open, sent, handled, routed>> /\ TypeOK' /\ WokenFor'
    BY <1>6 DEF vars, FInv, TypeOK, WokenFor
  <2> QED BY <2>1, QuietKeeps
<1> QED BY <1>1, <1>2, <1>3, <1>4, <1>5, <1>6 DEF Next

LEMMA InvariantBytes == FInv => BytesOK
<1> SUFFICES ASSUME FInv PROVE BytesOK
  OBVIOUS
<1>1. RightSocket
  <2>1. /\ sent \in Seq(Seq(Nat)) /\ Len(handled) \in 0 .. Len(sent)
        /\ handled = SubSeq(sent, 1, Len(handled))
    <3>1. /\ sent \in Seq(Messages) /\ handled \in Seq(Messages) /\ Messages \subseteq Seq(Nat)
          /\ Len(handled) <= Len(sent) /\ handled = SubSeq(sent, 1, Len(handled))
      BY MessagesAre DEF FInv, Ordered
    <3>2. sent \in Seq(Seq(Nat))
      BY <3>1, SeqMonotonic
    <3>3. Len(handled) \in 0 .. Len(sent)
      BY <3>1
    <3> QED BY <3>1, <3>2, <3>3
  <2>2. ASSUME NEW f \in Fds PROVE IsPrefix(routed[f], DataOn(sent, ChannelOf(f)))
    <3> DEFINE ch == ChannelOf(f)
    <3>1. routed[f] = Given(f, handled)
      BY DEF FInv, Routed
    <3>2. CASE f \in Route(ch)
      <4>1. routed[f] = DataOn(SubSeq(sent, 1, Len(handled)), ch)
        BY <2>1, <3>1, <3>2 DEF Given
      <4>2. IsPrefix(DataOn(SubSeq(sent, 1, Len(handled)), ch), DataOn(sent, ch))
        BY <2>1, DataPrefix
      <4> QED BY <4>1, <4>2
    <3>3. CASE f \notin Route(ch)
      <4>1. routed[f] = <<>>
        BY <3>1, <3>3 DEF Given
      <4>2. DataOn(sent, ch) \in Seq(Seq(Nat)) /\ <<>> \in Seq(Seq(Nat))
        <5>1. PICK h : IsData(h, sent, ch) /\ DataOn(sent, ch) = h[Len(sent)]
          BY <2>1, DataIs
        <5>2. Len(sent) \in 0 .. Len(sent)
          BY <2>1
        <5> QED BY <5>1, <5>2 DEF IsData
      <4> DEFINE D == DataOn(sent, ch)
      <4>3. Len(D) \in Nat /\ Len(<<>>) = 0
        BY <4>2
      <4> HIDE DEF D
      <4>4. Len(<<>>) <= Len(D) /\ \A i \in 1 .. Len(<<>>) : <<>>[i] = D[i]
        BY <4>3
      <4>5. IsPrefix(<<>>, D)
        BY <4>2, <4>4, PrefixIs DEF D
      <4> QED BY <4>1, <4>5 DEF D
    <3> QED BY <3>2, <3>3
  <2> QED BY <2>2 DEF RightSocket, ChannelOf
<1> QED BY <1>1 DEF FInv, BytesOK

(* full_msg_rcvd and handle_rtsp_pkt (rtsp_internals.c:166, rtsp_handlers.c:221): however
   the stream is cut, no byte of it is lost or read twice, and a socket pair is given the
   packets of its channel whole, in their order, and no others. *)
THEOREM BytesSafe == NoEmptyLine /\ BufferTerminated /\ PacketsAsked => (Spec => []BytesOK)
<1> SUFFICES ASSUME NoEmptyLine /\ BufferTerminated /\ PacketsAsked PROVE Spec => []BytesOK
  OBVIOUS
<1>1. Init => FInv
  BY FramingInit
<1>2. FInv /\ [Next]_vars => FInv'
  BY FramingNext
<1>3. FInv => BytesOK
  BY InvariantBytes
<1> QED BY <1>1, <1>2, <1>3, PTL DEF Spec

(* The first message of the rest is the one that is delivered, by a step of Handle. *)
LEMMA HandleDelivers ==
  ASSUME NoEmptyLine, BufferTerminated, PacketsAsked, FInv, Handle
  PROVE  Channel!Deliver \/ Channel!Close
<1>1. FInv' /\ open /\ sent' = sent
  BY HandleKeeps DEF Handle
<1> DEFINE d == Len(handled)
<1>2. PICK x : handled' = Append(handled, x)
  BY DEF Handle
<1>3. /\ sent \in Seq(Messages) /\ handled \in Seq(Messages) /\ d \in Nat
      /\ handled = SubSeq(sent, 1, d) /\ d <= Len(sent)
      /\ handled' \in Seq(Messages) /\ Len(handled') <= Len(sent)
      /\ handled' = SubSeq(sent, 1, Len(handled'))
  BY <1>1 DEF FInv, Ordered
<1>4. Len(handled') = d + 1
  <2>1. Len(Append(handled, x)) = Len(handled) + 1
    BY <1>3
  <2> QED BY <1>2, <2>1
<1>5. d \in 0 .. Len(sent) - 1
  BY <1>3, <1>4
<1>6. /\ Rest # <<>> /\ Head(Rest) = sent[d + 1] /\ Tail(Rest) = SubSeq(sent, d + 2, Len(sent))
      /\ Append(SubSeq(sent, 1, d), sent[d + 1]) = SubSeq(sent, 1, d + 1)
  BY <1>3, <1>5, RestTaken DEF Rest
<1>7. handled' = Append(handled, Head(Rest))
  BY <1>3, <1>4, <1>6
<1>8. Rest' = Tail(Rest)
  <2>1. d + 1 + 1 = d + 2
    BY <1>3
  <2> QED BY <1>1, <1>4, <1>6, <2>1 DEF Rest
<1>9. open' = open \/ open' = FALSE
  BY DEF Handle, HandlePacket, HandleReply, HandleError
<1> QED BY <1>1, <1>6, <1>7, <1>8, <1>9 DEF Channel!Deliver, Channel!Close, Rest

LEMMA OtherStepsStutter ==
  ASSUME FInv, UNCHANGED <<sent, handled, open>>
  PROVE  UNCHANGED Channel!vars
BY DEF Channel!vars

(* What the server sends joins the queue. *)
LEMMA SendQueues ==
  ASSUME FInv, NEW m \in Messages, ServerSends(m)
  PROVE  Channel!Send
<1>1. sent' = Append(sent, m) /\ handled' = handled /\ open' = open
  BY DEF ServerSends
<1>2. sent \in Seq(Messages) /\ Len(handled) \in 0 .. Len(sent)
  <2>1. sent \in Seq(Messages) /\ handled \in Seq(Messages) /\ Len(handled) <= Len(sent)
    BY DEF FInv, Ordered
  <2> QED BY <2>1
<1>3. Rest' = Append(Rest, m)
  BY <1>1, <1>2, RestGrows DEF Rest
<1> QED BY <1>1, <1>3 DEF Channel!Send, Rest

(* rtsp_recv and handle_rtsp_pkt implement the channel that the state machine and the
   other threads are promised: each message is delivered whole, once and in the order in
   which it was sent, until a reply closes the connection. *)
THEOREM DeliversInOrder ==
  NoEmptyLine /\ BufferTerminated /\ PacketsAsked
    => (Spec => Channel!Init /\ [][Channel!Next]_(Channel!vars))
<1> SUFFICES ASSUME NoEmptyLine /\ BufferTerminated /\ PacketsAsked
             PROVE  Spec => Channel!Init /\ [][Channel!Next]_(Channel!vars)
  OBVIOUS
<1>1. Init => FInv /\ Channel!Init
  <2> SUFFICES ASSUME Init PROVE FInv /\ Channel!Init
    OBVIOUS
  <2>1. sent = <<>> /\ handled = <<>> /\ open = TRUE
    BY DEF Init
  <2>2. SubSeq(<<>>, 0 + 1, 0) = <<>>
    BY SubSeqEmpty
  <2>3. SubSeq(sent, Len(handled) + 1, Len(sent)) = <<>>
    BY <2>1, <2>2
  <2> QED BY <2>1, <2>3, FramingInit DEF Channel!Init
<1>2. FInv /\ [Next]_vars => FInv'
  BY FramingNext
<1>3. FInv /\ [Next]_vars => [Channel!Next]_(Channel!vars)
  <2> SUFFICES ASSUME FInv, [Next]_vars PROVE [Channel!Next]_(Channel!vars)
    OBVIOUS
  <2>1. CASE Reply
    <3>1. PICK m \in ReplyMessages : ServerSends(m)
      BY <2>1 DEF Reply
    <3>2. m \in Messages
      BY DEF Messages
    <3> QED BY <3>1, <3>2, SendQueues DEF Channel!Next
  <2>2. CASE Stream
    <3>1. PICK p \in Packets : ServerSends(PacketBytes(p))
      BY <2>2 DEF Stream
    <3>2. PacketBytes(p) \in Messages
      BY DEF Messages
    <3> QED BY <3>1, <3>2, SendQueues DEF Channel!Next
  <2>3. CASE Handle
    BY <2>3, HandleDelivers DEF Channel!Next
  <2>4. CASE \E n \in 1 .. Len(net) : Receive(n)
    <3>1. UNCHANGED <<sent, handled, open>>
      BY <2>4 DEF Receive
    <3> QED BY <3>1, OtherStepsStutter
  <2>5. CASE Request \/ Handled \/ Forward \/ RtpStore
               \/ \E i \in Ids : RtpReady(i) \/ Rtcp(i) \/ ReadFrame(i)
    <3>1. UNCHANGED <<sent, handled, open>>
      BY <2>5 DEF Request, Handled, Forward, RtpStore, RtpReady, Rtcp, ReadFrame
    <3> QED BY <3>1, OtherStepsStutter
  <2>6. CASE UNCHANGED vars
    <3>1. UNCHANGED <<sent, handled, open>>
      BY <2>6 DEF vars
    <3> QED BY <3>1, OtherStepsStutter
  <2> QED BY <2>1, <2>2, <2>3, <2>4, <2>5, <2>6 DEF Next
<1> QED BY <1>1, <1>2, <1>3, PTL DEF Spec

-----------------------------------------------------------------------------
(* SETUP: the transport of a session, its parameters and the headers.      *)

(* A transport is a function on its members. *)
IsTransport(u) == u = [f \in Members |-> u[f]]

(* Parameters that are one member, whose value is stored as it is. *)
Singles == {"SOCKTYPE", "DELIVERY", "MODE", "LAYERS", "APPEND", "TTL", "SSRC",
            "MCSRTP", "MCSRTCP", "CLIRTP", "CLIRTCP", "SRVRTP", "SRVRTCP",
            "ILVDRTP", "ILVDRTCP", "STREAMRTP", "STREAMRTCP"}
PairNames == {"MCSPORTS", "CLIPORTS", "SRVPORTS", "INTERLEAVED", "STREAMS"}

LEMMA PairsAre ==
  /\ DOMAIN Pairs = PairNames
  /\ Pairs["MCSPORTS"] = <<"MCSRTP", "MCSRTCP">>
  /\ Pairs["CLIPORTS"] = <<"CLIRTP", "CLIRTCP">>
  /\ Pairs["SRVPORTS"] = <<"SRVRTP", "SRVRTCP">>
  /\ Pairs["INTERLEAVED"] = <<"ILVDRTP", "ILVDRTCP">>
  /\ Pairs["STREAMS"] = <<"STREAMRTP", "STREAMRTCP">>
BY DEF Pairs, PairNames

LEMMA MembersOf ==
  /\ \A par \in Singles : MemberOf(par) \in Members /\ par \notin PairNames
  /\ MemberOf("ILVDRTP") = "RTP.u" /\ MemberOf("STREAMRTP") = "RTP.u"
  /\ MemberOf("ILVDRTCP") = "RTCP.u" /\ MemberOf("STREAMRTCP") = "RTCP.u"
  /\ \A par \in Singles \cap Members : MemberOf(par) = par
BY DEF Singles, PairNames, MemberOf, Members

(* The members of a pair are two. *)
LEMMA PairMembers ==
  ASSUME NEW par \in PairNames
  PROVE  /\ Pairs[par][1] \in Singles /\ Pairs[par][2] \in Singles
         /\ MemberOf(Pairs[par][1]) # MemberOf(Pairs[par][2])
BY PairsAre, MembersOf DEF Singles, PairNames, Members

LEMMA SingleSet ==
  ASSUME NEW u, IsTransport(u), NEW par \in Singles, NEW v, NEW w,
         w = rtp_transport_set(u, par, v)
  PROVE  /\ IsTransport(w) /\ w[MemberOf(par)] = v
         /\ \A f \in Members \ {MemberOf(par)} : w[f] = u[f]
<1>1. w = [u EXCEPT ![MemberOf(par)] = v]
  BY PairsAre DEF rtp_transport_set, Singles, PairNames
<1>2. MemberOf(par) \in Members
  BY MembersOf
<1> QED BY <1>1, <1>2 DEF IsTransport

LEMMA PairSet ==
  \A u, par, v : IsTransport(u) /\ par \in PairNames =>
    LET w == rtp_transport_set(u, par, v)
        a == MemberOf(Pairs[par][1])
        b == MemberOf(Pairs[par][2])
    IN  /\ IsTransport(w) /\ w[a] = v[1] /\ w[b] = v[2]
        /\ \A f \in Members \ {a, b} : w[f] = u[f]
<1> TAKE u, par, v
<1> DEFINE w == rtp_transport_set(u, par, v)
           a == MemberOf(Pairs[par][1])
           b == MemberOf(Pairs[par][2])
<1> SUFFICES ASSUME IsTransport(u), par \in PairNames
             PROVE  /\ IsTransport(w) /\ w[a] = v[1] /\ w[b] = v[2]
                    /\ \A f \in Members \ {a, b} : w[f] = u[f]
  OBVIOUS
<1>1. w = [u EXCEPT ![a] = v[1], ![b] = v[2]]
  BY PairsAre DEF rtp_transport_set, PairNames
<1>2. a \in Members /\ b \in Members /\ a # b
  BY PairMembers, MembersOf
<1> HIDE DEF w, a, b
<1> QED BY <1>1, <1>2 DEF IsTransport

(* The address of the server, and that of the client. *)
LEMMA SourceSet ==
  ASSUME NEW u, IsTransport(u), NEW v, NEW w, w = rtp_transport_set(u, "SRCADDR", v)
  PROVE  /\ IsTransport(w)
         /\ w["SRCHOST"] = (IF v = 0 THEN u["SRCHOST"] ELSE v)
         /\ w["RTP.u"] = (IF v = 0 THEN 0 ELSE AF_INET)
         /\ \A f \in Members \ {"RTP.u", "SRCHOST"} : w[f] = u[f]
<1>1. w = SetAddress(u, "RTP.u", "SRCHOST", v)
  BY PairsAre DEF rtp_transport_set, PairNames
<1>2. w = [u EXCEPT !["RTP.u"] = IF v = 0 THEN 0 ELSE AF_INET,
                    !["SRCHOST"] = IF v = 0 THEN u["SRCHOST"] ELSE v]
  BY <1>1 DEF SetAddress
<1>3. "RTP.u" \in Members /\ "SRCHOST" \in Members
  BY DEF Members
<1> QED BY <1>2, <1>3 DEF IsTransport

LEMMA DestinationSet ==
  ASSUME NEW u, IsTransport(u), NEW v, NEW w, w = rtp_transport_set(u, "DSTADDR", v)
  PROVE  /\ IsTransport(w)
         /\ w["DSTHOST"] = (IF v = 0 THEN u["DSTHOST"] ELSE v)
         /\ w["DSTFAMILY"] = (IF v = 0 THEN 0 ELSE AF_INET)
         /\ \A f \in Members \ {"DSTFAMILY", "DSTHOST"} : w[f] = u[f]
<1>1. w = SetAddress(u, "DSTFAMILY", "DSTHOST", v)
  BY PairsAre DEF rtp_transport_set, PairNames
<1>2. w = [u EXCEPT !["DSTFAMILY"] = IF v = 0 THEN 0 ELSE AF_INET,
                    !["DSTHOST"] = IF v = 0 THEN u["DSTHOST"] ELSE v]
  BY <1>1 DEF SetAddress
<1>3. "DSTFAMILY" \in Members /\ "DSTHOST" \in Members
  BY DEF Members
<1> QED BY <1>2, <1>3 DEF IsTransport

Parameters == {"SRCADDR", "DSTADDR"} \cup Singles \cup PairNames

(* The members that a parameter is stored in. *)
LEMMA TouchedIs ==
  /\ \A par \in Singles : Touched(par) = {MemberOf(par)}
  /\ \A par \in PairNames : Touched(par) = {MemberOf(Pairs[par][1]), MemberOf(Pairs[par][2])}
  /\ Touched("SRCADDR") = {"RTP.u", "SRCHOST"} /\ Touched("DSTADDR") = {"DSTFAMILY", "DSTHOST"}
BY PairsAre, MembersOf DEF Touched, Singles, PairNames

(* Setting a parameter leaves a transport, and touches no other member. *)
LEMMA SetTouches ==
  ASSUME NEW u, IsTransport(u), NEW par \in Parameters, NEW v, NEW w,
         w = rtp_transport_set(u, par, v)
  PROVE  IsTransport(w) /\ \A f \in Members \ Touched(par) : w[f] = u[f]
<1>1. CASE par \in Singles
  BY <1>1, SingleSet, TouchedIs
<1>2. CASE par \in PairNames
  <2> DEFINE a == MemberOf(Pairs[par][1])
             b == MemberOf(Pairs[par][2])
  <2>1. IsTransport(w) /\ \A f \in Members \ {a, b} : w[f] = u[f]
    BY <1>2, PairSet
  <2>2. Touched(par) = {a, b}
    BY <1>2, TouchedIs
  <2> QED BY <2>1, <2>2
<1>3. CASE par = "SRCADDR"
  <2>1. w = rtp_transport_set(u, "SRCADDR", v) /\ Touched(par) = {"RTP.u", "SRCHOST"}
    BY <1>3, TouchedIs
  <2> QED BY <2>1, SourceSet
<1>4. CASE par = "DSTADDR"
  <2>1. w = rtp_transport_set(u, "DSTADDR", v) /\ Touched(par) = {"DSTFAMILY", "DSTHOST"}
    BY <1>4, TouchedIs
  <2> QED BY <2>1, DestinationSet
<1> QED BY <1>1, <1>2, <1>3, <1>4 DEF Parameters

(* What a parameter reads. *)
LEMMA GetIs ==
  ASSUME NEW u
  PROVE  /\ Get(u, "SRCADDR") = u["SRCHOST"] /\ Get(u, "DSTADDR") = u["DSTHOST"]
         /\ \A par \in Singles : Get(u, par) = Value(u, par)
BY PairsAre, MembersOf DEF Get, Singles, PairNames

LEMMA GetPair ==
  \A u, par : par \in PairNames =>
    Get(u, par) = <<Value(u, Pairs[par][1]), Value(u, Pairs[par][2])>>
<1> TAKE u, par
<1> DEFINE x == Value(u, Pairs[par][1])
           y == Value(u, Pairs[par][2])
<1> SUFFICES ASSUME par \in PairNames PROVE Get(u, par) = <<x, y>>
  OBVIOUS
<1>1. Get(u, par) = [i \in 1 .. 2 |-> Value(u, Pairs[par][i])]
  BY PairsAre DEF Get, PairNames
<1>2. \A i \in 1 .. 2 : Value(u, Pairs[par][i]) = IF i = 1 THEN x ELSE y
  OBVIOUS
<1>3. Get(u, par) = [i \in 1 .. 2 |-> IF i = 1 THEN x ELSE y]
  BY <1>1, <1>2
<1> HIDE DEF x, y
<1> QED BY <1>3

LEMMA NumbersAre == Numbers \subseteq Parameters
<1>1. UNION {{Pairs[p][1], Pairs[p][2]} : p \in DOMAIN Pairs} \subseteq Singles
  BY PairsAre, PairMembers
<1> QED BY <1>1, PairsAre DEF Numbers, Parameters, Singles

(* Parameters that touch no member in common are apart. *)
LEMMA GetApart ==
  ASSUME NEW u, IsTransport(u), NEW par \in Parameters, NEW v, NEW other \in Parameters,
         Touched(par) \cap Touched(other) = {}
  PROVE  Get(rtp_transport_set(u, par, v), other) = Get(u, other)
<1> DEFINE w == rtp_transport_set(u, par, v)
<1>1. \A f \in Members \cap Touched(other) : w[f] = u[f]
  BY SetTouches
<1> HIDE DEF w
<1>2. ASSUME NEW q \in Singles, MemberOf(q) \in Touched(other) PROVE Value(w, q) = Value(u, q)
  <2>1. w[MemberOf(q)] = u[MemberOf(q)]
    BY <1>1, <1>2, MembersOf
  <2> QED BY <2>1 DEF Value
<1>3. CASE other \in Singles
  <2>1. Touched(other) = {MemberOf(other)}
    BY <1>3, PairsAre, MembersOf DEF Touched, Singles
  <2> QED BY <1>2, <1>3, <2>1, GetIs DEF w
<1>4. CASE other \in PairNames
  <2>1. Touched(other) = {MemberOf(Pairs[other][1]), MemberOf(Pairs[other][2])}
    BY <1>4, PairsAre DEF Touched
  <2>2. Pairs[other][1] \in Singles /\ Pairs[other][2] \in Singles
    BY <1>4, PairMembers
  <2>3. Value(w, Pairs[other][1]) = Value(u, Pairs[other][1])
        /\ Value(w, Pairs[other][2]) = Value(u, Pairs[other][2])
    BY <1>2, <2>1, <2>2
  <2> QED BY <1>4, <2>3, GetPair DEF w
<1>5. CASE other = "SRCADDR"
  <2>1. "SRCHOST" \in Members \cap Touched(other)
    BY <1>5, PairsAre DEF Touched, Members, PairNames
  <2> QED BY <1>1, <1>5, <2>1, GetIs DEF w
<1>6. CASE other = "DSTADDR"
  <2>1. "DSTHOST" \in Members \cap Touched(other)
    BY <1>6, PairsAre DEF Touched, Members, PairNames
  <2> QED BY <1>1, <1>6, <2>1, GetIs DEF w
<1> QED BY <1>3, <1>4, <1>5, <1>6 DEF Parameters

(* The table of parameters is one. *)
LEMMA TableSound == 
  ASSUME \A m \in Media : IsTransport(transport[m]), cur \in Media
  PROVE  SetThenGet
<1> SUFFICES ASSUME NEW par \in Numbers
             PROVE  LET u == rtp_transport_set(transport[cur], par, Samples(par))
                    IN  /\ IsSet(u, par) /\ Get(u, par) = Samples(par)
                        /\ \A other \in Numbers :
                             Touched(par) \cap Touched(other) = {} =>
                               Get(u, other) = Get(transport[cur], other)
  BY DEF SetThenGet
<1> DEFINE u == rtp_transport_set(transport[cur], par, Samples(par))
<1>1. IsTransport(transport[cur]) /\ par \in Parameters /\ Numbers \subseteq Parameters
  BY NumbersAre
<1>2. \A other \in Numbers :
        Touched(par) \cap Touched(other) = {} => Get(u, other) = Get(transport[cur], other)
  BY <1>1, GetApart
<1>3. CASE par \in Singles
  <2>1. Samples(par) = 9
    BY <1>3, PairsAre, MembersOf DEF Samples
  <2>2. u[MemberOf(par)] = 9
    BY <1>1, <1>3, <2>1, SingleSet
  <2> HIDE DEF u
  <2>3. Value(u, par) = 9
    BY <2>2 DEF Value
  <2>4. Get(u, par) = 9
    BY <1>3, <2>3, GetIs
  <2>5. IsSet(u, par)
    BY <1>3, <2>3, PairsAre, MembersOf DEF IsSet, Singles
  <2> QED BY <1>2, <2>1, <2>4, <2>5 DEF u
<1>4. CASE par \in PairNames
  <2>0. Samples(par) = <<7, 8>>
    BY <1>4, PairsAre DEF Samples
  <2>1. u[MemberOf(Pairs[par][1])] = 7 /\ u[MemberOf(Pairs[par][2])] = 8
    <3> DEFINE v == Samples(par)
    <3>1. u[MemberOf(Pairs[par][1])] = v[1] /\ u[MemberOf(Pairs[par][2])] = v[2]
      BY <1>1, <1>4, PairSet
    <3> QED BY <2>0, <3>1
  <2> HIDE DEF u
  <2>2. Value(u, Pairs[par][1]) = 7 /\ Value(u, Pairs[par][2]) = 8
    BY <2>1 DEF Value
  <2>3. Get(u, par) = <<7, 8>>
    BY <1>4, <2>2, GetPair
  <2>4. IsSet(u, par)
    <3>1. \A i \in 1 .. 2 : Value(u, Pairs[par][i]) # 0
      BY <2>2
    <3> QED BY <1>4, <3>1, PairsAre DEF IsSet, PairNames
  <2> QED BY <1>2, <2>0, <2>3, <2>4 DEF u
<1>5. CASE par = "SRCADDR"
  <2>1. Samples(par) = 9
    BY <1>5, PairsAre DEF Samples, PairNames
  <2>2. u["SRCHOST"] = 9 /\ u["RTP.u"] = AF_INET
    BY <1>1, <1>5, <2>1, SourceSet
  <2> HIDE DEF u
  <2>3. Get(u, par) = 9 /\ IsSet(u, par)
    BY <1>5, <2>2, GetIs, PairsAre DEF IsSet, PairNames
  <2> QED BY <1>2, <2>1, <2>3 DEF u
<1>6. CASE par = "DSTADDR"
  <2>1. Samples(par) = 9
    BY <1>6, PairsAre DEF Samples, PairNames
  <2>2. u["DSTHOST"] = 9 /\ u["DSTFAMILY"] = AF_INET
    BY <1>1, <1>6, <2>1, DestinationSet
  <2> HIDE DEF u
  <2>3. Get(u, par) = 9 /\ IsSet(u, par)
    BY <1>6, <2>2, GetIs, PairsAre DEF IsSet, PairNames
  <2> QED BY <1>2, <2>1, <2>3 DEF u
<1> QED BY <1>1, <1>3, <1>4, <1>5, <1>6 DEF Parameters

-----------------------------------------------------------------------------
(* Reading a header. *)

(* What the reading of a header goes by: the transport, and whether it goes on. *)
IsReader(u) == u = [t |-> u.t, ok |-> u.ok] /\ u.ok \in BOOLEAN /\ IsTransport(u.t)

(* A function that is defined by what it has for the number before is one. *)
LEMMA ReadingIs ==
  ASSUME NEW u, NEW pr, NEW ps, Len(ps) \in Nat
  PROVE  LET a == Reading(u, pr, ps)
         IN  /\ a[0] = [t |-> u, ok |-> TRUE]
             /\ \A k \in 1 .. Len(ps) : a[k] = ReadParam(a[k - 1], pr, ps[k])
<1> DEFINE n == Len(ps)
           z == [t |-> u, ok |-> TRUE]
           Next1(x, k) == ReadParam(x, pr, ps[k])
           Is(f, k) == f = [i \in 0 .. k |-> IF i = 0 THEN z ELSE Next1(f[i - 1], i)]
           T == {k \in 0 .. n : \E f : Is(f, k)}
           a == CHOOSE f : Is(f, n)
<1>1. 0 \in T
  <2>1. Is([i \in 0 .. 0 |-> z], 0)
    OBVIOUS
  <2> HIDE DEF Is
  <2> QED BY <2>1
<1>2. ASSUME NEW k \in 0 .. n - 1, k \in T PROVE k + 1 \in T
  <2>1. PICK f : Is(f, k)
    BY <1>2
  <2> DEFINE g == [i \in 0 .. k + 1 |-> IF i <= k THEN f[i] ELSE Next1(f[k], k + 1)]
  <2> HIDE DEF z, Next1
  <2>2. ASSUME NEW i \in 0 .. k + 1 PROVE g[i] = IF i = 0 THEN z ELSE Next1(g[i - 1], i)
    <3>1. CASE i = 0
      BY <2>1, <3>1
    <3>2. CASE i \in 1 .. k
      BY <2>1, <3>2
    <3>3. CASE i = k + 1
      BY <2>1, <3>3
    <3> QED BY <3>1, <3>2, <3>3
  <2>3. Is(g, k + 1)
    BY <2>2
  <2>4. k + 1 \in 0 .. n
    OBVIOUS
  <2> QED BY <2>3, <2>4
<1>3. n \in T
  <2> HIDE DEF T
  <2>1. 0 .. n \subseteq T
    BY <1>1, <1>2, UpTo
  <2> QED BY <2>1
<1>4. Is(a, n)
  BY <1>3
<1>5. Reading(u, pr, ps) = a
  BY DEF Reading
<1> HIDE DEF a
<1>6. a[0] = z /\ \A k \in 1 .. n : a[k] = Next1(a[k - 1], k)
  <2> HIDE DEF z, Next1
  <2>1. \A k \in 0 .. n : a[k] = IF k = 0 THEN z ELSE Next1(a[k - 1], k)
    BY <1>4
  <2>2. \A k \in 1 .. n : k \in 0 .. n /\ k # 0
    OBVIOUS
  <2> QED BY <2>1, <2>2
<1> QED BY <1>5, <1>6

(* A value read is stored, unless something before it was refused or it is too high. *)
LEMMA StoreIs ==
  ASSUME NEW u, IsReader(u), NEW par \in Parameters, NEW v
  PROVE  LET w == Store(u, par, v)
         IN  /\ IsReader(w)
             /\ ~u.ok \/ TooHigh(par, v) => w.t = u.t /\ ~w.ok
             /\ u.ok /\ ~TooHigh(par, v) =>
                  w.t = rtp_transport_set(u.t, par, v) /\ w.ok = ~NoAddress(par, v)
<1> DEFINE w == Store(u, par, v)
<1>1. CASE ~u.ok \/ TooHigh(par, v)
  <2>1. w = [u EXCEPT !.ok = FALSE]
    BY <1>1 DEF Store
  <2>2. w = [t |-> u.t, ok |-> FALSE]
    BY <2>1 DEF IsReader
  <2> HIDE DEF w
  <2>3. w.t = u.t /\ w.ok = FALSE
    BY <2>2
  <2>4. IsReader(w)
    BY <2>2, <2>3 DEF IsReader
  <2> QED BY <1>1, <2>3, <2>4 DEF w
<1>2. CASE ~ (~u.ok \/ TooHigh(par, v))
  <2>1. w = [t |-> rtp_transport_set(u.t, par, v), ok |-> ~NoAddress(par, v)]
    BY <1>2 DEF Store
  <2>2. IsTransport(rtp_transport_set(u.t, par, v))
    BY SetTouches DEF IsReader
  <2> HIDE DEF w
  <2>3. IsReader(w)
    BY <2>1, <2>2 DEF IsReader, NoAddress
  <2> QED BY <1>2, <2>1, <2>3 DEF w
<1> QED BY <1>1, <1>2

LEMMA UnderstoodIs ==
  /\ DOMAIN Understood("UDP") =
       {"server_port", "port", "source", "destination", "ssrc", "ttl", "layers"}
  /\ Understood("UDP")["server_port"] = <<"SRVRTP", "SRVRTCP">>
  /\ Understood("UDP")["source"] = <<"SRCADDR">>
  /\ Understood("UDP")["destination"] = <<"DSTADDR">>
  /\ Understood("UDP")["ssrc"] = <<"SSRC">>
  /\ Understood("UDP")["ttl"] = <<"TTL">>
  /\ Understood("UDP")["layers"] = <<"LAYERS">>
  /\ DOMAIN Understood("TCP") = {"interleaved", "ssrc"}
  /\ Understood("TCP")["interleaved"] = <<"ILVDRTP", "ILVDRTCP">>
  /\ Understood("TCP")["ssrc"] = <<"SSRC">>
  /\ DOMAIN Understood("SCTP") = {"server_streams", "ssrc"}
  /\ Understood("SCTP")["server_streams"] = <<"STREAMRTP", "STREAMRTCP">>
  /\ Understood("SCTP")["ssrc"] = <<"SSRC">>
BY DEF Understood

(* A parameter is one value, or two. *)
LEMMA ReadOne ==
  ASSUME NEW u, NEW pr, NEW p, p.name \in DOMAIN Understood(pr), NEW par,
         Understood(pr)[p.name] = <<par>>
  PROVE  ReadParam(u, pr, p) = Store(u, par, p.value)
BY DEF ReadParam

LEMMA ReadTwo ==
  ASSUME NEW u, NEW pr, NEW p, p.name \in DOMAIN Understood(pr), NEW a, NEW b,
         Understood(pr)[p.name] = <<a, b>>
  PROVE  ReadParam(u, pr, p) = Store(Store(u, a, p.value[1]), b, p.value[2])
BY DEF ReadParam

LEMMA ReadNone ==
  ASSUME NEW u, NEW pr, NEW p, p.name \notin DOMAIN Understood(pr)
  PROVE  ReadParam(u, pr, p) = u
BY DEF ReadParam

(* What a session keeps of a reply over UDP. *)
KeptOf == [server_port |-> "SRVPORTS", source |-> "SRCADDR", ssrc |-> "SSRC", ttl |-> "TTL"]
KeptNames == {"server_port", "source", "ssrc", "ttl"}

LEMMA KeptIs ==
  /\ KeptOf["server_port"] = "SRVPORTS" /\ KeptOf["source"] = "SRCADDR"
  /\ KeptOf["ssrc"] = "SSRC" /\ KeptOf["ttl"] = "TTL"
BY DEF KeptOf

LEMMA KeptGets ==
  ASSUME NEW u
  PROVE  /\ Get(u, "SRVPORTS") = <<u["SRVRTP"], u["SRVRTCP"]>>
         /\ Get(u, "SRCADDR") = u["SRCHOST"]
         /\ Get(u, "SSRC") = u["SSRC"]
         /\ Get(u, "TTL") = u["TTL"]
<1>1. Get(u, "SRVPORTS") = <<Value(u, "SRVRTP"), Value(u, "SRVRTCP")>>
  <2>1. "SRVPORTS" \in PairNames
    BY DEF PairNames
  <2> QED BY <2>1, GetPair, PairsAre
<1>2. /\ Value(u, "SRVRTP") = u["SRVRTP"] /\ Value(u, "SRVRTCP") = u["SRVRTCP"]
      /\ Value(u, "SSRC") = u["SSRC"] /\ Value(u, "TTL") = u["TTL"]
  BY DEF Value, MemberOf
<1>3. "SSRC" \in Singles /\ "TTL" \in Singles
  BY DEF Singles
<1> QED BY <1>1, <1>2, <1>3, GetIs

(* The address in it is none, which ends the reading. *)
Refuses(p) == p.name \in {"source", "destination"} /\ p.value = 0

UdpPars == {"SRVRTP", "SRVRTCP", "SRCADDR", "DSTADDR", "SSRC", "TTL", "LAYERS"}

LEMMA UdpStore ==
  ASSUME NEW u, IsReader(u), u.ok, NEW par \in UdpPars, NEW v
  PROVE  LET w == Store(u, par, v)
         IN  IsReader(w) /\ w.ok = ~NoAddress(par, v) /\ w.t = rtp_transport_set(u.t, par, v)
<1>1. par \in Parameters /\ ~TooHigh(par, v)
  BY DEF UdpPars, Parameters, Singles, TooHigh
<1> QED BY <1>1, StoreIs

(* A single value, other than an address. *)
UdpSingles == {"SRVRTP", "SRVRTCP", "SSRC", "TTL", "LAYERS"}

LEMMA UdpStoreSingle ==
  \A u, par, v : IsReader(u) /\ u.ok /\ par \in UdpSingles =>
    LET w == Store(u, par, v)
    IN  /\ IsReader(w) /\ w.ok = TRUE /\ w.t[par] = v
        /\ \A f \in Members \ {par} : w.t[f] = u.t[f]
<1> TAKE u, par, v
<1> DEFINE w == Store(u, par, v)
<1> SUFFICES ASSUME IsReader(u), u.ok, par \in UdpSingles
             PROVE  /\ IsReader(w) /\ w.ok = TRUE /\ w.t[par] = v
                    /\ \A f \in Members \ {par} : w.t[f] = u.t[f]
  OBVIOUS
<1>1. par \in Singles \cap Members /\ ~NoAddress(par, v) /\ par \in UdpPars
  BY DEF UdpPars, UdpSingles, Singles, Members, NoAddress
<1>2. MemberOf(par) = par
  BY <1>1, MembersOf
<1>3. IsReader(w) /\ w.ok = TRUE /\ w.t = rtp_transport_set(u.t, par, v)
  BY <1>1, UdpStore
<1>4. IsTransport(u.t)
  BY DEF IsReader
<1> HIDE DEF w
<1>5. w.t[par] = v /\ \A f \in Members \ {par} : w.t[f] = u.t[f]
  BY <1>1, <1>2, <1>3, <1>4, SingleSet
<1> QED BY <1>3, <1>5

(* What one parameter of a reply over UDP changes of the members that are kept. *)
UdpChanges(u, p, w) ==
  /\ IsReader(w) /\ w.ok = ~Refuses(p)
  /\ w.t["SRVRTP"] = IF p.name = "server_port" THEN p.value[1] ELSE u.t["SRVRTP"]
  /\ w.t["SRVRTCP"] = IF p.name = "server_port" THEN p.value[2] ELSE u.t["SRVRTCP"]
  /\ w.t["SRCHOST"] = IF p.name = "source" /\ p.value # 0 THEN p.value ELSE u.t["SRCHOST"]
  /\ w.t["SSRC"] = IF p.name = "ssrc" THEN p.value ELSE u.t["SSRC"]
  /\ w.t["TTL"] = IF p.name = "ttl" THEN p.value ELSE u.t["TTL"]
  /\ w.t["SOCKTYPE"] = u.t["SOCKTYPE"]

LEMMA UdpStep ==
  ASSUME NEW u, IsReader(u), u.ok, NEW p, p.name # "port"
  PROVE  UdpChanges(u, p, ReadParam(u, "UDP", p))
<1> DEFINE w == ReadParam(u, "UDP", p)
           Kept == {"SRVRTP", "SRVRTCP", "SRCHOST", "SSRC", "TTL", "SOCKTYPE"}
<1>0. Kept \subseteq Members /\ IsTransport(u.t)
  BY DEF Members, IsReader
<1>1. CASE p.name = "server_port"
  <2> DEFINE x == Store(u, "SRVRTP", p.value[1])
  <2>1. w = Store(x, "SRVRTCP", p.value[2])
    BY <1>1, UnderstoodIs, ReadTwo
  <2>2. /\ IsReader(x) /\ x.ok = TRUE /\ x.t["SRVRTP"] = p.value[1]
        /\ \A f \in Members \ {"SRVRTP"} : x.t[f] = u.t[f]
    BY UdpStoreSingle DEF UdpSingles
  <2> HIDE DEF x, w
  <2>3. /\ IsReader(w) /\ w.ok = TRUE /\ w.t["SRVRTCP"] = p.value[2]
        /\ \A f \in Members \ {"SRVRTCP"} : w.t[f] = x.t[f]
    BY <2>1, <2>2, UdpStoreSingle DEF UdpSingles
  <2>4. w.t["SRVRTP"] = p.value[1] /\ \A f \in Kept \ {"SRVRTP", "SRVRTCP"} : w.t[f] = u.t[f]
    BY <1>0, <2>2, <2>3
  <2>5. ~Refuses(p)
    BY <1>1 DEF Refuses
  <2> QED BY <1>1, <2>3, <2>4, <2>5 DEF UdpChanges, w
<1>2. CASE p.name = "source"
  <2>1. w = Store(u, "SRCADDR", p.value)
    BY <1>2, UnderstoodIs, ReadOne
  <2>2. /\ IsReader(w) /\ w.ok = ~NoAddress("SRCADDR", p.value)
        /\ w.t = rtp_transport_set(u.t, "SRCADDR", p.value)
    BY <2>1, UdpStore DEF UdpPars
  <2> HIDE DEF w
  <2>3. /\ w.t["SRCHOST"] = (IF p.value = 0 THEN u.t["SRCHOST"] ELSE p.value)
        /\ \A f \in Members \ {"RTP.u", "SRCHOST"} : w.t[f] = u.t[f]
    BY <1>0, <2>2, SourceSet
  <2>4. \A f \in Kept \ {"SRCHOST"} : w.t[f] = u.t[f]
    BY <1>0, <2>3
  <2>5. w.ok = ~Refuses(p)
    BY <1>2, <2>2 DEF Refuses, NoAddress
  <2> QED BY <1>2, <2>2, <2>3, <2>4, <2>5 DEF UdpChanges, w
<1>3. CASE p.name = "destination"
  <2>1. w = Store(u, "DSTADDR", p.value)
    BY <1>3, UnderstoodIs, ReadOne
  <2>2. /\ IsReader(w) /\ w.ok = ~NoAddress("DSTADDR", p.value)
        /\ w.t = rtp_transport_set(u.t, "DSTADDR", p.value)
    BY <2>1, UdpStore DEF UdpPars
  <2> HIDE DEF w
  <2>3. \A f \in Members \ {"DSTFAMILY", "DSTHOST"} : w.t[f] = u.t[f]
    BY <1>0, <2>2, DestinationSet
  <2>4. \A f \in Kept : w.t[f] = u.t[f]
    BY <1>0, <2>3
  <2>5. w.ok = ~Refuses(p)
    BY <1>3, <2>2 DEF Refuses, NoAddress
  <2> QED BY <1>3, <2>2, <2>4, <2>5 DEF UdpChanges, w
<1>4. CASE p.name \in {"ssrc", "ttl", "layers"}
  <2>1. PICK par \in UdpSingles :
          /\ w = Store(u, par, p.value)
          /\ par = "SSRC" <=> p.name = "ssrc"
          /\ par = "TTL" <=> p.name = "ttl"
          /\ par \notin {"SRVRTP", "SRVRTCP"}
    <3>1. CASE p.name = "ssrc"
      <4>1. w = Store(u, "SSRC", p.value)
        BY <3>1, UnderstoodIs, ReadOne
      <4> QED BY <3>1, <4>1 DEF UdpSingles
    <3>2. CASE p.name = "ttl"
      <4>1. w = Store(u, "TTL", p.value)
        BY <3>2, UnderstoodIs, ReadOne
      <4> QED BY <3>2, <4>1 DEF UdpSingles
    <3>3. CASE p.name = "layers"
      <4>1. w = Store(u, "LAYERS", p.value)
        BY <3>3, UnderstoodIs, ReadOne
      <4> QED BY <3>3, <4>1 DEF UdpSingles
    <3> QED BY <1>4, <3>1, <3>2, <3>3
  <2>2. /\ IsReader(w) /\ w.ok = TRUE /\ w.t[par] = p.value
        /\ \A f \in Members \ {par} : w.t[f] = u.t[f]
    BY <2>1, UdpStoreSingle
  <2> HIDE DEF w
  <2>3. \A f \in Kept \ {par} : w.t[f] = u.t[f]
    BY <1>0, <2>2
  <2>4. ~Refuses(p) /\ p.name # "server_port" /\ p.name # "source"
    BY <1>4 DEF Refuses
  <2>5. par # "SRCHOST" /\ par # "SOCKTYPE"
    BY <2>1 DEF UdpSingles
  <2> QED BY <2>1, <2>2, <2>3, <2>4, <2>5 DEF UdpChanges, w
<1>5. CASE p.name \notin DOMAIN Understood("UDP")
  <2>1. w = u
    BY <1>5, ReadNone
  <2>2. ~Refuses(p) /\ p.name \notin {"server_port", "source", "ssrc", "ttl"}
    BY <1>5, UnderstoodIs DEF Refuses
  <2> HIDE DEF w
  <2> QED BY <2>1, <2>2 DEF UdpChanges, w
<1> QED BY <1>1, <1>2, <1>3, <1>4, <1>5, UnderstoodIs

(* Its ports come in pairs, and none is a multicast one. *)
UdpParam(p) == /\ p.name # "port"
               /\ p.name = "server_port" => p.value = <<p.value[1], p.value[2]>>

LEMMA KeptStep ==
  ASSUME NEW u, IsReader(u), u.ok, NEW p, UdpParam(p), NEW name \in KeptNames
  PROVE  LET w == ReadParam(u, "UDP", p)
         IN  Get(w.t, KeptOf[name]) = IF p.name = name /\ ~Refuses(p) THEN p.value
                                      ELSE Get(u.t, KeptOf[name])
<1> DEFINE w == ReadParam(u, "UDP", p)
<1>1. UdpChanges(u, p, w)
  BY UdpStep DEF UdpParam
<1> HIDE DEF w
<1> SUFFICES Get(w.t, KeptOf[name]) = IF p.name = name /\ ~Refuses(p) THEN p.value
                                      ELSE Get(u.t, KeptOf[name])
  BY DEF w
<1>2. CASE name = "server_port"
  <2>1. Get(w.t, KeptOf[name]) = <<w.t["SRVRTP"], w.t["SRVRTCP"]>>
        /\ Get(u.t, KeptOf[name]) = <<u.t["SRVRTP"], u.t["SRVRTCP"]>>
    BY <1>2, KeptIs, KeptGets
  <2>2. CASE p.name = "server_port"
    <3>1. w.t["SRVRTP"] = p.value[1] /\ w.t["SRVRTCP"] = p.value[2]
      BY <1>1, <2>2 DEF UdpChanges
    <3>2. p.value = <<p.value[1], p.value[2]>>
      BY <2>2 DEF UdpParam
    <3>3. ~Refuses(p)
      BY <2>2 DEF Refuses
    <3>4. Get(w.t, KeptOf[name]) = p.value
      BY <2>1, <3>1, <3>2
    <3> QED BY <1>2, <2>2, <3>3, <3>4
  <2>3. CASE p.name # "server_port"
    <3>1. w.t["SRVRTP"] = u.t["SRVRTP"] /\ w.t["SRVRTCP"] = u.t["SRVRTCP"]
      BY <1>1, <2>3 DEF UdpChanges
    <3> QED BY <1>2, <2>1, <2>3, <3>1
  <2> QED BY <2>2, <2>3
<1>3. CASE name = "source"
  <2>1. Get(w.t, KeptOf[name]) = w.t["SRCHOST"] /\ Get(u.t, KeptOf[name]) = u.t["SRCHOST"]
    BY <1>3, KeptIs, KeptGets
  <2>2. w.t["SRCHOST"] = IF p.name = "source" /\ ~Refuses(p) THEN p.value ELSE u.t["SRCHOST"]
    BY <1>1 DEF UdpChanges, Refuses
  <2> QED BY <1>3, <2>1, <2>2
<1>4. CASE name = "ssrc"
  <2>1. Get(w.t, KeptOf[name]) = w.t["SSRC"] /\ Get(u.t, KeptOf[name]) = u.t["SSRC"]
    BY <1>4, KeptIs, KeptGets
  <2>2. w.t["SSRC"] = IF p.name = "ssrc" /\ ~Refuses(p) THEN p.value ELSE u.t["SSRC"]
    BY <1>1 DEF UdpChanges, Refuses
  <2> QED BY <1>4, <2>1, <2>2
<1>5. CASE name = "ttl"
  <2>1. Get(w.t, KeptOf[name]) = w.t["TTL"] /\ Get(u.t, KeptOf[name]) = u.t["TTL"]
    BY <1>5, KeptIs, KeptGets
  <2>2. w.t["TTL"] = IF p.name = "ttl" /\ ~Refuses(p) THEN p.value ELSE u.t["TTL"]
    BY <1>1 DEF UdpChanges, Refuses
  <2> QED BY <1>5, <2>1, <2>2
<1> QED BY <1>2, <1>3, <1>4, <1>5 DEF KeptNames

(* After a refusal nothing changes. *)
LEMMA Stopped ==
  ASSUME NEW u, IsReader(u), ~u.ok, NEW pr, NEW p
  PROVE  ReadParam(u, pr, p) = u
<1>1. ASSUME NEW par, NEW v PROVE Store(u, par, v) = u
  <2>1. Store(u, par, v) = [u EXCEPT !.ok = FALSE]
    BY DEF Store
  <2>2. u = [t |-> u.t, ok |-> u.ok] /\ u.ok = FALSE
    BY DEF IsReader
  <2> QED BY <2>1, <2>2
<1> QED BY <1>1 DEF ReadParam

(* None of the first k parameters is refused, and those among them, up to the first
   that is, that have a name. *)
Accepted(ps, k) == \A j \in 1 .. k : ~Refuses(ps[j])
NamedUpTo(ps, name, k) == {i \in 1 .. k : ps[i].name = name /\ Accepted(ps, i)}

(* The value of x is the last of them, or what it was. *)
LastOf(x, unset, ps, name, k) ==
  \/ NamedUpTo(ps, name, k) = {} /\ x = unset
  \/ \E i \in NamedUpTo(ps, name, k) :
       (\A y \in NamedUpTo(ps, name, k) : y <= i) /\ x = ps[i].value

LEMMA LastStep ==
  ASSUME NEW ps, NEW name, NEW k \in Nat, NEW x, NEW y, NEW unset,
         LastOf(x, unset, ps, name, k),
         y = IF ps[k + 1].name = name /\ Accepted(ps, k + 1) THEN ps[k + 1].value ELSE x
  PROVE  LastOf(y, unset, ps, name, k + 1)
<1>1. \A i \in 1 .. k + 1 : i \in 1 .. k \/ i = k + 1
  OBVIOUS
<1>2. \A i \in 1 .. k : i \in 1 .. k + 1 /\ i <= k + 1
  OBVIOUS
<1>3. k + 1 \in 1 .. k + 1 /\ ~ (k + 1 \in 1 .. k)
  OBVIOUS
<1>4. CASE ps[k + 1].name = name /\ Accepted(ps, k + 1)
  <2>1. k + 1 \in NamedUpTo(ps, name, k + 1)
    BY <1>3, <1>4 DEF NamedUpTo
  <2>2. \A i \in NamedUpTo(ps, name, k + 1) : i <= k + 1
    BY DEF NamedUpTo
  <2> QED BY <1>4, <2>1, <2>2 DEF LastOf
<1>5. CASE ~ (ps[k + 1].name = name /\ Accepted(ps, k + 1))
  <2>1. NamedUpTo(ps, name, k + 1) = NamedUpTo(ps, name, k)
    BY <1>1, <1>2, <1>5 DEF NamedUpTo
  <2> QED BY <1>5, <2>1 DEF LastOf
<1> QED BY <1>4, <1>5

(* A reply over UDP is read up to the first address that is none, and of each parameter
   the last value stays. *)
LEMMA UdpReads ==
  ASSUME NEW u, IsTransport(u), NEW ps, Len(ps) \in Nat,
         \A i \in 1 .. Len(ps) : UdpParam(ps[i])
  PROVE  LET w == Reading(u, "UDP", ps)[Len(ps)].t
         IN  /\ IsTransport(w) /\ w["SOCKTYPE"] = u["SOCKTYPE"]
             /\ \A name \in KeptNames :
                  LastOf(Get(w, KeptOf[name]), Get(u, KeptOf[name]), ps, name, Len(ps))
<1> DEFINE n == Len(ps)
           a == Reading(u, "UDP", ps)
           P(k) == /\ IsReader(a[k]) /\ (a[k].ok <=> Accepted(ps, k))
                   /\ a[k].t["SOCKTYPE"] = u["SOCKTYPE"]
                   /\ \A name \in KeptNames :
                        LastOf(Get(a[k].t, KeptOf[name]), Get(u, KeptOf[name]), ps, name, k)
           T == {k \in 0 .. n : P(k)}
<1>1. a[0] = [t |-> u, ok |-> TRUE] /\ \A k \in 1 .. n : a[k] = ReadParam(a[k - 1], "UDP", ps[k])
  BY ReadingIs
<1>2. \A i \in 1 .. n : UdpParam(ps[i])
  OBVIOUS
<1>3. n \in Nat
  OBVIOUS
<1> HIDE DEF a, n
<1>4. 0 \in T
  <2>1. IsReader(a[0]) /\ a[0].ok = TRUE /\ a[0].t = u
    BY <1>1 DEF IsReader
  <2>2. Accepted(ps, 0) /\ \A name : NamedUpTo(ps, name, 0) = {}
    BY DEF Accepted, NamedUpTo
  <2> QED BY <1>3, <2>1, <2>2 DEF LastOf
<1>5. ASSUME NEW k \in 0 .. n - 1, k \in T PROVE k + 1 \in T
  <2> DEFINE p == ps[k + 1]
  <2>0. k \in Nat /\ k + 1 \in 1 .. n /\ k + 1 \in 0 .. n /\ (k + 1) - 1 = k
    BY <1>3
  <2>1. P(k)
    BY <1>5
  <2>2. a[k + 1] = ReadParam(a[k], "UDP", p) /\ UdpParam(p)
    BY <1>1, <1>2, <2>0
  <2>3. Accepted(ps, k + 1) <=> Accepted(ps, k) /\ ~Refuses(p)
    <3>1. \A j \in 1 .. k + 1 : j \in 1 .. k \/ j = k + 1
      BY <2>0
    <3>2. \A j \in 1 .. k : j \in 1 .. k + 1
      BY <2>0
    <3>3. k + 1 \in 1 .. k + 1
      BY <2>0
    <3> QED BY <3>1, <3>2, <3>3 DEF Accepted
  <2>4. CASE a[k].ok
    <3>1. UdpChanges(a[k], p, a[k + 1])
      BY <2>1, <2>2, <2>4, UdpStep DEF UdpParam
    <3>2. /\ IsReader(a[k + 1]) /\ (a[k + 1].ok <=> Accepted(ps, k + 1))
          /\ a[k + 1].t["SOCKTYPE"] = u["SOCKTYPE"]
      BY <2>1, <2>3, <2>4, <3>1 DEF UdpChanges
    <3>3. ASSUME NEW name \in KeptNames
          PROVE  LastOf(Get(a[k + 1].t, KeptOf[name]), Get(u, KeptOf[name]), ps, name, k + 1)
      <4> DEFINE x == Get(a[k].t, KeptOf[name])
                 y == Get(a[k + 1].t, KeptOf[name])
                 unset == Get(u, KeptOf[name])
      <4>1. y = IF p.name = name /\ Accepted(ps, k + 1) THEN p.value ELSE x
        <5>1. y = IF p.name = name /\ ~Refuses(p) THEN p.value ELSE x
          BY <2>1, <2>2, <2>4, KeptStep
        <5>2. Accepted(ps, k + 1) <=> ~Refuses(p)
          BY <2>1, <2>3, <2>4
        <5> QED BY <5>1, <5>2
      <4>2. LastOf(x, unset, ps, name, k)
        BY <2>1
      <4> HIDE DEF x, y, unset
      <4>3. LastOf(y, unset, ps, name, k + 1)
        BY <2>0, <4>1, <4>2, LastStep
      <4> QED BY <4>3 DEF y, unset
    <3> QED BY <2>0, <3>2, <3>3
  <2>5. CASE ~a[k].ok
    <3>1. a[k + 1] = a[k]
      BY <2>1, <2>2, <2>5, Stopped
    <3>2. ~Accepted(ps, k + 1)
      BY <2>1, <2>3, <2>5
    <3>3. ASSUME NEW name \in KeptNames
          PROVE  LastOf(Get(a[k + 1].t, KeptOf[name]), Get(u, KeptOf[name]), ps, name, k + 1)
      <4> DEFINE x == Get(a[k].t, KeptOf[name])
                 unset == Get(u, KeptOf[name])
      <4>1. LastOf(x, unset, ps, name, k)
        BY <2>1
      <4> HIDE DEF x, unset
      <4>2. x = IF p.name = name /\ Accepted(ps, k + 1) THEN p.value ELSE x
        BY <3>2
      <4>3. LastOf(x, unset, ps, name, k + 1)
        BY <2>0, <4>1, <4>2, LastStep
      <4> QED BY <3>1, <4>3 DEF x, unset
    <3>4. /\ IsReader(a[k + 1]) /\ (a[k + 1].ok <=> Accepted(ps, k + 1))
          /\ a[k + 1].t["SOCKTYPE"] = u["SOCKTYPE"]
      BY <2>1, <2>5, <3>1, <3>2
    <3> QED BY <2>0, <3>3, <3>4
  <2> QED BY <2>4, <2>5
<1>6. n \in T
  <2> HIDE DEF T
  <2>1. 0 .. n \subseteq T
    BY <1>3, <1>4, <1>5, UpTo
  <2> QED BY <1>3, <2>1
<1>7. P(n)
  BY <1>6
<1>8. IsTransport(a[n].t)
  BY <1>7 DEF IsReader
<1> QED BY <1>7, <1>8 DEF a, n

(* The parameter that names the channels of a reply, and where they are stored. *)
IsStream(pr, name, r, c) ==
  \/ pr = "TCP" /\ name = "interleaved" /\ r = "ILVDRTP" /\ c = "ILVDRTCP"
  \/ pr = "SCTP" /\ name = "server_streams" /\ r = "STREAMRTP" /\ c = "STREAMRTCP"

(* The pair stored in w, or none: reading stops at the first channel that is too high. *)
SamePair(w, r, c, pair) ==
  \/ TooHigh(r, pair[1])
  \/ pair[1] = w["RTP.u"] /\ (TooHigh(c, pair[2]) \/ pair[2] = w["RTCP.u"])

(* Channels that are as they were, or too high, stay as they were. *)
LEMMA StreamStep ==
  ASSUME NEW pr, NEW name, NEW r, NEW c, IsStream(pr, name, r, c),
         NEW u, IsReader(u), NEW p,
         p.name = name => SamePair(u.t, r, c, p.value)
  PROVE  LET w == ReadParam(u, pr, p)
         IN  /\ IsReader(w)
             /\ \A f \in {"RTP.u", "RTCP.u", "SOCKTYPE"} : w.t[f] = u.t[f]
<1> DEFINE w == ReadParam(u, pr, p)
           F == {"RTP.u", "RTCP.u", "SOCKTYPE"}
<1>0. /\ F \subseteq Members /\ IsTransport(u.t) /\ r \in Singles /\ c \in Singles
      /\ r \in Parameters /\ c \in Parameters
      /\ MemberOf(r) = "RTP.u" /\ MemberOf(c) = "RTCP.u"
  BY MembersOf DEF IsReader, Members, IsStream, Singles, Parameters
<1>1. ASSUME NEW x, IsReader(x), NEW par \in {r, c}, NEW v,
             ~x.ok \/ TooHigh(par, v) \/ v = x.t[MemberOf(par)]
      PROVE  IsReader(Store(x, par, v)) /\ \A f \in F : Store(x, par, v).t[f] = x.t[f]
  <2> DEFINE y == Store(x, par, v)
  <2>1. par \in Parameters /\ par \in Singles /\ IsTransport(x.t)
    BY <1>0, <1>1 DEF IsReader
  <2>2. /\ IsReader(y)
        /\ ~x.ok \/ TooHigh(par, v) => y.t = x.t
        /\ x.ok /\ ~TooHigh(par, v) => y.t = rtp_transport_set(x.t, par, v)
    BY <1>1, <2>1, StoreIs
  <2> HIDE DEF y
  <2>3. CASE x.ok /\ ~TooHigh(par, v)
    <3>1. y.t[MemberOf(par)] = v /\ \A f \in Members \ {MemberOf(par)} : y.t[f] = x.t[f]
      BY <2>1, <2>2, <2>3, SingleSet
    <3>2. \A f \in F : y.t[f] = x.t[f]
      BY <1>0, <1>1, <2>3, <3>1
    <3> QED BY <2>2, <3>2 DEF y
  <2>4. CASE ~ (x.ok /\ ~TooHigh(par, v))
    BY <2>2, <2>4 DEF y
  <2> QED BY <2>3, <2>4
<1>2. CASE p.name = name
  <2> DEFINE x == Store(u, r, p.value[1])
  <2>1. w = Store(x, c, p.value[2])
    BY <1>2, UnderstoodIs, ReadTwo DEF IsStream
  <2>2. IsReader(x) /\ \A f \in F : x.t[f] = u.t[f]
    BY <1>0, <1>1, <1>2 DEF SamePair
  <2>5. TooHigh(r, p.value[1]) => ~x.ok
    BY <1>0, StoreIs
  <2> HIDE DEF x, w
  <2>3. ~x.ok \/ TooHigh(c, p.value[2]) \/ p.value[2] = x.t[MemberOf(c)]
    BY <1>0, <1>2, <2>2, <2>5 DEF SamePair
  <2>4. IsReader(w) /\ \A f \in F : w.t[f] = x.t[f]
    BY <1>1, <2>1, <2>2, <2>3
  <2> QED BY <2>2, <2>4 DEF w
<1>3. CASE p.name = "ssrc"
  <2>1. w = Store(u, "SSRC", p.value)
    BY <1>3, UnderstoodIs, ReadOne DEF IsStream
  <2>2. ~TooHigh("SSRC", p.value) /\ "SSRC" \in Singles /\ "SSRC" \in Parameters
        /\ MemberOf("SSRC") = "SSRC"
    BY DEF TooHigh, Singles, Parameters, MemberOf
  <2>3. /\ IsReader(w)
        /\ ~u.ok => w.t = u.t
        /\ u.ok => w.t = rtp_transport_set(u.t, "SSRC", p.value)
    BY <2>1, <2>2, StoreIs
  <2> HIDE DEF w
  <2>4. CASE u.ok
    <3>1. \A f \in Members \ {"SSRC"} : w.t[f] = u.t[f]
      BY <1>0, <2>2, <2>3, <2>4, SingleSet
    <3> QED BY <1>0, <2>3, <2>4, <3>1 DEF w
  <2> QED BY <2>3, <2>4 DEF w
<1>4. CASE p.name \notin DOMAIN Understood(pr)
  BY <1>4, ReadNone
<1> QED BY <1>2, <1>3, <1>4, UnderstoodIs DEF IsStream

LEMMA StreamReads ==
  ASSUME NEW pr, NEW name, NEW r, NEW c, IsStream(pr, name, r, c),
         NEW u, IsTransport(u), NEW ps, Len(ps) \in Nat,
         \A i \in 1 .. Len(ps) : ps[i].name = name => SamePair(u, r, c, ps[i].value)
  PROVE  LET w == Reading(u, pr, ps)[Len(ps)].t
         IN  /\ IsTransport(w)
             /\ \A f \in {"RTP.u", "RTCP.u", "SOCKTYPE"} : w[f] = u[f]
<1> DEFINE n == Len(ps)
           a == Reading(u, pr, ps)
           F == {"RTP.u", "RTCP.u", "SOCKTYPE"}
           P(k) == IsReader(a[k]) /\ \A f \in F : a[k].t[f] = u[f]
           T == {k \in 0 .. n : P(k)}
<1>1. a[0] = [t |-> u, ok |-> TRUE] /\ \A k \in 1 .. n : a[k] = ReadParam(a[k - 1], pr, ps[k])
  BY ReadingIs
<1>2. \A i \in 1 .. n : ps[i].name = name => SamePair(u, r, c, ps[i].value)
  OBVIOUS
<1>3. n \in Nat
  OBVIOUS
<1> HIDE DEF a, n
<1>4. 0 \in T
  <2>1. IsReader(a[0]) /\ a[0].t = u
    BY <1>1 DEF IsReader
  <2> QED BY <1>3, <2>1
<1>5. ASSUME NEW k \in 0 .. n - 1, k \in T PROVE k + 1 \in T
  <2> DEFINE p == ps[k + 1]
  <2>1. k \in Nat /\ k + 1 \in 1 .. n /\ k + 1 \in 0 .. n /\ (k + 1) - 1 = k
    BY <1>3
  <2>2. P(k)
    BY <1>5
  <2>3. a[k + 1] = ReadParam(a[k], pr, p)
    BY <1>1, <2>1
  <2>4. p.name = name => SamePair(a[k].t, r, c, p.value)
    BY <1>2, <2>1, <2>2 DEF SamePair
  <2> HIDE DEF p
  <2>5. IsReader(a[k + 1]) /\ \A f \in F : a[k + 1].t[f] = a[k].t[f]
    BY <2>2, <2>3, <2>4, StreamStep
  <2> QED BY <2>1, <2>2, <2>5
<1>6. n \in T
  <2> HIDE DEF T
  <2>1. 0 .. n \subseteq T
    BY <1>3, <1>4, <1>5, UpTo
  <2> QED BY <1>3, <2>1
<1>7. P(n)
  BY <1>6
<1>8. IsTransport(a[n].t)
  BY <1>7 DEF IsReader
<1> QED BY <1>7, <1>8 DEF a, n

(* Whatever a header says, it leaves a transport. *)
LEMMA AnyStep ==
  ASSUME NEW pr \in {"UDP", "TCP", "SCTP"}, NEW u, IsReader(u), NEW p
  PROVE  IsReader(ReadParam(u, pr, p))
<1>0. ASSUME NEW x, IsReader(x), NEW par \in Parameters, NEW v PROVE IsReader(Store(x, par, v))
  BY <1>0, StoreIs
<1>1. CASE p.name \notin DOMAIN Understood(pr)
  BY <1>1, ReadNone
<1>2. ASSUME NEW par \in Parameters, p.name \in DOMAIN Understood(pr),
             Understood(pr)[p.name] = <<par>>
      PROVE  IsReader(ReadParam(u, pr, p))
  BY <1>0, <1>2, ReadOne
<1>3. ASSUME NEW a \in Parameters, NEW b \in Parameters, p.name \in DOMAIN Understood(pr),
             Understood(pr)[p.name] = <<a, b>>
      PROVE  IsReader(ReadParam(u, pr, p))
  <2>1. IsReader(Store(u, a, p.value[1]))
    BY <1>0
  <2>2. IsReader(Store(Store(u, a, p.value[1]), b, p.value[2]))
    BY <1>0, <2>1
  <2> QED BY <1>3, <2>2, ReadTwo
<1>4. /\ {"SRCADDR", "DSTADDR", "SSRC", "TTL", "LAYERS"} \subseteq Parameters
      /\ {"SRVRTP", "SRVRTCP", "ILVDRTP", "ILVDRTCP", "STREAMRTP", "STREAMRTCP"}
           \subseteq Parameters
  BY DEF Parameters, Singles
<1>5. CASE pr = "UDP"
  <2>1. Understood("UDP")["port"] = <<"SRVRTP", "SRVRTCP">>
    BY DEF Understood
  <2>2. CASE p.name \in {"server_port", "port"}
    BY <1>3, <1>4, <1>5, <2>1, <2>2, UnderstoodIs
  <2>3. CASE p.name \in {"source", "destination", "ssrc", "ttl", "layers"}
    BY <1>2, <1>4, <1>5, <2>3, UnderstoodIs
  <2> QED BY <1>1, <1>5, <2>2, <2>3, UnderstoodIs
<1>6. CASE pr = "TCP"
  <2>1. CASE p.name = "interleaved"
    BY <1>3, <1>4, <1>6, <2>1, UnderstoodIs
  <2>2. CASE p.name = "ssrc"
    BY <1>2, <1>4, <1>6, <2>2, UnderstoodIs
  <2> QED BY <1>1, <1>6, <2>1, <2>2, UnderstoodIs
<1>7. CASE pr = "SCTP"
  <2>1. CASE p.name = "server_streams"
    BY <1>3, <1>4, <1>7, <2>1, UnderstoodIs
  <2>2. CASE p.name = "ssrc"
    BY <1>2, <1>4, <1>7, <2>2, UnderstoodIs
  <2> QED BY <1>1, <1>7, <2>1, <2>2, UnderstoodIs
<1> QED BY <1>5, <1>6, <1>7

(* The parameters of a header are a sequence. *)
Readable(header) == header.params \in Seq({header.params[i] : i \in DOMAIN header.params})

LEMMA ReadableIs ==
  ASSUME NEW header, Readable(header)
  PROVE  Len(header.params) \in Nat /\ DOMAIN header.params = 1 .. Len(header.params)
<1> DEFINE S == {header.params[i] : i \in DOMAIN header.params}
<1>1. header.params \in Seq(S)
  BY DEF Readable
<1> HIDE DEF S
<1> QED BY <1>1

LEMMA AnyReads ==
  ASSUME NEW u, IsTransport(u), NEW header, Readable(header)
  PROVE  IsTransport(get_transport_str(u, header))
<1> DEFINE pr == header.proto
           ps == header.params
           n == Len(ps)
           x == [u EXCEPT !["SOCKTYPE"] = pr]
           a == Reading(x, pr, ps)
           T == {k \in 0 .. n : IsReader(a[k])}
<1>1. CASE pr \in {"UDP", "TCP", "SCTP"}
  <2>1. n \in Nat
    BY ReadableIs
  <2>2. IsTransport(x)
    BY DEF IsTransport, Members
  <2> HIDE DEF x
  <2>3. a[0] = [t |-> x, ok |-> TRUE] /\ \A k \in 1 .. n : a[k] = ReadParam(a[k - 1], pr, ps[k])
    BY <2>1, ReadingIs
  <2> HIDE DEF a
  <2>4. 0 \in T
    <3>1. IsReader(a[0])
      BY <2>2, <2>3 DEF IsReader
    <3> QED BY <2>1, <3>1
  <2>5. ASSUME NEW k \in 0 .. n - 1, k \in T PROVE k + 1 \in T
    <3>1. k + 1 \in 1 .. n /\ k + 1 \in 0 .. n /\ (k + 1) - 1 = k
      BY <2>1
    <3>2. a[k + 1] = ReadParam(a[k], pr, ps[k + 1])
      BY <2>3, <3>1
    <3>3. IsReader(a[k + 1])
      BY <1>1, <2>5, <3>2, AnyStep
    <3> QED BY <3>1, <3>3
  <2>6. n \in T
    <3> HIDE DEF T
    <3>1. 0 .. n \subseteq T
      BY <2>1, <2>4, <2>5, UpTo
    <3> QED BY <2>1, <3>1
  <2>7. IsTransport(a[n].t)
    BY <2>6 DEF IsReader
  <2>8. get_transport_str(u, header) = a[n].t
    BY <1>1 DEF get_transport_str, a, x
  <2> QED BY <2>7, <2>8
<1>2. CASE pr \notin {"UDP", "TCP", "SCTP"}
  BY <1>2 DEF get_transport_str
<1> QED BY <1>1, <1>2

-----------------------------------------------------------------------------
(* The library's side of SETUP. *)

(* The channels of a connection are octets: two for each medium. *)
Few == Cardinality(Media) <= 128

(* No port is hinted that is odd and has none above it. *)
NoHighHint == 65535 \notin Hints

(* The headers of the server are read as sequences of parameters. *)
AllReadable ==
  status = "offered" => \A header \in MayAnswer(offer[cur], cur) : Readable(header)

(* How many media the connection has sent a SETUP of. *)
Begun == IF status = "answered" THEN cur - 1
         ELSE IF status \in {"offered", "ready"} THEN cur ELSE 0

(* The entry that a medium has in the list. *)
First(m) == 2 * (m - 1) + (IF proto = "SCTP" THEN 1 ELSE 0)
Entry(m) == [med |-> m, rtp |-> First(m), rtcp |-> First(m) + 1]
IsPlaced(q) == Len(q) \in Nat /\ q = [i \in 1 .. Len(q) |-> Entry(Len(q) + 1 - i)]

Tables == /\ transport = [m \in Media |-> transport[m]]
          /\ \A m \in Media : IsTransport(transport[m])

Numbered ==
  /\ hint \in Hints /\ proto \in Protocols
  /\ force \in Nat /\ force < 65535
  /\ cur \in Media /\ opened \in Nat
  /\ status \in {"closed", "offered", "answered", "ready", "undefined"}
  /\ status = "ready" => cur = Cardinality(Media)
  /\ rtp_th \in {"idle", "running", "freed"}

(* The list has the entries of the media set up, the last one first. *)
Placed ==
  /\ IsPlaced(interleaved) /\ nextCh = 2 * Len(interleaved)
  /\ Len(interleaved) <= Cardinality(Media)
  /\ proto = "UDP" => interleaved = <<>>
  /\ proto # "UDP" /\ status # "undefined" => Len(interleaved) = Begun

(* Sockets of a connection are those of media whose SETUP was sent on it. *)
Sockets ==
  /\ EvenPair
  /\ \A s \in bound : s.conn \in Nat /\ s.conn <= opened /\ s.med \in Media
  /\ status \in {"answered", "offered", "ready"} =>
       \A s \in bound : s.conn = opened => s.med <= Begun

OInv == Numbered /\ Tables /\ Placed /\ Sockets

LEMMA Uint16Is == \A x : x \in Uint16 <=> x \in Int /\ 0 <= x /\ x < 65536
BY DEF Uint16

LEMMA MediaAre ==
  /\ Cardinality(Media) \in Nat /\ Cardinality(Media) >= 1
  /\ \A m : m \in Media <=> m \in Nat /\ 1 <= m /\ m <= Cardinality(Media)
  /\ 1 \in Media
<1>0. IsFiniteSet(Media) /\ Media # {} /\ Media = 1 .. Cardinality(Media)
  BY SetupAssumption
<1>1. Cardinality(Media) \in Nat /\ Media = 1 .. Cardinality(Media) /\ Media # {}
  BY <1>0, FS_CardinalityType
<1> DEFINE n == Cardinality(Media)
<1> HIDE DEF n
<1>2. n \in Nat /\ Media = 1 .. n /\ Media # {}
  BY <1>1 DEF n
<1>3. n >= 1
  BY <1>2
<1> QED BY <1>2, <1>3 DEF n

LEMMA EvenIs ==
  ASSUME NEW p \in Nat, p < 65535
  PROVE  /\ Even(p) \in Nat /\ Even(p) < 65535 /\ Even(p) % 2 = 0
         /\ p # 0 => Even(p) # 0
<1>1. CASE p % 2 = 0
  <2>1. Even(p) = p
    BY <1>1 DEF Even
  <2> QED BY <1>1, <2>1
<1>2. CASE p % 2 = 1
  <2>1. p + 1 \in Nat /\ p + 1 < 65535 /\ (p + 1) % 2 = 0
    BY <1>2
  <2>2. Even(p) = p + 1
    BY <1>2, <2>1 DEF Even
  <2> QED BY <2>1, <2>2
<1> QED BY <1>1, <1>2

LEMMA FreshIs ==
  ASSUME NEW m
  PROVE  LET u == Fresh(Peer, Local, m)
         IN  /\ IsTransport(u)
             /\ u["SRVRTP"] = 0 /\ u["SRVRTCP"] = 0 /\ u["TTL"] = 0
             /\ u["SRCHOST"] = Peer /\ u["SSRC"] = m
<1> DEFINE z == [f \in Members |->
                   CASE f = "SPEC"     -> "RTP/AVP"
                     [] f = "SOCKTYPE" -> "NONE"
                     [] f = "DELIVERY" -> "unicast"
                     [] f = "MODE"     -> "play"
                     [] f = "SSRC"     -> m
                     [] OTHER -> 0]
           x == rtp_transport_set(z, "SRCADDR", Peer)
           u == rtp_transport_set(x, "DSTADDR", Local)
           Kept == {"SRVRTP", "SRVRTCP", "TTL", "SSRC"}
<1>1. /\ IsTransport(z) /\ z["SRVRTP"] = 0 /\ z["SRVRTCP"] = 0 /\ z["TTL"] = 0
      /\ z["SSRC"] = m
  BY DEF IsTransport, Members
<1>2. Kept \cup {"SRCHOST"} \subseteq Members /\ Peer # 0
  BY DEF Members, Peer
<1>3. u = Fresh(Peer, Local, m)
  BY DEF Fresh
<1> HIDE DEF z
<1>4. /\ IsTransport(x) /\ x["SRCHOST"] = Peer
      /\ \A f \in Members \ {"RTP.u", "SRCHOST"} : x[f] = z[f]
  BY <1>1, <1>2, SourceSet
<1> HIDE DEF x
<1>5. IsTransport(u) /\ \A f \in Members \ {"DSTFAMILY", "DSTHOST"} : u[f] = x[f]
  BY <1>4, DestinationSet
<1> HIDE DEF u
<1>6. u["SRCHOST"] = Peer /\ \A f \in Kept : u[f] = z[f]
  BY <1>2, <1>4, <1>5
<1> QED BY <1>1, <1>3, <1>5, <1>6
(* A list with the entries of the first media, in front of which the next one's is put. *)
LEMMA PlacedGrows ==
  ASSUME NEW q, IsPlaced(q), NEW e, e = Entry(Len(q) + 1)
  PROVE  IsPlaced(<<e>> \o q) /\ Len(<<e>> \o q) = Len(q) + 1
<1> DEFINE n == Len(q)
           S == {q[i] : i \in 1 .. n}
           w == <<e>> \o q
<1>1. n \in Nat /\ q = [i \in 1 .. n |-> q[i]] /\ \A i \in 1 .. n : q[i] = Entry(n + 1 - i)
  BY DEF IsPlaced
<1>2. q \in Seq(S)
  BY <1>1
<1>3. e \in S \cup {e} /\ q \in Seq(S \cup {e}) /\ <<e>> \in Seq(S \cup {e})
  BY <1>1, <1>2
<1> HIDE DEF S
<1>4. w \in Seq(S \cup {e}) /\ Len(w) = n + 1
  BY <1>3
<1>5. w[1] = e /\ \A i \in 2 .. n + 1 : w[i] = q[i - 1]
  BY <1>1, <1>3
<1> HIDE DEF w
<1>6. ASSUME NEW i \in 1 .. n + 1 PROVE w[i] = Entry(n + 2 - i)
  <2>1. CASE i = 1
    <3>1. n + 2 - 1 = n + 1
      BY <1>1
    <3> QED BY <1>5, <2>1, <3>1
  <2>2. CASE i # 1
    <3>1. i \in 2 .. n + 1 /\ i - 1 \in 1 .. n /\ n + 1 - (i - 1) = n + 2 - i
      BY <1>1, <2>2
    <3> QED BY <1>1, <1>5, <3>1
  <2> QED BY <2>1, <2>2
<1>7. w = [i \in 1 .. n + 1 |-> w[i]]
  BY <1>1, <1>4
<1>8. \A i \in 1 .. n + 1 : w[i] = Entry((n + 1) + 1 - i)
  <2>1. \A i \in 1 .. n + 1 : (n + 1) + 1 - i = n + 2 - i
    BY <1>1
  <2> QED BY <1>6, <2>1
<1>9. IsPlaced(w)
  <2>1. w = [i \in 1 .. n + 1 |-> Entry((n + 1) + 1 - i)]
    BY <1>7, <1>8
  <2> QED BY <1>1, <1>4, <2>1 DEF IsPlaced
<1> QED BY <1>4, <1>9 DEF w

LEMMA NoneAreInPlace == IsPlaced(<<>>) /\ Len(<<>>) = 0
BY DEF IsPlaced

(* The table of transports after one is replaced. *)
LEMMA OneReplaced ==
  ASSUME Tables, NEW m \in Media, NEW u, IsTransport(u),
         transport' = [transport EXCEPT ![m] = u]
  PROVE  /\ Tables' /\ transport'[m] = u
         /\ \A k \in Media \ {m} : transport'[k] = transport[k]
<1>1. DOMAIN transport = Media
  BY DEF Tables
<1>2. transport'[m] = u /\ \A k \in Media \ {m} : transport'[k] = transport[k]
  BY <1>1
<1>3. transport' = [k \in Media |-> transport'[k]]
  BY <1>1
<1>4. \A k \in Media : IsTransport(transport'[k])
  BY <1>2 DEF Tables
<1> QED BY <1>2, <1>3, <1>4 DEF Tables

LEMMA AllFresh ==
  ASSUME transport' = [m \in Media |-> Fresh(Peer, Local, m)]
  PROVE  Tables'
<1>1. \A m \in Media : IsTransport(transport'[m])
  BY FreshIs
<1> QED BY <1>1 DEF Tables

(* The list of channels is in place whatever else changes. *)
LEMMA SameProto ==
  ASSUME proto' = proto
  PROVE  \A q : IsPlaced(q)' <=> IsPlaced(q)
<1>1. \A m : Entry(m)' = Entry(m)
  BY DEF Entry, First
<1> QED BY <1>1 DEF IsPlaced

LEMMA StillPlaced ==
  ASSUME proto' = proto, interleaved' = interleaved
  PROVE  IsPlaced(interleaved)' <=> IsPlaced(interleaved)
BY SameProto DEF IsPlaced

LEMMA OInit ==
  ASSUME NoHighHint, SetupInit PROVE OInv
<1>1. Numbered
  <2>1. hint \in Hints /\ proto \in Protocols /\ cur = 1 /\ status = "closed"
        /\ rtp_th = "idle" /\ opened = 0
    BY DEF SetupInit
  <2>2. force \in Nat /\ force < 65535
    <3>1. CASE hint = NoHints
      BY <3>1 DEF SetupInit
    <3>2. CASE hint # NoHints
      <4>1. hint \in Uint16 /\ hint # 65535 /\ force = hint
        BY <2>1, <3>2, SetupAssumption DEF NoHighHint, SetupInit
      <4> QED BY <4>1, Uint16Is
    <3> QED BY <3>1, <3>2
  <2> QED BY <2>1, <2>2, MediaAre DEF Numbered
<1>2. Tables
  <2>1. transport = [m \in Media |-> Fresh(Peer, Local, m)]
    BY DEF SetupInit
  <2>2. \A m \in Media : IsTransport(transport[m])
    BY <2>1, FreshIs
  <2> QED BY <2>1, <2>2 DEF Tables
<1>3. Placed
  BY NoneAreInPlace, MediaAre DEF SetupInit, Placed, Begun
<1>4. Sockets
  BY DEF SetupInit, Sockets, EvenPair
<1> QED BY <1>1, <1>2, <1>3, <1>4 DEF OInv

LEMMA OpenKeeps ==
  ASSUME OInv, Open PROVE OInv'
<1>1. /\ status = "closed" /\ opened' = opened + 1 /\ cur' = 1
      /\ status' \in {"undefined", "answered"}
      /\ transport' = [m \in Media |-> Fresh(Peer, Local, m)]
      /\ UNCHANGED <<hint, proto, force, nextCh, interleaved, bound, rtp_th>>
  BY DEF Open
<1>2. Numbered'
  BY <1>1, MediaAre DEF OInv, Numbered
<1>3. Tables'
  BY <1>1, AllFresh
<1>4. Placed'
  <2>1. IsPlaced(interleaved)' <=> IsPlaced(interleaved)
    BY <1>1, StillPlaced
  <2>2. Begun = 0 /\ (status' # "undefined" => Begun' = 0)
    BY <1>1 DEF Begun
  <2> QED BY <1>1, <2>1, <2>2 DEF OInv, Placed
<1>5. Sockets'
  <2>1. EvenPair' <=> EvenPair
    BY <1>1 DEF EvenPair
  <2>2. opened \in Nat
    BY DEF OInv, Numbered
  <2> QED BY <1>1, <2>1, <2>2 DEF OInv, Sockets
<1> QED BY <1>2, <1>3, <1>4, <1>5 DEF OInv

LEMMA AnswerKeeps ==
  ASSUME OInv, AllReadable,
         NEW header \in MayAnswer(offer[cur], cur), handle_setup_response(header)
  PROVE  OInv'
<1>1. /\ status = "offered" /\ status' \in {"answered", "ready"}
      /\ UNCHANGED <<hint, proto, force, nextCh, interleaved, bound, opened>>
  BY DEF handle_setup_response
<1>2. /\ status' = "answered" => cur' = cur + 1 /\ cur + 1 \in Media /\ rtp_th' = rtp_th
      /\ status' = "ready" => cur' = cur /\ cur + 1 \notin Media /\ rtp_th' = "running"
  BY DEF handle_setup_response
<1>3. Numbered'
  <2>1. status' = "ready" => cur' = Cardinality(Media)
    BY <1>2, MediaAre DEF OInv, Numbered
  <2> QED BY <1>1, <1>2, <2>1 DEF OInv, Numbered
<1>4. Tables'
  <2>1. transport' = [transport EXCEPT ![cur] = get_transport_str(transport[cur], header)]
    BY DEF handle_setup_response
  <2>2. cur \in Media /\ IsTransport(transport[cur]) /\ Tables
    BY DEF OInv, Numbered, Tables
  <2>3. IsTransport(get_transport_str(transport[cur], header))
    BY <1>1, <2>2, AnyReads DEF AllReadable
  <2> QED BY <2>1, <2>2, <2>3, OneReplaced
<1>5. Begun' = Begun
  BY <1>1, <1>2, MediaAre DEF Begun, OInv, Numbered
<1>6. Placed'
  <2>1. IsPlaced(interleaved)' <=> IsPlaced(interleaved)
    BY <1>1, StillPlaced
  <2> QED BY <1>1, <1>5, <2>1 DEF OInv, Placed
<1>7. Sockets'
  <2>1. EvenPair' <=> EvenPair
    BY <1>1 DEF EvenPair
  <2> QED BY <1>1, <1>5, <2>1 DEF OInv, Sockets
<1> QED BY <1>3, <1>4, <1>6, <1>7 DEF OInv

LEMMA ReinitKeeps ==
  ASSUME NoHighHint, OInv, rtsp_reinit PROVE OInv'
<1>1. /\ status' \in {"closed", "undefined"} /\ cur' = 1
      /\ bound' \in {{}, bound} /\ rtp_th' \in {rtp_th, "freed"}
      /\ transport' = [m \in Media |-> Fresh(Peer, Local, m)]
      /\ UNCHANGED <<hint, proto, opened>>
  BY DEF rtsp_reinit, Cleaned
<1>2. \/ force' = force /\ interleaved' = interleaved /\ nextCh' = nextCh
         /\ status' = "undefined"
      \/ force' = Even(hint) /\ interleaved' = <<>> /\ nextCh' = 0 /\ hint # NoHints
  BY DEF rtsp_reinit, Cleaned
<1>3. Numbered'
  <2>1. force' \in Nat /\ force' < 65535
    <3>1. hint # NoHints => hint \in Uint16 /\ hint # 65535
      BY SetupAssumption DEF NoHighHint, OInv, Numbered
    <3>2. hint # NoHints => Even(hint) \in Nat /\ Even(hint) < 65535
      BY <3>1, Uint16Is, EvenIs
    <3> QED BY <1>2, <3>2 DEF OInv, Numbered
  <2> QED BY <1>1, <2>1, MediaAre DEF OInv, Numbered
<1>4. Tables'
  BY <1>1, AllFresh
<1>5. Placed'
  <2>1. \A q : IsPlaced(q)' <=> IsPlaced(q)
    BY <1>1, SameProto
  <2>2. status' = "closed" => Begun' = 0
    BY DEF Begun
  <2>3. CASE interleaved' = interleaved /\ nextCh' = nextCh /\ status' = "undefined"
    <3>1. IsPlaced(interleaved)'
      BY <1>1, <2>3, StillPlaced DEF OInv, Placed
    <3> QED BY <1>1, <2>3, <3>1 DEF OInv, Placed
  <2>4. CASE interleaved' = <<>> /\ nextCh' = 0
    <3>1. IsPlaced(interleaved)' /\ Len(interleaved') = 0
      BY <2>1, <2>4, NoneAreInPlace DEF IsPlaced
    <3> QED BY <1>1, <2>2, <2>4, <3>1, MediaAre DEF Placed
  <2> QED BY <1>2, <2>3, <2>4
<1>6. Sockets'
  <2>1. EvenPair'
    BY <1>1 DEF EvenPair, OInv, Sockets
  <2> QED BY <1>1, <2>1 DEF OInv, Sockets
<1> QED BY <1>3, <1>4, <1>5, <1>6 DEF OInv
(* What a SETUP request does to the transport of its medium. *)
AskFor(v, type, par, pair) ==
  rtp_transport_set([v EXCEPT !["SOCKTYPE"] = type], par, pair)

LEMMA AskedIs ==
  \A v, type, par, pair :
    IsTransport(v) /\ par \in PairNames =>
      LET u == AskFor(v, type, par, pair)
          a == MemberOf(Pairs[par][1])
          b == MemberOf(Pairs[par][2])
      IN  /\ IsTransport(u) /\ u["SOCKTYPE"] = type /\ u[a] = pair[1] /\ u[b] = pair[2]
          /\ \A f \in Members \ {"SOCKTYPE", a, b} : u[f] = v[f]
<1> TAKE v, type, par, pair
<1> DEFINE x == [v EXCEPT !["SOCKTYPE"] = type]
           u == AskFor(v, type, par, pair)
           a == MemberOf(Pairs[par][1])
           b == MemberOf(Pairs[par][2])
<1> SUFFICES ASSUME IsTransport(v), par \in PairNames
             PROVE  /\ IsTransport(u) /\ u["SOCKTYPE"] = type
                    /\ u[a] = pair[1] /\ u[b] = pair[2]
                    /\ \A f \in Members \ {"SOCKTYPE", a, b} : u[f] = v[f]
  OBVIOUS
<1>1. "SOCKTYPE" \in Members \ {a, b}
  BY PairMembers, MembersOf, PairsAre DEF Members, PairNames
<1>2. /\ IsTransport(x) /\ x["SOCKTYPE"] = type
      /\ \A f \in Members \ {"SOCKTYPE"} : x[f] = v[f]
  BY <1>1 DEF IsTransport
<1>3. u = rtp_transport_set(x, par, pair)
  BY DEF AskFor
<1> HIDE DEF x, u
<1>4. /\ IsTransport(u) /\ u[a] = pair[1] /\ u[b] = pair[2]
      /\ \A f \in Members \ {a, b} : u[f] = x[f]
  BY <1>2, <1>3, PairSet
<1> HIDE DEF a, b
<1> QED BY <1>1, <1>2, <1>4

(* A port that SETUP chooses is even, and has one above it. *)
LEMMA ChosenIs ==
  ASSUME Numbered, NEW port \in Chosen
  PROVE  port \in Nat /\ port # 0 /\ port < 65535 /\ port % 2 = 0
<1>1. CASE force = 0
  <2>1. PICK r \in RandomPorts : port = Even(r)
    BY <1>1 DEF Chosen
  <2>2. r \in Nat /\ r > 5000 /\ r < 65535
    BY SetupAssumption, Uint16Is
  <2> QED BY <2>1, <2>2, EvenIs
<1>2. CASE force # 0
  BY <1>2, EvenIs DEF Chosen, Numbered
<1> QED BY <1>1, <1>2

LEMMA NextForceIs ==
  ASSUME Numbered PROVE NextForce \in Nat /\ NextForce < 65535
<1>1. Even(force) \in Nat /\ Even(force) < 65535 /\ Even(force) % 2 = 0
  BY EvenIs DEF Numbered
<1> DEFINE e == Even(force)
<1>2. NextForce = IF e = 0 THEN 0 ELSE (e + 2) % 65536
  BY DEF NextForce
<1> HIDE DEF e
<1>3. e \in Nat /\ e < 65535 /\ e % 2 = 0
  BY <1>1 DEF e
<1>4. e + 2 = 65536 \/ e + 2 < 65535
  BY <1>3
<1>5. CASE e + 2 = 65536
  BY <1>2, <1>3, <1>5
<1>6. CASE e + 2 < 65535
  <2>1. (e + 2) % 65536 = e + 2
    BY <1>3, <1>6
  <2> QED BY <1>2, <1>3, <1>6, <2>1
<1> QED BY <1>4, <1>5, <1>6

(* A socket has the port asked for, or none. *)
LEMMA BindIs ==
  ASSUME NEW port, port # 0, NEW taken, NEW s \in Bind(port, taken)
  PROVE  s.bound \in {0, port}
BY DEF Bind

(* The part of a SETUP request that is the same for every protocol. *)
Requested ==
  /\ status = "answered" /\ status' = "offered"
  /\ UNCHANGED <<hint, proto, cur, rtp_th, answer, opened>>

LEMMA UdpKeeps ==
  ASSUME OInv, Requested, proto = "UDP", SetupUdp PROVE OInv'
<1>1. PICK port \in Chosen : 
        /\ \E rtp \in Bind(port, Taken) :
           \E rtcp \in Bind(port + 1, Taken \cup {rtp.bound}) :
             LET u == rtp_transport_set([transport[cur] EXCEPT !["SOCKTYPE"] = "UDP"],
                                        "CLIPORTS", <<rtp.read, rtcp.read>>)
             IN  /\ transport' = [transport EXCEPT ![cur] = u]
                 /\ bound' = bound \cup
                      {s \in {Socket("rtp", rtp.bound), Socket("rtcp", rtcp.bound)} :
                         s.port # 0}
        /\ force' = NextForce
        /\ UNCHANGED <<nextCh, interleaved>>
  BY DEF SetupUdp
<1>2. PICK rtp \in Bind(port, Taken) :
        \E rtcp \in Bind(port + 1, Taken \cup {rtp.bound}) :
             LET u == rtp_transport_set([transport[cur] EXCEPT !["SOCKTYPE"] = "UDP"],
                                        "CLIPORTS", <<rtp.read, rtcp.read>>)
             IN  /\ transport' = [transport EXCEPT ![cur] = u]
                 /\ bound' = bound \cup
                      {s \in {Socket("rtp", rtp.bound), Socket("rtcp", rtcp.bound)} :
                         s.port # 0}
  BY <1>1
<1>3. PICK rtcp \in Bind(port + 1, Taken \cup {rtp.bound}) :
             LET u == rtp_transport_set([transport[cur] EXCEPT !["SOCKTYPE"] = "UDP"],
                                        "CLIPORTS", <<rtp.read, rtcp.read>>)
             IN  /\ transport' = [transport EXCEPT ![cur] = u]
                 /\ bound' = bound \cup
                      {s \in {Socket("rtp", rtp.bound), Socket("rtcp", rtcp.bound)} :
                         s.port # 0}
  BY <1>2
<1> DEFINE u == rtp_transport_set([transport[cur] EXCEPT !["SOCKTYPE"] = "UDP"],
                                  "CLIPORTS", <<rtp.read, rtcp.read>>)
           new == {s \in {Socket("rtp", rtp.bound), Socket("rtcp", rtcp.bound)} : s.port # 0}
<1>4. transport' = [transport EXCEPT ![cur] = u] /\ bound' = bound \cup new
  BY <1>3
<1>5. Numbered /\ cur \in Media /\ Tables /\ IsTransport(transport[cur]) /\ opened \in Nat
  BY DEF OInv, Numbered, Tables
<1>6. port \in Nat /\ port # 0 /\ port % 2 = 0
  BY <1>5, ChosenIs
<1>7. rtp.bound \in {0, port} /\ rtcp.bound \in {0, port + 1}
  BY <1>6, BindIs
<1>8. \A s \in new : /\ s.conn = opened /\ s.med = cur
                     /\ s.kind = "rtp" => s.port = port
                     /\ s.kind = "rtcp" => s.port = port + 1
  BY <1>7 DEF Socket
<1> HIDE DEF u, new
<1>9. Numbered'
  BY <1>1, <1>5, NextForceIs DEF Requested, Numbered
<1>10. Tables'
  <2>1. IsTransport(u)
    <3>1. u = AskFor(transport[cur], "UDP", "CLIPORTS", <<rtp.read, rtcp.read>>)
      BY DEF u, AskFor
    <3>2. "CLIPORTS" \in PairNames
      BY DEF PairNames
    <3> QED BY <1>5, <3>1, <3>2, AskedIs
  <2> QED BY <1>4, <1>5, <2>1, OneReplaced
<1>11. Placed'
  <2>1. IsPlaced(interleaved)' <=> IsPlaced(interleaved)
    <3>1. proto' = proto /\ interleaved' = interleaved
      BY <1>1 DEF Requested
    <3> QED BY <3>1, StillPlaced
  <2>2. Placed /\ UNCHANGED <<nextCh, interleaved>> /\ proto' = "UDP"
    BY <1>1 DEF OInv, Requested
  <2> QED BY <2>1, <2>2 DEF Placed
<1>12. Sockets'
  <2>1. Begun = cur - 1 /\ Begun' = cur
    BY DEF Begun, Requested
  <2>2. cur \in Nat
    BY <1>5, MediaAre
  <2>3. \A s \in bound : s.conn = opened => s.med \in Nat /\ s.med < cur
    BY <2>1, <2>2, MediaAre DEF OInv, Sockets, Requested
  <2>4. EvenPair'
    <3>1. ASSUME NEW a \in bound', NEW b \in bound', a.conn = b.conn, a.med = b.med,
                 a.kind = "rtp", b.kind = "rtcp"
          PROVE  a.port % 2 = 0 /\ b.port = a.port + 1
      <4>1. CASE a \in bound /\ b \in bound
        BY <3>1, <4>1 DEF OInv, Sockets, EvenPair
      <4>2. CASE a \in new /\ b \in new
        BY <1>6, <1>8, <3>1, <4>2
      <4>3. CASE a \in new /\ b \in bound
        BY <1>8, <2>2, <2>3, <3>1, <4>3
      <4>4. CASE a \in bound /\ b \in new
        BY <1>8, <2>2, <2>3, <3>1, <4>4
      <4> QED BY <1>4, <4>1, <4>2, <4>3, <4>4
    <3> QED BY <3>1 DEF EvenPair
  <2>5. \A s \in bound' : /\ s.conn \in Nat /\ s.conn <= opened' /\ s.med \in Media
                          /\ s.conn = opened' => s.med <= Begun'
    <3>1. \A s \in bound : s.conn \in Nat /\ s.conn <= opened /\ s.med \in Media
      BY DEF OInv, Sockets
    <3>2. opened' = opened
      BY DEF Requested
    <3> QED BY <1>4, <1>5, <1>8, <2>1, <2>2, <2>3, <3>1, <3>2
  <2> QED BY <2>4, <2>5 DEF Sockets
<1> QED BY <1>9, <1>10, <1>11, <1>12 DEF OInv
(* A list of entries, its next channel and how many they are, for TCP and SCTP. *)
LEMMA StreamPlaced ==
  ASSUME Placed, Requested, cur \in Media, Few, proto \in {"TCP", "SCTP"}
  PROVE  /\ nextCh = 2 * (cur - 1) /\ Len(interleaved) = cur - 1
         /\ IsPlaced(<<Entry(cur)>> \o interleaved)
         /\ Len(<<Entry(cur)>> \o interleaved) = cur
<1>1. Len(interleaved) = cur - 1 /\ nextCh = 2 * (cur - 1) /\ IsPlaced(interleaved)
  BY DEF Placed, Begun, Requested
<1>2. cur \in Nat /\ (cur - 1) + 1 = cur
  BY MediaAre
<1>3. Entry(Len(interleaved) + 1) = Entry(cur)
  BY <1>1, <1>2
<1> QED BY <1>1, <1>2, <1>3, PlacedGrows

(* A SETUP request over the connection: the transport becomes u, whose channels are the
   medium's own. *)
Placing(u) ==
  /\ IsTransport(u) /\ transport' = [transport EXCEPT ![cur] = u]
  /\ interleaved' = <<Entry(cur)>> \o interleaved
  /\ nextCh' = (nextCh + 2) % 65536
  /\ UNCHANGED <<force, bound>>

LEMMA StreamPlaces ==
  ASSUME OInv, NEW type, NEW par \in PairNames, NEW pair, SetupStream(type, par, pair),
         NEW u, u = rtp_transport_set([transport[cur] EXCEPT !["SOCKTYPE"] = type], par, pair),
         Get(u, par) = <<First(cur), First(cur) + 1>>
  PROVE  Placing(u)
<1>1. /\ transport' = [transport EXCEPT ![cur] = u]
      /\ interleaved' = <<[med |-> cur, rtp |-> Get(u, par)[1],
                           rtcp |-> Get(u, par)[2]]>> \o interleaved
      /\ nextCh' = (nextCh + 2) % 65536
      /\ UNCHANGED <<force, bound>>
  BY DEF SetupStream
<1>2. Get(u, par)[1] = First(cur) /\ Get(u, par)[2] = First(cur) + 1
  OBVIOUS
<1>3. interleaved' = <<Entry(cur)>> \o interleaved
  BY <1>1, <1>2 DEF Entry
<1>4. IsTransport(u)
  <2>1. u = AskFor(transport[cur], type, par, pair)
    BY DEF AskFor
  <2>2. IsTransport(transport[cur])
    BY DEF OInv, Numbered, Tables
  <2> QED BY <2>1, <2>2, AskedIs
<1> QED BY <1>1, <1>3, <1>4 DEF Placing

LEMMA StreamKeeps ==
  ASSUME OInv, Few, Requested, proto \in {"TCP", "SCTP"}, NEW u, Placing(u)
  PROVE  OInv'
<1>1. interleaved' = <<Entry(cur)>> \o interleaved
  BY DEF Placing
<1>2. nextCh' = (nextCh + 2) % 65536
  BY DEF Placing
<1>3. Numbered /\ Placed /\ Sockets /\ Tables /\ cur \in Media
  BY DEF OInv, Numbered
<1>4. UNCHANGED <<hint, proto, force, cur, opened, rtp_th, bound>> /\ status' = "offered"
  BY DEF Requested, Placing
<1>5. Numbered'
  BY <1>3, <1>4 DEF Numbered
<1>6. Tables'
  <2>1. IsTransport(u) /\ transport' = [transport EXCEPT ![cur] = u]
    BY DEF Placing
  <2> QED BY <1>3, <2>1, OneReplaced
<1>7. Begun = cur - 1 /\ Begun' = cur /\ cur \in Nat /\ cur <= Cardinality(Media) /\ cur <= 128
  BY <1>3, MediaAre DEF Begun, Requested, Few
<1>8. Placed'
  <2>1. /\ nextCh = 2 * (cur - 1) /\ IsPlaced(interleaved') /\ Len(interleaved') = cur
    BY <1>1, <1>3, StreamPlaced
  <2>2. nextCh' = 2 * cur
    <3>1. nextCh + 2 = 2 * cur /\ 2 * cur \in Nat /\ 2 * cur < 65536
      BY <1>7, <2>1
    <3>2. nextCh' = (2 * cur) % 65536
      BY <1>2, <3>1
    <3>3. \A x \in Nat : x < 65536 => x % 65536 = x
      OBVIOUS
    <3> QED BY <3>1, <3>2, <3>3
  <2>3. IsPlaced(interleaved)'
    BY <1>4, <2>1, SameProto DEF IsPlaced
  <2>4. proto' \in {"TCP", "SCTP"} /\ Cardinality(Media) \in Nat
    BY MediaAre DEF Requested
  <2> QED BY <1>7, <2>1, <2>2, <2>3, <2>4 DEF Placed
<1>9. Sockets'
  <2>1. EvenPair' <=> EvenPair
    BY <1>4 DEF EvenPair
  <2>2. \A s \in bound : s.conn = opened => s.med \in Nat /\ s.med <= cur
    BY <1>3, <1>7, MediaAre DEF Sockets, Requested
  <2> QED BY <1>3, <1>4, <1>7, <2>1, <2>2 DEF Sockets
<1> QED BY <1>5, <1>6, <1>8, <1>9 DEF OInv

(* The channels of the current medium are what the transport then holds. *)
LEMMA ChannelsHeld ==
  ASSUME OInv, Few, Requested, proto = "TCP"
  PROVE  LET u == rtp_transport_set([transport[cur] EXCEPT !["SOCKTYPE"] = "TCP"],
                                    "INTERLEAVED", Channels(nextCh))
         IN  /\ u["RTP.u"] = First(cur) /\ u["RTCP.u"] = First(cur) + 1
             /\ Get(u, "INTERLEAVED") = <<First(cur), First(cur) + 1>>
<1> DEFINE pair == Channels(nextCh)
           u == rtp_transport_set([transport[cur] EXCEPT !["SOCKTYPE"] = "TCP"],
                                  "INTERLEAVED", pair)
           f == 2 * (cur - 1)
<1>1. cur \in Media /\ IsTransport(transport[cur]) /\ Placed
  BY DEF OInv, Numbered, Tables
<1>2. f \in Nat /\ f + 1 < 256 /\ First(cur) = f
  BY <1>1, MediaAre DEF Few, First
<1>3. nextCh = f
  BY <1>1, StreamPlaced
<1> HIDE DEF f
<1>4. pair[1] = f /\ pair[2] = f + 1
  BY <1>2, <1>3 DEF Channels
<1> HIDE DEF pair
<1>5. u["RTP.u"] = pair[1] /\ u["RTCP.u"] = pair[2]
  <2>1. "INTERLEAVED" \in PairNames
    BY DEF PairNames
  <2>2. /\ MemberOf(Pairs["INTERLEAVED"][1]) = "RTP.u"
        /\ MemberOf(Pairs["INTERLEAVED"][2]) = "RTCP.u"
    BY PairsAre, MembersOf
  <2>3. /\ u[MemberOf(Pairs["INTERLEAVED"][1])] = pair[1]
        /\ u[MemberOf(Pairs["INTERLEAVED"][2])] = pair[2]
    <3>1. u = AskFor(transport[cur], "TCP", "INTERLEAVED", pair)
      BY DEF AskFor
    <3> HIDE DEF u
    <3> QED BY <1>1, <2>1, <3>1, AskedIs
  <2> HIDE DEF u
  <2> QED BY <2>2, <2>3
<1> HIDE DEF u
<1>6. Get(u, "INTERLEAVED") = <<u["RTP.u"] % 256, u["RTCP.u"] % 256>>
  BY GetPair, PairsAre, MembersOf DEF PairNames, Value
<1> QED BY <1>2, <1>4, <1>5, <1>6 DEF u, pair

LEMMA StreamsHeld ==
  ASSUME OInv, Few, Requested, proto = "SCTP"
  PROVE  LET u == rtp_transport_set([transport[cur] EXCEPT !["SOCKTYPE"] = "SCTP"],
                                    "STREAMS", Streams(nextCh))
         IN  /\ u["RTP.u"] = First(cur) /\ u["RTCP.u"] = First(cur) + 1
             /\ Get(u, "STREAMS") = <<First(cur), First(cur) + 1>>
<1> DEFINE pair == Streams(nextCh)
           u == rtp_transport_set([transport[cur] EXCEPT !["SOCKTYPE"] = "SCTP"],
                                  "STREAMS", pair)
           f == 2 * (cur - 1)
<1>1. cur \in Media /\ IsTransport(transport[cur]) /\ Placed
  BY DEF OInv, Numbered, Tables
<1>2. f \in Nat /\ f + 1 < 256 /\ First(cur) = f + 1
  BY <1>1, MediaAre DEF Few, First
<1>3. nextCh = f
  BY <1>1, StreamPlaced
<1> HIDE DEF f
<1>4. pair[1] = f + 1 /\ pair[2] = (f + 1) + 1
  BY <1>2, <1>3 DEF Streams
<1> HIDE DEF pair
<1>5. u["RTP.u"] = pair[1] /\ u["RTCP.u"] = pair[2]
  <2>1. "STREAMS" \in PairNames
    BY DEF PairNames
  <2>2. /\ MemberOf(Pairs["STREAMS"][1]) = "RTP.u"
        /\ MemberOf(Pairs["STREAMS"][2]) = "RTCP.u"
    BY PairsAre, MembersOf
  <2>3. /\ u[MemberOf(Pairs["STREAMS"][1])] = pair[1]
        /\ u[MemberOf(Pairs["STREAMS"][2])] = pair[2]
    <3>1. u = AskFor(transport[cur], "SCTP", "STREAMS", pair)
      BY DEF AskFor
    <3> HIDE DEF u
    <3> QED BY <1>1, <2>1, <3>1, AskedIs
  <2> HIDE DEF u
  <2> QED BY <2>2, <2>3
<1> HIDE DEF u
<1>6. Get(u, "STREAMS") = <<u["RTP.u"], u["RTCP.u"]>>
  BY GetPair, PairsAre, MembersOf DEF PairNames, Value
<1> QED BY <1>2, <1>4, <1>5, <1>6 DEF u, pair

LEMMA RequestKeeps ==
  ASSUME OInv, Few, send_setup_request PROVE OInv'
<1>1. Requested
  BY DEF send_setup_request, Requested
<1>2. proto \in {"UDP", "TCP", "SCTP"}
  BY SetupAssumption DEF OInv, Numbered
<1>3. CASE proto = "UDP"
  <2>1. SetupUdp
    BY <1>3 DEF send_setup_request
  <2> QED BY <1>1, <1>3, <2>1, UdpKeeps
<1>4. CASE proto = "TCP"
  <2> DEFINE u == rtp_transport_set([transport[cur] EXCEPT !["SOCKTYPE"] = "TCP"],
                                    "INTERLEAVED", Channels(nextCh))
  <2>1. SetupStream("TCP", "INTERLEAVED", Channels(nextCh))
    BY <1>4 DEF send_setup_request
  <2>2. Get(u, "INTERLEAVED") = <<First(cur), First(cur) + 1>>
    BY <1>1, <1>4, ChannelsHeld
  <2>3. Placing(u)
    BY <2>1, <2>2, StreamPlaces DEF PairNames
  <2> QED BY <1>1, <1>4, <2>3, StreamKeeps
<1>5. CASE proto = "SCTP"
  <2> DEFINE u == rtp_transport_set([transport[cur] EXCEPT !["SOCKTYPE"] = "SCTP"],
                                    "STREAMS", Streams(nextCh))
  <2>1. SetupStream("SCTP", "STREAMS", Streams(nextCh))
    BY <1>5 DEF send_setup_request
  <2>2. Get(u, "STREAMS") = <<First(cur), First(cur) + 1>>
    BY <1>1, <1>5, StreamsHeld
  <2>3. Placing(u)
    BY <2>1, <2>2, StreamPlaces DEF PairNames
  <2> QED BY <1>1, <1>5, <2>3, StreamKeeps
<1> QED BY <1>2, <1>3, <1>4, <1>5

LEMMA OInvNext ==
  ASSUME Few, NoHighHint, AllReadable, OInv, [SetupNext]_setupVars PROVE OInv'
<1>1. CASE Open
  BY <1>1, OpenKeeps
<1>2. CASE send_setup_request
  BY <1>2, RequestKeeps
<1>3. CASE rtsp_reinit
  BY <1>3, ReinitKeeps
<1>4. CASE \E header \in MayAnswer(offer[cur], cur) : handle_setup_response(header)
  BY <1>4, AnswerKeeps
<1>5. CASE UNCHANGED setupVars
  <2>1. Numbered'
    BY <1>5 DEF setupVars, OInv, Numbered
  <2>2. Tables'
    BY <1>5 DEF setupVars, OInv, Tables
  <2>3. Placed'
    BY <1>5 DEF setupVars, OInv, Placed, IsPlaced, Entry, First, Begun
  <2>4. Sockets'
    BY <1>5 DEF setupVars, OInv, Sockets, EvenPair, Begun
  <2> QED BY <2>1, <2>2, <2>3, <2>4 DEF OInv
<1> QED BY <1>1, <1>2, <1>3, <1>4, <1>5 DEF SetupNext

LEMMA OInvGives ==
  ASSUME Few, OInv PROVE OffersOK
<1>1. SetThenGet
  BY TableSound DEF OInv, Numbered, Tables
<1>2. EvenPair
  BY DEF OInv, Sockets
<1>3. Placed /\ Cardinality(Media) \in Nat /\ Cardinality(Media) >= 1
  BY MediaAre DEF OInv
<1>4. ChannelsByPlace
  <2> DEFINE n == Len(interleaved)
  <2>1. n \in Nat /\ interleaved = [i \in 1 .. n |-> Entry(n + 1 - i)]
    BY <1>3 DEF Placed, IsPlaced
  <2> HIDE DEF n
  <2>2. \A i \in DOMAIN interleaved :
          interleaved[i] = [med |-> n + 1 - i, rtp |-> First(n + 1 - i),
                            rtcp |-> First(n + 1 - i) + 1]
    BY <2>1 DEF Entry
  <2> QED BY <2>2 DEF ChannelsByPlace, First
<1>5. SetupTypeOK
  <2>1. force \in Uint16
    BY Uint16Is DEF OInv, Numbered
  <2>2. nextCh \in Uint16
    <3>1. Few => nextCh \in Int /\ 0 <= nextCh /\ nextCh < 65536
      BY <1>3 DEF Few, Placed, IsPlaced
    <3> QED BY <3>1, Uint16Is
  <2>3. \A m \in Media : DOMAIN transport[m] = Members
    BY DEF OInv, Tables, IsTransport
  <2>4. Len(interleaved) <= Cardinality(Media)
    BY <1>3 DEF Placed
  <2> QED BY <2>1, <2>2, <2>3, <2>4 DEF SetupTypeOK, OInv, Numbered
<1> QED BY <1>1, <1>2, <1>4, <1>5 DEF OffersOK

(* The library's side of SETUP (send_setup_request, rtp_transport_set): a parameter that is
   set is read back, RTP listens on an even port with RTCP on the next, and the channels
   of a medium follow from its place. *)
THEOREM OffersSafe ==
  ASSUME Few, NoHighHint
  PROVE  SetupSpec /\ []AllReadable => []OffersOK
<1>1. SetupInit => OInv
  BY OInit
<1>2. OInv /\ AllReadable /\ [SetupNext]_setupVars => OInv'
  BY OInvNext
<1>3. OInv => OffersOK
  BY OInvGives
<1> QED BY <1>1, <1>2, <1>3, PTL DEF SetupSpec
-----------------------------------------------------------------------------
(* The server's side of SETUP. *)

(* Value k of the parameter that an offer has by a name. *)
AsOffered(o, name, k, v) ==
  \E j \in DOMAIN o.params : o.params[j].name = name /\ v = o.params[j].value[k]

(* A pair of channels that is the one offered, as far as they exist. *)
PairAsOffered(pair, r, c, o, name) ==
  \/ TooHigh(r, pair[1])
  \/ /\ AsOffered(o, name, 1, pair[1])
     /\ TooHigh(c, pair[2]) \/ AsOffered(o, name, 2, pair[2])

(* A reply that has the offer's protocol and channels, or names none. *)
KeepsTo(o, header) ==
  /\ Readable(header)
  /\ header.proto \in {"UDP", "TCP", "SCTP"} => header.proto = o.proto
  /\ \A i \in DOMAIN header.params :
       LET p == header.params[i]
       IN  /\ o.proto = "UDP" => UdpParam(p)
           /\ o.proto = "TCP" /\ p.name = "interleaved" =>
                PairAsOffered(p.value, "ILVDRTP", "ILVDRTCP", o, "interleaved")
           /\ o.proto = "SCTP" /\ p.name = "server_streams" =>
                PairAsOffered(p.value, "STREAMRTP", "STREAMRTCP", o, "streams")

ServerKeeps ==
  status = "offered" =>
    \A header \in MayAnswer(offer[cur], cur) : KeepsTo(offer[cur], header)

Histories == DOMAIN offer = Media /\ DOMAIN answer = Media

(* A medium has no answer before its own SETUP. *)
NotYet(m) == \/ status \in {"closed", "undefined"}
             \/ status \in {"answered", "offered"} /\ m >= cur
Silent == \A m \in Media : NotYet(m) => answer[m] = None

(* Until the answer, a session holds what it was made with. *)
Unset(m) == [server_port |-> <<0, 0>>, source |-> Peer, ssrc |-> m, ttl |-> 0]
Blank(t, m) == \A name \in KeptNames : Get(t, KeptOf[name]) = Unset(m)[name]
Untouched == \A m \in Media : answer[m] = None => Blank(transport[m], m)

(* The media set up have the protocol asked for, and the channels. *)
OnChannels(t, m) == /\ t["SOCKTYPE"] = proto
                    /\ proto # "UDP" => /\ t["RTP.u"] = First(m)
                                        /\ t["RTCP.u"] = First(m) + 1
Offered ==
  \A m \in Media :
    status \in {"answered", "offered", "ready"} /\ m <= Begun =>
      OnChannels(transport[m], m)

(* The offer names them. *)
Tells(o, m) ==
  /\ o.proto = proto
  /\ \A k \in 1 .. 2 : \A v :
       /\ proto = "TCP" /\ AsOffered(o, "interleaved", k, v) => v = First(m) + k - 1
       /\ proto = "SCTP" /\ AsOffered(o, "streams", k, v) => v = First(m) + k - 1
OfferTells == status = "offered" => Tells(offer[cur], cur)

(* What is kept of an answer over UDP is the last value of each parameter. *)
LastKept(t, a, m) ==
  a.proto = "UDP" =>
    /\ Readable(a)
    /\ \A name \in KeptNames :
         LastOf(Get(t, KeptOf[name]), Unset(m)[name], a.params, name, Len(a.params))
AllKept == \A m \in Media : LastKept(transport[m], answer[m], m)

AInv == OInv /\ Histories /\ Silent /\ Untouched /\ Offered /\ OfferTells /\ AllKept

(* The last value is what AnswerKept calls the value that is kept. *)
LEMMA LastIsKept ==
  ASSUME NEW t, NEW a, NEW m, LastKept(t, a, m), a.proto = "UDP"
  PROVE  \A name \in KeptNames :
           Get(t, KeptOf[name]) =
             IF Named(a.params, name) = {} THEN Unset(m)[name]
             ELSE a.params[Max(Named(a.params, name))].value
<1> DEFINE ps == a.params
           n == Len(ps)
<1>1. n \in Nat /\ DOMAIN ps = 1 .. n
  BY ReadableIs DEF LastKept
<1>2. ASSUME NEW name \in KeptNames
      PROVE  Get(t, KeptOf[name]) = IF Named(ps, name) = {} THEN Unset(m)[name]
                                    ELSE ps[Max(Named(ps, name))].value
  <2> DEFINE x == Get(t, KeptOf[name])
             y == Unset(m)[name]
             at == Named(ps, name)
  <2>1. LastOf(x, y, ps, name, n)
    BY DEF LastKept
  <2> HIDE DEF x, y, n
  <2>2. at = NamedUpTo(ps, name, n)
    <3>1. \A i \in 1 .. n :
            Accepted(ps, i) <=> \A j \in 1 .. i : ps[j].name \in {"source", "destination"}
                                                    => ps[j].value # 0
      BY DEF Accepted, Refuses
    <3> QED BY <1>1, <3>1 DEF Named, NamedUpTo
  <2>3. at \subseteq 1 .. n
    BY <2>2 DEF NamedUpTo
  <2> HIDE DEF at, ps
  <2>4. x = IF at = {} THEN y ELSE ps[Max(at)].value
    <3>1. CASE at = {}
      BY <2>1, <2>2, <3>1 DEF LastOf
    <3>2. CASE at # {}
      <4>1. PICK i \in at : (\A k \in at : k <= i) /\ x = ps[i].value
        BY <2>1, <2>2, <3>2 DEF LastOf
      <4>2. i \in Int /\ \A k \in at : k \in Int
        BY <1>1, <2>3
      <4>3. i \in at /\ \A k \in at : i >= k
        BY <4>1, <4>2
      <4>4. \A j \in at : (\A k \in at : j >= k) => j = i
        BY <4>2, <4>3
      <4>5. Max(at) = i
        BY <4>3, <4>4 DEF Max
      <4> QED BY <3>2, <4>1, <4>5
    <3> QED BY <3>1, <3>2
  <2> QED BY <2>4 DEF x, y, at, ps
<1> QED BY <1>2

LEMMA UnsetIs ==
  ASSUME NEW m
  PROVE  /\ Unset(m)["server_port"] = <<0, 0>> /\ Unset(m)["source"] = Peer
         /\ Unset(m)["ssrc"] = m /\ Unset(m)["ttl"] = 0
BY DEF Unset

LEMMA AllKeptGives ==
  ASSUME AllKept PROVE AnswerKept
<1> SUFFICES ASSUME NEW m \in Media, answer[m].proto = "UDP"
             PROVE  LET Kept(name, par, unset) ==
                          LET at == Named(answer[m].params, name)
                          IN  Get(transport[m], par) = IF at = {} THEN unset
                                               ELSE answer[m].params[Max(at)].value
                    IN  /\ Kept("server_port", "SRVPORTS", <<0, 0>>)
                        /\ Kept("source", "SRCADDR", Peer)
                        /\ Kept("ssrc", "SSRC", m)
                        /\ Kept("ttl", "TTL", 0)
  BY DEF AnswerKept
<1> DEFINE F(name) == IF Named(answer[m].params, name) = {} THEN Unset(m)[name]
                      ELSE answer[m].params[Max(Named(answer[m].params, name))].value
<1>1. \A name \in KeptNames : Get(transport[m], KeptOf[name]) = F(name)
  BY LastIsKept DEF AllKept
<1> HIDE DEF F
<1>2. /\ Get(transport[m], "SRVPORTS") = F("server_port")
      /\ Get(transport[m], "SRCADDR") = F("source")
      /\ Get(transport[m], "SSRC") = F("ssrc") /\ Get(transport[m], "TTL") = F("ttl")
  BY <1>1, KeptIs DEF KeptNames
<1> QED BY <1>2, UnsetIs DEF F

(* Transports that agree where an answer would be kept are blank alike. *)
LEMMA BlankAlike ==
  ASSUME NEW t, NEW u, NEW m, Blank(t, m),
         \A f \in {"SRVRTP", "SRVRTCP", "SRCHOST", "SSRC", "TTL"} : u[f] = t[f]
  PROVE  Blank(u, m)
<1>1. \A name \in KeptNames : Get(u, KeptOf[name]) = Get(t, KeptOf[name])
  BY KeptIs, KeptGets DEF KeptNames
<1> QED BY <1>1 DEF Blank

LEMMA FreshBlank ==
  ASSUME NEW m PROVE Blank(Fresh(Peer, Local, m), m)
<1> DEFINE u == Fresh(Peer, Local, m)
<1>1. /\ u["SRVRTP"] = 0 /\ u["SRVRTCP"] = 0 /\ u["TTL"] = 0
      /\ u["SRCHOST"] = Peer /\ u["SSRC"] = m
  BY FreshIs
<1> HIDE DEF u
<1>2. \A name \in KeptNames : Get(u, KeptOf[name]) = Unset(m)[name]
  BY <1>1, KeptIs, KeptGets, UnsetIs DEF KeptNames
<1> QED BY <1>2 DEF Blank, u
LEMMA AInit ==
  ASSUME NoHighHint, SetupInit PROVE AInv
<1>1. OInv
  BY OInit
<1>2. /\ status = "closed" /\ transport = [m \in Media |-> Fresh(Peer, Local, m)]
      /\ offer = [m \in Media |-> None] /\ answer = [m \in Media |-> None]
  BY DEF SetupInit
<1>3. Histories /\ Silent /\ Offered /\ OfferTells
  BY <1>2 DEF Histories, Silent, Offered, OfferTells
<1>4. Untouched
  BY <1>2, FreshBlank DEF Untouched
<1>5. AllKept
  BY <1>2 DEF AllKept, LastKept, None
<1> QED BY <1>1, <1>3, <1>4, <1>5 DEF AInv

(* With fresh transports, no answer and no medium set up, what the server's side asks
   holds. *)
LEMMA AnewIs ==
  ASSUME transport' = [m \in Media |-> Fresh(Peer, Local, m)],
         Histories', \A m \in Media : answer'[m] = None,
         status' \in {"closed", "undefined"} \/ (status' = "answered" /\ cur' = 1)
  PROVE  (Silent /\ Untouched /\ Offered /\ OfferTells /\ AllKept)'
<1>1. Silent' /\ OfferTells'
  BY DEF Silent, OfferTells
<1>2. Untouched'
  BY FreshBlank DEF Untouched
<1>3. AllKept'
  BY DEF AllKept, LastKept, None
<1>4. Offered'
  <2>1. status' \in {"answered", "offered", "ready"} => Begun' = 0
    BY DEF Begun
  <2> QED BY <2>1, MediaAre DEF Offered
<1> QED BY <1>1, <1>2, <1>3, <1>4

LEMMA OpenAnswers ==
  ASSUME AInv, Open PROVE (Histories /\ Silent /\ Untouched /\ Offered /\ OfferTells /\ AllKept)'
<1>1. /\ status = "closed" /\ offer' = offer /\ answer' = answer
      /\ transport' = [m \in Media |-> Fresh(Peer, Local, m)]
      /\ status' = "undefined" \/ (status' = "answered" /\ cur' = 1)
  BY DEF Open
<1>2. Histories' /\ \A m \in Media : answer'[m] = None
  BY <1>1 DEF AInv, Histories, Silent, NotYet
<1> QED BY <1>1, <1>2, AnewIs

LEMMA ReinitAnswers ==
  ASSUME AInv, rtsp_reinit
  PROVE (Histories /\ Silent /\ Untouched /\ Offered /\ OfferTells /\ AllKept)'
<1>1. /\ status' \in {"closed", "undefined"}
      /\ offer' = [m \in Media |-> None] /\ answer' = [m \in Media |-> None]
      /\ transport' = [m \in Media |-> Fresh(Peer, Local, m)]
  BY DEF rtsp_reinit, Cleaned
<1>2. Histories' /\ \A m \in Media : answer'[m] = None
  BY <1>1 DEF Histories
<1> QED BY <1>1, <1>2, AnewIs

(* A request for the current medium, whose transport becomes u. *)
Requesting(u) ==
  /\ Requested
  /\ transport' = [transport EXCEPT ![cur] = u]
  /\ offer' = [offer EXCEPT ![cur] = set_transport_str(u)]
  /\ \A f \in {"SRVRTP", "SRVRTCP", "SRCHOST", "SSRC", "TTL"} : u[f] = transport[cur][f]

LEMMA RequestAnswers ==
  ASSUME AInv, NEW u, Requesting(u), OnChannels(u, cur), Tells(set_transport_str(u), cur)
  PROVE (Histories /\ Silent /\ Untouched /\ Offered /\ OfferTells /\ AllKept)'
<1>1. /\ status = "answered" /\ status' = "offered"
      /\ cur' = cur /\ answer' = answer /\ proto' = proto
      /\ transport' = [transport EXCEPT ![cur] = u]
      /\ offer' = [offer EXCEPT ![cur] = set_transport_str(u)]
  BY DEF Requesting, Requested
<1>2. cur \in Media /\ DOMAIN transport = Media /\ DOMAIN offer = Media
  BY DEF AInv, OInv, Numbered, Tables, Histories
<1>3. /\ transport'[cur] = u /\ offer'[cur] = set_transport_str(u)
      /\ \A m \in Media \ {cur} : transport'[m] = transport[m]
  BY <1>1, <1>2
<1>4. Histories'
  BY <1>1 DEF AInv, Histories
<1>5. Silent'
  BY <1>1 DEF AInv, Silent, NotYet
<1>6. Untouched'
  <2>1. \A m \in Media : Blank(transport[m], m) => Blank(transport'[m], m)
    <3>1. Blank(transport[cur], cur) => Blank(u, cur)
      BY BlankAlike DEF Requesting
    <3> QED BY <1>3, <3>1
  <2> QED BY <1>1, <2>1 DEF AInv, Untouched
<1>7. Offered'
  <2>1. Begun = cur - 1 /\ Begun' = cur /\ cur \in Nat
    BY <1>1, <1>2, MediaAre DEF Begun
  <2>2. \A t, m : OnChannels(t, m)' <=> OnChannels(t, m)
    BY <1>1 DEF OnChannels, First
  <2>3. ASSUME NEW m \in Media, m <= cur PROVE OnChannels(transport'[m], m)
    <3>1. CASE m = cur
      BY <1>3, <3>1
    <3>2. CASE m # cur
      <4>1. m <= Begun
        BY <2>1, <2>3, <3>2, MediaAre
      <4> QED BY <1>1, <1>3, <3>2, <4>1 DEF AInv, Offered
    <3> QED BY <3>1, <3>2
  <2> QED BY <2>1, <2>2, <2>3 DEF Offered
<1>8. OfferTells'
  <2>1. \A o, m : Tells(o, m)' <=> Tells(o, m)
    BY <1>1 DEF Tells, First
  <2>2. offer'[cur'] = set_transport_str(u)
    BY <1>1, <1>3
  <2> QED BY <1>1, <2>1, <2>2 DEF OfferTells
<1>9. AllKept'
  <2>1. answer[cur] = None
    BY <1>1, <1>2, MediaAre DEF AInv, Silent, NotYet
  <2>2. ASSUME NEW m \in Media PROVE LastKept(transport'[m], answer[m], m)
    <3>1. CASE m = cur
      BY <2>1, <3>1 DEF LastKept, None
    <3>2. CASE m # cur
      BY <1>3, <3>2 DEF AInv, AllKept
    <3> QED BY <3>1, <3>2
  <2> QED BY <1>1, <2>2 DEF AllKept
<1> QED BY <1>4, <1>5, <1>6, <1>7, <1>8, <1>9
LEMMA IfSetIn ==
  ASSUME NEW u, NEW par, NEW name, NEW R, [name |-> name, value |-> Get(u, par)] \in R
  PROVE  IfSet(u, par, name) \in Seq(R)
<1> DEFINE e == [name |-> name, value |-> Get(u, par)]
<1>1. IfSet(u, par, name) = <<e>> \/ IfSet(u, par, name) = <<>>
  BY DEF IfSet
<1>2. e \in R
  OBVIOUS
<1> HIDE DEF e
<1>3. <<e>> \in Seq(R) /\ <<>> \in Seq(R)
  BY <1>2
<1> QED BY <1>1, <1>3

(* What an offer over the connection names: its channels, and nothing else by that name. *)
LEMMA StreamOffer ==
  ASSUME NEW u, NEW type, NEW par, NEW name,
         \/ type = "TCP" /\ par = "INTERLEAVED" /\ name = "interleaved"
         \/ type = "SCTP" /\ par = "STREAMS" /\ name = "streams",
         u["SOCKTYPE"] = type
  PROVE  /\ set_transport_str(u).proto = type
         /\ \A j \in DOMAIN set_transport_str(u).params :
              LET p == set_transport_str(u).params[j]
              IN  p.name = name => p.value = Get(u, par)
<1> DEFINE r == [name |-> name, value |-> Get(u, par)]
           mode == [name |-> "mode", value |-> u["MODE"]]
           R == {r, mode, [name |-> "append", value |-> Get(u, "APPEND")],
                 [name |-> "ssrc", value |-> Get(u, "SSRC")]}
           ps == IfSet(u, par, name) \o <<mode>> \o IfSet(u, "APPEND", "append")
                   \o IfSet(u, "SSRC", "ssrc")
<1>1. set_transport_str(u).proto = type /\ set_transport_str(u).params = ps
  BY DEF set_transport_str
<1>2. /\ IfSet(u, par, name) \in Seq(R) /\ <<mode>> \in Seq(R)
      /\ IfSet(u, "APPEND", "append") \in Seq(R) /\ IfSet(u, "SSRC", "ssrc") \in Seq(R)
  <2>1. mode \in R
    OBVIOUS
  <2>2. /\ [name |-> name, value |-> Get(u, par)] \in R
        /\ [name |-> "append", value |-> Get(u, "APPEND")] \in R
        /\ [name |-> "ssrc", value |-> Get(u, "SSRC")] \in R
    OBVIOUS
  <2> HIDE DEF R, mode
  <2>3. IfSet(u, par, name) \in Seq(R)
    BY <2>2, IfSetIn
  <2>4. IfSet(u, "APPEND", "append") \in Seq(R)
    BY <2>2, IfSetIn
  <2>5. IfSet(u, "SSRC", "ssrc") \in Seq(R)
    BY <2>2, IfSetIn
  <2> QED BY <2>1, <2>3, <2>4, <2>5
<1>3. \A p \in R : p.name = name => p.value = Get(u, par)
  OBVIOUS
<1> HIDE DEF R, mode
<1>4. ps \in Seq(R)
  BY <1>2
<1> HIDE DEF ps
<1>5. \A j \in DOMAIN ps : ps[j] \in R
  BY <1>4
<1> QED BY <1>1, <1>3, <1>5

LEMMA StreamTells ==
  ASSUME NEW u, NEW m, NEW par, NEW name,
         \/ proto = "TCP" /\ par = "INTERLEAVED" /\ name = "interleaved"
         \/ proto = "SCTP" /\ par = "STREAMS" /\ name = "streams",
         u["SOCKTYPE"] = proto, First(m) \in Int,
         Get(u, par) = <<First(m), First(m) + 1>>
  PROVE  Tells(set_transport_str(u), m)
<1> DEFINE o == set_transport_str(u)
           f == First(m)
<1>1. /\ o.proto = proto
      /\ \A j \in DOMAIN o.params : o.params[j].name = name => o.params[j].value = <<f, f + 1>>
  BY StreamOffer
<1> HIDE DEF o
<1>2. f \in Int /\ f + 1 - 1 = f /\ f + 2 - 1 = f + 1
  OBVIOUS
<1> HIDE DEF f
<1>3. \A k \in 1 .. 2 : \A v : AsOffered(o, name, k, v) => v = f + k - 1
  <2>1. \A k \in 1 .. 2 : <<f, f + 1>>[k] = f + k - 1
    BY <1>2
  <2> QED BY <1>1, <2>1 DEF AsOffered
<1> QED BY <1>1, <1>3 DEF Tells, o, f

LEMMA UdpAnswers ==
  ASSUME AInv, Requested, proto = "UDP", SetupUdp
  PROVE  (Histories /\ Silent /\ Untouched /\ Offered /\ OfferTells /\ AllKept)'
<1>1. PICK pair :
        LET u == rtp_transport_set([transport[cur] EXCEPT !["SOCKTYPE"] = "UDP"],
                                   "CLIPORTS", pair)
        IN  /\ transport' = [transport EXCEPT ![cur] = u]
            /\ offer' = [offer EXCEPT ![cur] = set_transport_str(u)]
  BY DEF SetupUdp
<1> DEFINE u == rtp_transport_set([transport[cur] EXCEPT !["SOCKTYPE"] = "UDP"],
                                  "CLIPORTS", pair)
<1>2. /\ transport' = [transport EXCEPT ![cur] = u]
      /\ offer' = [offer EXCEPT ![cur] = set_transport_str(u)]
  BY <1>1
<1>3. IsTransport(transport[cur]) /\ "CLIPORTS" \in PairNames
  BY DEF AInv, OInv, Numbered, Tables, PairNames
<1>4. /\ MemberOf(Pairs["CLIPORTS"][1]) = "CLIRTP" /\ MemberOf(Pairs["CLIPORTS"][2]) = "CLIRTCP"
  BY PairsAre DEF MemberOf
<1> DEFINE a == MemberOf(Pairs["CLIPORTS"][1])
           b == MemberOf(Pairs["CLIPORTS"][2])
<1>5. /\ u["SOCKTYPE"] = "UDP"
      /\ \A f \in Members \ {"SOCKTYPE", "CLIRTP", "CLIRTCP"} : u[f] = transport[cur][f]
  <2>1. /\ u["SOCKTYPE"] = "UDP"
        /\ \A f \in Members \ {"SOCKTYPE", a, b} : u[f] = transport[cur][f]
    <3>1. u = AskFor(transport[cur], "UDP", "CLIPORTS", pair)
      BY DEF AskFor
    <3> HIDE DEF u
    <3> QED BY <1>3, <3>1, AskedIs
  <2> HIDE DEF u, a, b
  <2>2. a = "CLIRTP" /\ b = "CLIRTCP"
    BY <1>4 DEF a, b
  <2> QED BY <2>1, <2>2
<1> HIDE DEF u
<1>6. Requesting(u)
  BY <1>2, <1>5 DEF Requesting, Members
<1>7. OnChannels(u, cur)
  BY <1>5 DEF OnChannels
<1>8. Tells(set_transport_str(u), cur)
  <2>1. set_transport_str(u).proto = "UDP"
    BY <1>5 DEF set_transport_str
  <2> QED BY <2>1 DEF Tells
<1> QED BY <1>6, <1>7, <1>8, RequestAnswers

LEMMA StreamAnswers ==
  ASSUME AInv, Requested, NEW par \in PairNames, NEW pair, SetupStream(proto, par, pair),
         NEW name,
         \/ proto = "TCP" /\ par = "INTERLEAVED" /\ name = "interleaved"
         \/ proto = "SCTP" /\ par = "STREAMS" /\ name = "streams",
         NEW u,
         u = AskFor(transport[cur], proto, par, pair),
         u["RTP.u"] = First(cur), u["RTCP.u"] = First(cur) + 1,
         Get(u, par) = <<First(cur), First(cur) + 1>>
  PROVE  (Histories /\ Silent /\ Untouched /\ Offered /\ OfferTells /\ AllKept)'
<1>1. /\ transport' = [transport EXCEPT ![cur] = u]
      /\ offer' = [offer EXCEPT ![cur] = set_transport_str(u)]
  BY DEF SetupStream, AskFor
<1>2. IsTransport(transport[cur]) /\ cur \in Media
  BY DEF AInv, OInv, Numbered, Tables
<1>3. /\ MemberOf(Pairs[par][1]) = "RTP.u" /\ MemberOf(Pairs[par][2]) = "RTCP.u"
  BY PairsAre, MembersOf
<1> DEFINE a == MemberOf(Pairs[par][1])
           b == MemberOf(Pairs[par][2])
<1>4. /\ u["SOCKTYPE"] = proto
      /\ \A f \in Members \ {"SOCKTYPE", "RTP.u", "RTCP.u"} : u[f] = transport[cur][f]
  <2>1. /\ u["SOCKTYPE"] = proto
        /\ \A f \in Members \ {"SOCKTYPE", a, b} : u[f] = transport[cur][f]
    BY <1>2, AskedIs
  <2> HIDE DEF a, b
  <2>2. a = "RTP.u" /\ b = "RTCP.u"
    BY <1>3 DEF a, b
  <2> QED BY <2>1, <2>2
<1>5. \A f \in {"SRVRTP", "SRVRTCP", "SRCHOST", "SSRC", "TTL"} : u[f] = transport[cur][f]
  BY <1>4 DEF Members
<1>6. Requesting(u)
  BY <1>1, <1>5 DEF Requesting
<1>7. OnChannels(u, cur)
  BY <1>4 DEF OnChannels
<1>8. Tells(set_transport_str(u), cur)
  <2>1. First(cur) \in Int
    BY <1>2, MediaAre DEF First
  <2> QED BY <1>4, <2>1, StreamTells
<1> QED BY <1>6, <1>7, <1>8, RequestAnswers

LEMMA SendAnswers ==
  ASSUME AInv, Few, send_setup_request
  PROVE  (Histories /\ Silent /\ Untouched /\ Offered /\ OfferTells /\ AllKept)'
<1>1. Requested /\ OInv
  BY DEF send_setup_request, Requested, AInv
<1>2. proto \in {"UDP", "TCP", "SCTP"}
  BY <1>1, SetupAssumption DEF OInv, Numbered
<1>3. CASE proto = "UDP"
  <2>1. SetupUdp
    BY <1>3 DEF send_setup_request
  <2> QED BY <1>1, <1>3, <2>1, UdpAnswers
<1>4. CASE proto = "TCP"
  <2> DEFINE u == rtp_transport_set([transport[cur] EXCEPT !["SOCKTYPE"] = "TCP"],
                                    "INTERLEAVED", Channels(nextCh))
  <2>1. SetupStream(proto, "INTERLEAVED", Channels(nextCh))
    BY <1>4 DEF send_setup_request
  <2>2. /\ u["RTP.u"] = First(cur) /\ u["RTCP.u"] = First(cur) + 1
        /\ Get(u, "INTERLEAVED") = <<First(cur), First(cur) + 1>>
    BY <1>1, <1>4, ChannelsHeld
  <2>3. "INTERLEAVED" \in PairNames
    BY DEF PairNames
  <2>4. u = AskFor(transport[cur], proto, "INTERLEAVED", Channels(nextCh))
    BY <1>4 DEF AskFor
  <2> HIDE DEF u
  <2> QED BY <1>1, <1>4, <2>1, <2>2, <2>3, <2>4, StreamAnswers
<1>5. CASE proto = "SCTP"
  <2> DEFINE u == rtp_transport_set([transport[cur] EXCEPT !["SOCKTYPE"] = "SCTP"],
                                    "STREAMS", Streams(nextCh))
  <2>1. SetupStream(proto, "STREAMS", Streams(nextCh))
    BY <1>5 DEF send_setup_request
  <2>2. /\ u["RTP.u"] = First(cur) /\ u["RTCP.u"] = First(cur) + 1
        /\ Get(u, "STREAMS") = <<First(cur), First(cur) + 1>>
    BY <1>1, <1>5, StreamsHeld
  <2>3. "STREAMS" \in PairNames
    BY DEF PairNames
  <2>4. u = AskFor(transport[cur], proto, "STREAMS", Streams(nextCh))
    BY <1>5 DEF AskFor
  <2> HIDE DEF u
  <2> QED BY <1>1, <1>5, <2>1, <2>2, <2>3, <2>4, StreamAnswers
<1> QED BY <1>2, <1>3, <1>4, <1>5
(* What a reply that keeps to the offer leaves: a transport on the same channels, with
   what it said over UDP. *)
LEMMA ReplyKeeps ==
  ASSUME NEW u, IsTransport(u), NEW m, OnChannels(u, m), Blank(u, m),
         NEW o, Tells(o, m), NEW header, KeepsTo(o, header),
         header.proto \in {"UDP", "TCP", "SCTP"}, First(m) \in Int
  PROVE  LET w == get_transport_str(u, header)
         IN  OnChannels(w, m) /\ LastKept(w, header, m)
<1> DEFINE ps == header.params
           n == Len(ps)
           w == get_transport_str(u, header)
<1>1. n \in Nat /\ DOMAIN ps = 1 .. n /\ Readable(header)
  BY ReadableIs DEF KeepsTo
<1>2. header.proto = proto /\ o.proto = proto /\ u["SOCKTYPE"] = proto
  BY DEF KeepsTo, Tells, OnChannels
<1>3. w = Reading(u, proto, ps)[n].t
  <2>1. [u EXCEPT !["SOCKTYPE"] = proto] = u
    BY <1>2 DEF IsTransport
  <2> QED BY <1>2, <2>1 DEF get_transport_str
<1> HIDE DEF w
<1>4. CASE proto = "UDP"
  <2>1. \A i \in 1 .. n : UdpParam(ps[i])
    BY <1>1, <1>2, <1>4 DEF KeepsTo
  <2>2. /\ w["SOCKTYPE"] = u["SOCKTYPE"]
        /\ \A name \in KeptNames : LastOf(Get(w, KeptOf[name]), Get(u, KeptOf[name]), ps, name, n)
    <3>1. w = Reading(u, "UDP", ps)[n].t
      BY <1>3, <1>4
    <3>2. LET x == Reading(u, "UDP", ps)[n].t
          IN  /\ x["SOCKTYPE"] = u["SOCKTYPE"]
              /\ \A name \in KeptNames :
                   LastOf(Get(x, KeptOf[name]), Get(u, KeptOf[name]), ps, name, n)
      BY <1>1, <2>1, UdpReads
    <3> QED BY <3>1, <3>2
  <2>3. OnChannels(w, m)
    BY <1>2, <1>4, <2>2 DEF OnChannels
  <2>4. LastKept(w, header, m)
    BY <1>1, <2>2 DEF LastKept, Blank
  <2> QED BY <2>3, <2>4 DEF w
<1>5. ASSUME NEW name, NEW asked, NEW r, NEW c, IsStream(proto, name, r, c),
             \A k \in 1 .. 2 : \A v : AsOffered(o, asked, k, v) => v = First(m) + k - 1,
             \A i \in 1 .. n : ps[i].name = name => PairAsOffered(ps[i].value, r, c, o, asked)
      PROVE  OnChannels(w, m) /\ LastKept(w, header, m)
  <2>1. proto # "UDP" /\ u["RTP.u"] = First(m) /\ u["RTCP.u"] = First(m) + 1
    BY <1>5 DEF IsStream, OnChannels
  <2>2. ASSUME NEW i \in 1 .. n, ps[i].name = name PROVE SamePair(u, r, c, ps[i].value)
    <3> DEFINE pair == ps[i].value
    <3>1. PairAsOffered(pair, r, c, o, asked)
      BY <1>5, <2>2
    <3> HIDE DEF pair
    <3>2. /\ AsOffered(o, asked, 1, pair[1]) => pair[1] = First(m)
          /\ AsOffered(o, asked, 2, pair[2]) => pair[2] = First(m) + 1
      BY <1>5
    <3>3. SamePair(u, r, c, pair)
      BY <2>1, <3>1, <3>2 DEF PairAsOffered, SamePair
    <3> QED BY <3>3 DEF pair
  <2>3. \A f \in {"RTP.u", "RTCP.u", "SOCKTYPE"} : w[f] = u[f]
    <3>1. IsStream(proto, name, r, c)
      BY <1>5
    <3>2. n \in Nat
      BY <1>1
    <3> HIDE DEF ps
    <3>3. \A f \in {"RTP.u", "RTCP.u", "SOCKTYPE"} : Reading(u, proto, ps)[n].t[f] = u[f]
      BY <2>2, <3>1, <3>2, StreamReads
    <3> QED BY <1>3, <3>3
  <2>4. OnChannels(w, m)
    BY <2>3 DEF OnChannels
  <2>5. LastKept(w, header, m)
    BY <1>2, <2>1 DEF LastKept
  <2> QED BY <2>4, <2>5
<1>6. CASE proto = "TCP"
  <2>1. \A k \in 1 .. 2 : \A v : AsOffered(o, "interleaved", k, v) => v = First(m) + k - 1
    BY <1>6 DEF Tells
  <2>2. \A i \in 1 .. n : ps[i].name = "interleaved" =>
          PairAsOffered(ps[i].value, "ILVDRTP", "ILVDRTCP", o, "interleaved")
    BY <1>1, <1>2, <1>6 DEF KeepsTo
  <2>3. IsStream(proto, "interleaved", "ILVDRTP", "ILVDRTCP")
    BY <1>6 DEF IsStream
  <2> QED BY <1>5, <2>1, <2>2, <2>3 DEF w
<1>7. CASE proto = "SCTP"
  <2>1. \A k \in 1 .. 2 : \A v : AsOffered(o, "streams", k, v) => v = First(m) + k - 1
    BY <1>7 DEF Tells
  <2>2. \A i \in 1 .. n : ps[i].name = "server_streams" =>
          PairAsOffered(ps[i].value, "STREAMRTP", "STREAMRTCP", o, "streams")
    BY <1>1, <1>2, <1>7 DEF KeepsTo
  <2>3. IsStream(proto, "server_streams", "STREAMRTP", "STREAMRTCP")
    BY <1>7 DEF IsStream
  <2> QED BY <1>5, <2>1, <2>2, <2>3 DEF w
<1> QED BY <1>2, <1>4, <1>6, <1>7

LEMMA ReplyAnswers ==
  ASSUME AInv, ServerKeeps,
         NEW header \in MayAnswer(offer[cur], cur), handle_setup_response(header)
  PROVE (Histories /\ Silent /\ Untouched /\ Offered /\ OfferTells /\ AllKept)'
<1> DEFINE u == transport[cur]
           w == get_transport_str(u, header)
<1>1. /\ status = "offered" /\ status' \in {"answered", "ready"}
      /\ status' = "answered" => cur' = cur + 1
      /\ status' = "ready" => cur' = cur /\ cur + 1 \notin Media
      /\ UNCHANGED <<proto, offer>>
      /\ answer' = [answer EXCEPT ![cur] = header]
  BY DEF handle_setup_response
<1>2. transport' = [transport EXCEPT ![cur] = w]
  BY DEF handle_setup_response
<1>3. /\ cur \in Media /\ cur \in Nat /\ DOMAIN transport = Media /\ DOMAIN answer = Media
      /\ IsTransport(u)
  BY MediaAre DEF AInv, OInv, Numbered, Tables, Histories
<1> HIDE DEF w
<1>4. /\ transport'[cur] = w /\ answer'[cur] = header
      /\ \A m \in Media \ {cur} : transport'[m] = transport[m] /\ answer'[m] = answer[m]
  BY <1>1, <1>2, <1>3
<1>5. answer[cur] = None /\ Blank(u, cur)
  BY <1>1, <1>3 DEF AInv, Silent, NotYet, Untouched
<1>6. Begun = cur /\ Begun' = cur
  BY <1>1, <1>3 DEF Begun
<1>7. OnChannels(u, cur) /\ Tells(offer[cur], cur)
  BY <1>1, <1>3, <1>6 DEF AInv, Offered, OfferTells
<1>8. /\ OnChannels(w, cur) /\ LastKept(w, header, cur)
      /\ header = None => Blank(w, cur)
  <2>1. CASE header.proto \in {"UDP", "TCP", "SCTP"}
    <3>1. KeepsTo(offer[cur], header)
      BY <1>1 DEF ServerKeeps
    <3>2. First(cur) \in Int
      BY <1>3 DEF First
    <3>3. OnChannels(w, cur) /\ LastKept(w, header, cur)
      BY <1>3, <1>5, <1>7, <2>1, <3>1, <3>2, ReplyKeeps DEF w
    <3>4. header # None
      BY <2>1 DEF None
    <3> QED BY <3>3, <3>4
  <2>2. CASE header.proto \notin {"UDP", "TCP", "SCTP"}
    <3>1. w = u
      BY <2>2 DEF w, get_transport_str
    <3> HIDE DEF u
    <3> QED BY <1>5, <1>7, <2>2, <3>1 DEF LastKept
  <2> QED BY <2>1, <2>2
<1> HIDE DEF u
<1>9. Histories'
  BY <1>1 DEF AInv, Histories
<1>10. Silent'
  <2>1. ASSUME NEW m \in Media, NotYet(m)' PROVE m # cur /\ NotYet(m)
    <3>1. status' = "answered" /\ m >= cur + 1
      BY <1>1, <2>1 DEF NotYet
    <3> QED BY <1>1, <1>3, <3>1, MediaAre DEF NotYet
  <2> QED BY <1>4, <2>1 DEF AInv, Silent
<1>11. Untouched'
  <2>1. ASSUME NEW m \in Media, answer'[m] = None PROVE Blank(transport'[m], m)
    <3>1. CASE m = cur
      BY <1>4, <1>8, <2>1, <3>1
    <3>2. CASE m # cur
      BY <1>4, <2>1, <3>2 DEF AInv, Untouched
    <3> QED BY <3>1, <3>2
  <2> QED BY <2>1 DEF Untouched
<1>12. Offered'
  <2>1. \A t, m : OnChannels(t, m)' <=> OnChannels(t, m)
    BY <1>1 DEF OnChannels, First
  <2>2. ASSUME NEW m \in Media, m <= cur PROVE OnChannels(transport'[m], m)
    <3>1. CASE m = cur
      BY <1>4, <1>8, <3>1
    <3>2. CASE m # cur
      BY <1>1, <1>4, <1>6, <2>2, <3>2 DEF AInv, Offered
    <3> QED BY <3>1, <3>2
  <2> QED BY <1>6, <2>1, <2>2 DEF Offered
<1>13. OfferTells'
  BY <1>1 DEF OfferTells
<1>14. AllKept'
  <2>1. ASSUME NEW m \in Media PROVE LastKept(transport'[m], answer'[m], m)
    <3>1. CASE m = cur
      BY <1>4, <1>8, <3>1
    <3>2. CASE m # cur
      BY <1>4, <3>2 DEF AInv, AllKept
    <3> QED BY <3>1, <3>2
  <2> QED BY <2>1 DEF AllKept
<1> QED BY <1>9, <1>10, <1>11, <1>12, <1>13, <1>14

LEMMA KeepsIsReadable ==
  ASSUME ServerKeeps PROVE AllReadable
BY DEF ServerKeeps, AllReadable, KeepsTo

LEMMA AInvNext ==
  ASSUME Few, NoHighHint, ServerKeeps, AInv, [SetupNext]_setupVars PROVE AInv'
<1>1. OInv'
  BY KeepsIsReadable, OInvNext DEF AInv
<1> DEFINE P == Histories /\ Silent /\ Untouched /\ Offered /\ OfferTells /\ AllKept
<1>2. P'
  <2>1. CASE Open
    BY <2>1, OpenAnswers
  <2>2. CASE send_setup_request
    BY <2>2, SendAnswers
  <2>3. CASE rtsp_reinit
    BY <2>3, ReinitAnswers
  <2>4. CASE \E header \in MayAnswer(offer[cur], cur) : handle_setup_response(header)
    BY <2>4, ReplyAnswers
  <2>5. CASE UNCHANGED setupVars
    <3>1. (Histories /\ Silent /\ OfferTells)'
      BY <2>5 DEF setupVars, AInv, Histories, Silent, NotYet, OfferTells, Tells, First
    <3>2. (Untouched /\ AllKept)'
      BY <2>5 DEF setupVars, AInv, Untouched, AllKept
    <3>3. Offered'
      BY <2>5 DEF setupVars, AInv, Offered, Begun, OnChannels, First
    <3> QED BY <3>1, <3>2, <3>3
  <2> QED BY <2>1, <2>2, <2>3, <2>4, <2>5 DEF SetupNext
<1> QED BY <1>1, <1>2 DEF AInv

(* The first entry of the list that has a channel is the one of the medium whose it is. *)
LEMMA ReachedIs ==
  ASSUME OInv, NEW m \in Media, m <= Len(interleaved)
  PROVE  Reached(First(m)) = <<m, "rtp">> /\ Reached(First(m) + 1) = <<m, "rtcp">>
<1> DEFINE n == Len(interleaved)
           q == interleaved
           i0 == n + 1 - m
<1>1. n \in Nat /\ m \in Nat /\ 1 <= m /\ m <= n /\ q = [i \in 1 .. n |-> Entry(n + 1 - i)]
  BY MediaAre DEF OInv, Placed, IsPlaced
<1> HIDE DEF n, q
<1>2. i0 \in 1 .. n /\ n + 1 - i0 = m
  BY <1>1
<1>3. \A i \in 1 .. n : /\ q[i].med = n + 1 - i /\ q[i].rtp = First(n + 1 - i)
                        /\ q[i].rtcp = First(n + 1 - i) + 1
  BY <1>1 DEF Entry
<1>4. /\ q[i0].med = m /\ q[i0].rtp = First(m) /\ q[i0].rtcp = First(m) + 1
  BY <1>2, <1>3
<1>5. ASSUME NEW i \in 1 .. n, i # i0, NEW ch \in {First(m), First(m) + 1}
      PROVE  ch \notin {q[i].rtp, q[i].rtcp}
  <2>1. PICK d \in {0, 1} : \A k : First(k) = 2 * (k - 1) + d
    BY DEF First
  <2>2. q[i].rtp = 2 * (n - i) + d /\ q[i].rtcp = 2 * (n - i) + d + 1
    BY <1>1, <1>3, <2>1
  <2>3. First(m) = 2 * (m - 1) + d /\ n - i # m - 1
    BY <1>1, <1>5, <2>1
  <2> QED BY <1>1, <1>5, <2>2, <2>3
<1>6. ASSUME NEW ch \in {First(m), First(m) + 1}
      PROVE  Reached(ch) = <<m, IF ch = First(m) + 1 THEN "rtcp" ELSE "rtp">>
  <2> DEFINE at == {i \in DOMAIN q : ch \in {q[i].rtp, q[i].rtcp}}
  <2>1. at = {i0}
    BY <1>1, <1>2, <1>4, <1>5
  <2>2. Min(at) = i0
    <3>1. i0 <= i0
      BY <1>2
    <3> QED BY <2>1, <3>1 DEF Min
  <2>3. Reached(ch) = <<q[i0].med, IF q[i0].rtcp = ch THEN "rtcp" ELSE "rtp">>
    BY <2>1, <2>2 DEF Reached, q
  <2> QED BY <1>4, <2>3
<1>7. First(m) # First(m) + 1
  BY <1>1 DEF First
<1> QED BY <1>6, <1>7

LEMMA AInvGives ==
  ASSUME Few, AInv PROVE AnswersOK
<1>1. AnswerKept
  BY AllKeptGives DEF AInv
<1>2. Dispatched
  <2> SUFFICES ASSUME NEW m \in Media, answer[m] # None
               PROVE  /\ transport[m]["SOCKTYPE"] = "TCP" =>
                           /\ Reached(Get(transport[m], "ILVDRTP")) = <<m, "rtp">>
                           /\ Reached(Get(transport[m], "ILVDRTCP")) = <<m, "rtcp">>
                      /\ transport[m]["SOCKTYPE"] = "SCTP" =>
                           /\ Reached(Get(transport[m], "STREAMRTP")) = <<m, "rtp">>
                           /\ Reached(Get(transport[m], "STREAMRTCP")) = <<m, "rtcp">>
    BY DEF Dispatched
  <2> DEFINE t == transport[m]
  <2>1. OInv /\ cur \in Media /\ cur \in Nat /\ m \in Nat /\ 1 <= m /\ m <= 128
    BY MediaAre DEF AInv, OInv, Numbered, Few
  <2>2. status \in {"answered", "offered", "ready"} /\ m <= Begun
    <3>1. ~NotYet(m)
      BY DEF AInv, Silent
    <3>2. status \in {"closed", "undefined", "answered", "offered", "ready"}
          /\ (status = "ready" => m <= cur)
      BY <2>1, MediaAre DEF OInv, Numbered
    <3> QED BY <2>1, <3>1, <3>2 DEF NotYet, Begun
  <2>3. OnChannels(t, m)
    BY <2>2 DEF AInv, Offered
  <2>4. proto # "UDP" => m <= Len(interleaved)
    BY <2>1, <2>2 DEF OInv, Placed
  <2>5. proto # "UDP" => /\ Reached(First(m)) = <<m, "rtp">>
                         /\ Reached(First(m) + 1) = <<m, "rtcp">>
    BY <2>1, <2>4, ReachedIs
  <2>6. /\ Get(t, "ILVDRTP") = t["RTP.u"] % 256 /\ Get(t, "ILVDRTCP") = t["RTCP.u"] % 256
        /\ Get(t, "STREAMRTP") = t["RTP.u"] /\ Get(t, "STREAMRTCP") = t["RTCP.u"]
    BY GetIs, MembersOf DEF Value, Singles
  <2> HIDE DEF t
  <2>7. CASE t["SOCKTYPE"] = "TCP"
    <3>1. proto = "TCP" /\ t["RTP.u"] = First(m) /\ t["RTCP.u"] = First(m) + 1
      BY <2>3, <2>7 DEF OnChannels
    <3>2. First(m) \in Nat /\ First(m) + 1 < 256
      BY <2>1, <3>1 DEF First
    <3>3. First(m) % 256 = First(m) /\ (First(m) + 1) % 256 = First(m) + 1
      BY <3>2
    <3> QED BY <2>5, <2>6, <2>7, <3>1, <3>3 DEF t
  <2>8. CASE t["SOCKTYPE"] = "SCTP"
    <3>1. proto = "SCTP" /\ t["RTP.u"] = First(m) /\ t["RTCP.u"] = First(m) + 1
      BY <2>3, <2>8 DEF OnChannels
    <3> QED BY <2>5, <2>6, <2>8, <3>1 DEF t
  <2> QED BY <2>7, <2>8 DEF t
<1> QED BY <1>1, <1>2 DEF AnswersOK

(* The server's side of SETUP (handle_setup_response, get_transport_str): with a server
   that keeps to what was asked for, a packet on the channels of a session reaches its
   sockets, and of a reply over UDP the last value of each parameter stays, up to the
   first address that is none. *)
THEOREM AnswersSafe ==
  ASSUME Few, NoHighHint
  PROVE  SetupSpec /\ []ServerKeeps => []AnswersOK
<1>1. SetupInit => AInv
  BY AInit
<1>2. AInv /\ ServerKeeps /\ [SetupNext]_setupVars => AInv'
  BY AInvNext
<1>3. AInv => AnswersOK
  BY AInvGives
<1> QED BY <1>1, <1>2, <1>3, PTL DEF SetupSpec
-----------------------------------------------------------------------------
(* What SETUP agrees is what the receiving half takes for granted.         *)

(* The pairs that incoming packets are dispatched by, as SETUP leaves them. *)
Agreed == [i \in 1 .. Len(interleaved) |->
             [rtp |-> interleaved[i].rtp, rtcp |-> interleaved[i].rtcp]]

(* They are pairs of octets, and no channel is in two of them. *)
AgreedFits ==
  proto = "TCP" =>
    /\ Agreed \in Seq([rtp : Octet, rtcp : Octet])
    /\ \A i, j \in DOMAIN Agreed :
         /\ Agreed[i].rtp # Agreed[j].rtcp
         /\ i # j => Agreed[i].rtp # Agreed[j].rtp /\ Agreed[i].rtcp # Agreed[j].rtcp

LEMMA OInvFits ==
  ASSUME Few, OInv PROVE AgreedFits
<1> SUFFICES ASSUME proto = "TCP"
             PROVE  /\ Agreed \in Seq([rtp : Octet, rtcp : Octet])
                    /\ \A i, j \in DOMAIN Agreed :
                         /\ Agreed[i].rtp # Agreed[j].rtcp
                         /\ i # j => /\ Agreed[i].rtp # Agreed[j].rtp
                                     /\ Agreed[i].rtcp # Agreed[j].rtcp
  BY DEF AgreedFits
<1> DEFINE n == Len(interleaved)
<1>1. /\ n \in Nat /\ n <= 128 /\ interleaved = [i \in 1 .. n |-> Entry(n + 1 - i)]
  BY MediaAre DEF OInv, Placed, IsPlaced, Few
<1>2. Agreed = [i \in 1 .. n |-> [rtp |-> interleaved[i].rtp, rtcp |-> interleaved[i].rtcp]]
  BY DEF Agreed
<1> HIDE DEF n
<1>3. ASSUME NEW i \in 1 .. n
      PROVE  /\ Agreed[i] = [rtp |-> Agreed[i].rtp, rtcp |-> Agreed[i].rtcp]
             /\ Agreed[i].rtp = 2 * (n - i) /\ Agreed[i].rtcp = 2 * (n - i) + 1
  <2>1. First(n + 1 - i) = 2 * (n - i)
    BY <1>1 DEF First
  <2>2. interleaved[i].rtp = First(n + 1 - i) /\ interleaved[i].rtcp = First(n + 1 - i) + 1
    BY <1>1 DEF Entry
  <2> DEFINE a == interleaved[i].rtp
             b == interleaved[i].rtcp
  <2>3. Agreed[i] = [rtp |-> a, rtcp |-> b]
    BY <1>2
  <2> HIDE DEF a, b
  <2>4. a = 2 * (n - i) /\ b = 2 * (n - i) + 1
    BY <2>1, <2>2 DEF a, b
  <2> QED BY <2>3, <2>4
<1>4. ASSUME NEW i \in 1 .. n PROVE Agreed[i] \in [rtp : Octet, rtcp : Octet]
  <2> DEFINE a == Agreed[i].rtp
             b == Agreed[i].rtcp
  <2>1. Agreed[i] = [rtp |-> a, rtcp |-> b]
    BY <1>3
  <2>2. a = 2 * (n - i) /\ b = 2 * (n - i) + 1 /\ n \in Nat /\ n <= 128
    BY <1>1, <1>3
  <2> HIDE DEF a, b
  <2>3. a \in Int /\ 0 <= a /\ a < 256 /\ b \in Int /\ 0 <= b /\ b < 256
    BY <2>2
  <2>4. a \in Octet /\ b \in Octet
    BY <2>3, OctetIs
  <2> QED BY <2>1, <2>4
<1>5. Agreed \in Seq([rtp : Octet, rtcp : Octet])
  <2> DEFINE S == [rtp : Octet, rtcp : Octet]
  <2>1. Agreed = [i \in 1 .. n |-> Agreed[i]]
    BY <1>2
  <2>2. \A i \in 1 .. n : Agreed[i] \in S
    BY <1>4
  <2> HIDE DEF S
  <2>3. Agreed \in Seq(S)
    BY <1>1, <2>1, <2>2
  <2> QED BY <2>3 DEF S
<1>6. \A i, j \in 1 .. n : /\ Agreed[i].rtp # Agreed[j].rtcp
                           /\ i # j => /\ Agreed[i].rtp # Agreed[j].rtp
                                       /\ Agreed[i].rtcp # Agreed[j].rtcp
  <2>1. \A i \in 1 .. n : Agreed[i].rtp = 2 * (n - i) /\ Agreed[i].rtcp = 2 * (n - i) + 1
    BY <1>3
  <2> QED BY <1>1, <2>1
<1>7. DOMAIN Agreed = 1 .. n
  BY <1>2
<1> QED BY <1>5, <1>6, <1>7

(* The entries that SETUP leaves on a TCP connection (send_setup_request, clean_rtsp_th) are
   such as the receiving half is proved correct for: pairs of octets, and no channel is
   in two of them. *)
THEOREM EntriesFit ==
  ASSUME Few, NoHighHint
  PROVE  SetupSpec /\ []AllReadable => []AgreedFits
<1>1. SetupInit => OInv
  BY OInit
<1>2. OInv /\ AllReadable /\ [SetupNext]_setupVars => OInv'
  BY OInvNext
<1>3. OInv => AgreedFits
  BY OInvFits
<1> QED BY <1>1, <1>2, <1>3, PTL DEF SetupSpec
=============================================================================
