------------------------ MODULE PlayoutBufferProofs ------------------------
(* Proofs about the playout buffer, for any number of slots and any deliveries:
   as a doubly linked list it is sound whatever comes; and it is the priority
   queue PlayoutOrder promises as long as the sequence number does not wrap, or
   wraps where packets come in sequence. *)
EXTENDS PlayoutBuffer, WellFoundedInduction, FiniteSetTheorems, SequenceTheorems, TLAPS

-----------------------------------------------------------------------------
(* Numbers.                                                                *)

(* A non-empty set of natural numbers has a least one: the counterexample a search
   through a queue, or the turns of a loop, would meet first. *)
LEMMA LeastNat ==
  ASSUME NEW T \in SUBSET Nat, T # {}
  PROVE  \E m \in T : \A k \in T : m <= k
<1> DEFINE R == OpToRel(<, Nat)
<1>1. IsWellFoundedOn(R, Nat)
  BY NatLessThanWellFounded
<1>2. \A x, y \in Nat : x < y => <<x, y>> \in R
  BY DEF OpToRel
<1> HIDE DEF R
<1>3. PICK m \in T : \A k \in T : ~ (<<k, m>> \in R)
  BY <1>1, WFMin
<1>4. \A x, y \in Nat : ~ (x < y) => y <= x
  OBVIOUS
<1> QED BY <1>2, <1>3, <1>4

(* A set of numbers that has 0 and, up to n, the successor of each member has all
   of them up to n: induction, for a property that is given by a set. *)
LEMMA UpTo ==
  ASSUME NEW n \in Nat, NEW T, 0 \in T, \A k \in 0 .. n - 1 : k \in T => k + 1 \in T
  PROVE  0 .. n \subseteq T
<1> SUFFICES ASSUME ~ (0 .. n \subseteq T) PROVE FALSE
  OBVIOUS
<1> DEFINE B == {k \in 0 .. n : k \notin T}
<1>1. B \in SUBSET Nat /\ B # {}
  OBVIOUS
<1>2. PICK m \in B : \A k \in B : m <= k
  BY <1>1, LeastNat
<1>3. m \in Nat /\ m <= n /\ m # 0 /\ m \notin T
  BY <1>2
<1>4. m - 1 \in 0 .. n - 1 /\ m - 1 \notin B /\ (m - 1) + 1 = m
  BY <1>2, <1>3
<1>5. m - 1 \in T
  BY <1>4
<1> QED BY <1>3, <1>4, <1>5

(* g gives the states of a loop of n turns, each the successor F of the one before. *)
IsRun(g, n, S, init, F) == /\ g \in [0 .. n -> S] /\ g[0] = init
                           /\ \A k \in 1 .. n : g[k] = F[g[k - 1]]

(* A loop has its turns: for every number of them there is a run of it. *)
LEMMA Iterates ==
  ASSUME NEW S, NEW init \in S, NEW F, F \in [S -> S], NEW n \in Nat
  PROVE  \E g : IsRun(g, n, S, init, F)
<1> DEFINE Run(g, m) == IsRun(g, m, S, init, F)
           T == {m \in Nat : \E g : Run(g, m)}
<1>1. 0 \in T
  <2>1. Run([k \in 0 .. 0 |-> init], 0)
    BY DEF IsRun
  <2> QED BY <2>1
<1>2. ASSUME NEW m \in 0 .. n - 1, m \in T PROVE m + 1 \in T
  <2>1. PICK g : Run(g, m)
    BY <1>2
  <2> DEFINE h == [k \in 0 .. m + 1 |-> IF k = m + 1 THEN F[g[m]] ELSE g[k]]
  <2>2. /\ m \in Nat /\ g[m] \in S /\ \A k \in 0 .. m : g[k] \in S
        /\ g[0] = init /\ \A k \in 1 .. m : g[k] = F[g[k - 1]]
    BY <2>1 DEF IsRun
  <2>3. h \in [0 .. m + 1 -> S] /\ h[0] = init
    BY <2>2
  <2>4. ASSUME NEW k \in 1 .. m + 1 PROVE h[k] = F[h[k - 1]]
    <3>1. CASE k = m + 1
      BY <2>2, <3>1
    <3>2. CASE k \in 1 .. m
      BY <2>2, <3>2
    <3> QED BY <2>2, <3>1, <3>2
  <2>5. Run(h, m + 1)
    BY <2>3, <2>4 DEF IsRun
  <2> HIDE DEF Run, h
  <2> QED BY <2>2, <2>5
<1>3. 0 .. n \subseteq T
  <2> HIDE DEF T
  <2> QED BY <1>1, <1>2, UpTo
<1>4. n \in T
  BY <1>3
<1> QED BY <1>4

-----------------------------------------------------------------------------
(* 16-bit numbers.                                                         *)

(* A number is its low 16 bits and a multiple of 65536. *)
LEMMA LowBits ==
  ASSUME NEW n \in Nat
  PROVE  \E c, x \in Int : n % 65536 = x /\ n = 65536 * c + x /\ 0 <= x /\ x < 65536
<1>1. n % 65536 \in Int /\ 0 <= n % 65536 /\ n % 65536 < 65536
  OBVIOUS
<1> DEFINE c == n \div 65536
           x == n % 65536
<1>2. c \in Int
  OBVIOUS
<1>3. x = n - 65536 * c
  OBVIOUS
<1>4. n % 65536 = x
  OBVIOUS
<1> HIDE DEF c, x
<1>5. x \in Int /\ 0 <= x /\ x < 65536
  BY <1>1, <1>4
<1>6. n = 65536 * c + x
  BY <1>2, <1>3
<1> QED BY <1>2, <1>4, <1>5, <1>6

(* Two numbers less than a cycle apart are in the same one or in adjacent ones. *)
LEMMA Adjacent ==
  ASSUME NEW c \in Int, NEW d \in Int, NEW x \in Int, NEW y \in Int,
         0 <= x, x < 65536, 0 <= y, y < 65536,
         65536 * c + x < 65536 * d + y + 65536, 65536 * d + y < 65536 * c + x + 65536
  PROVE  c = d \/ c = d + 1 \/ d = c + 1
OBVIOUS

(* The difference of two 16-bit numbers, as a 16-bit number. *)
LEMMA Short ==
  ASSUME NEW x \in Int, NEW y \in Int, 0 <= x, x < 65536, 0 <= y, y < 65536
  PROVE  (x - y) % 65536 = IF x - y < 0 THEN x - y + 65536 ELSE x - y
OBVIOUS

(* The distance of two numbers up to a cycle apart, from their low 16 bits. Where
   these start again between t and a later n, the cycles advance by one, and nowhere
   else. *)
LEMMA ShortDistance ==
  ASSUME NEW n \in Nat, NEW t \in Nat, t - 65536 < n, n < t + 65536
  PROVE  /\ ((n % 65536) - (t % 65536)) % 65536 = IF n < t THEN n - t + 65536 ELSE n - t
         /\ t <= n =>
              n - (n % 65536) =
                t - (t % 65536) + (IF n % 65536 < t % 65536 THEN 65536 ELSE 0)
<1>1. PICK c, x \in Int : n % 65536 = x /\ n = 65536 * c + x /\ 0 <= x /\ x < 65536
  BY LowBits
<1>2. PICK d, y \in Int : t % 65536 = y /\ t = 65536 * d + y /\ 0 <= y /\ y < 65536
  BY LowBits
<1>3. (x - y) % 65536 = IF x - y < 0 THEN x - y + 65536 ELSE x - y
  BY <1>1, <1>2, Short
<1>4. c = d \/ c = d + 1 \/ d = c + 1
  <2>1. 65536 * c + x < 65536 * d + y + 65536 /\ 65536 * d + y < 65536 * c + x + 65536
    BY <1>1, <1>2
  <2> QED BY <1>1, <1>2, <2>1, Adjacent
<1>5. (x - y) % 65536 = IF n < t THEN n - t + 65536 ELSE n - t
  BY <1>1, <1>2, <1>3, <1>4
<1>6. t <= n => n - x = t - y + (IF x < y THEN 65536 ELSE 0)
  BY <1>1, <1>2, <1>4
<1>7. n % 65536 = x /\ t % 65536 = y
  BY <1>1, <1>2
<1> QED BY <1>5, <1>6, <1>7

-----------------------------------------------------------------------------
(* The list.                                                               *)

(* What every operation on the list relies on. *)
ListInv == ListTypeOK /\ DoublyLinked /\ PocountExact

(* The members of the list by their positions. *)
LEMMA Members ==
  ASSUME ListInv
  PROVE  /\ Len(order) \in Nat /\ DOMAIN order = 1 .. Len(order)
         /\ Queued \subseteq Slots
         /\ \A k \in 1 .. Len(order) : order[k] \in Slots /\ order[k] # Nil
         /\ \A i \in Slots : i # Nil
         /\ order = <<>> <=> Len(order) = 0
<1>1. order \in Seq(Slots) /\ Slots \subseteq Nat
  BY SlotsAssumption DEF ListInv, ListTypeOK
<1> QED BY <1>1 DEF Queued, Nil

(* A slot of the list has one position; the delimiter stands behind the last. *)
LEMMA Positions ==
  ASSUME ListInv, NEW at \in Queued \cup {Nil}
  PROVE  /\ Position(at) \in 1 .. Len(order) + 1
         /\ at = Nil <=> Position(at) = Len(order) + 1
         /\ at # Nil => order[Position(at)] = at
<1>1. CASE at = Nil
  BY <1>1, Members DEF Position
<1>2. CASE at # Nil
  <2>1. \E k \in 1 .. Len(order) : order[k] = at
    BY <1>2 DEF Queued
  <2>2. Position(at) \in 1 .. Len(order) /\ order[Position(at)] = at
    BY <1>2, <2>1 DEF Position
  <2> QED BY <1>2, <2>2, Members
<1> QED BY <1>1, <1>2

(* Sequences with a member more, and with one less. *)
LEMMA Inserted ==
  ASSUME ListInv, NEW i \in Slots \ Queued, NEW p \in 1 .. Len(order) + 1,
         order' = [k \in 1 .. Len(order) + 1 |->
                     IF k < p THEN order[k] ELSE IF k = p THEN i ELSE order[k - 1]]
  PROVE  /\ order' \in Seq(Slots) /\ Len(order') = Len(order) + 1
         /\ order'[p] = i
         /\ \A k \in 1 .. p - 1 : order'[k] = order[k]
         /\ \A k \in p .. Len(order) : order'[k + 1] = order[k]
         /\ \A j, k \in 1 .. Len(order') : order'[j] = order'[k] => j = k
<1> DEFINE n == Len(order)
<1>1. n \in Nat /\ \A k \in 1 .. n : order[k] \in Slots /\ order[k] # i
  BY Members DEF Queued
<1>2. order' \in [1 .. n + 1 -> Slots]
  BY <1>1
<1>3. order' \in Seq(Slots) /\ Len(order') = n + 1
  BY <1>1, <1>2
<1>4. /\ order'[p] = i
      /\ \A k \in 1 .. p - 1 : order'[k] = order[k]
      /\ \A k \in p + 1 .. n + 1 : order'[k] = order[k - 1]
  BY <1>1
<1>5. \A k \in p .. n : order'[k + 1] = order[k]
  <2> TAKE k \in p .. n
  <2>1. k + 1 \in p + 1 .. n + 1 /\ (k + 1) - 1 = k
    BY <1>1
  <2> QED BY <1>4, <2>1
<1>6. ASSUME NEW j \in 1 .. n + 1, NEW k \in 1 .. n + 1, order'[j] = order'[k]
      PROVE  j = k
  <2>1. \A a, b \in 1 .. n : order[a] = order[b] => a = b
    BY DEF ListInv, DoublyLinked
  <2>2. \A m \in 1 .. n + 1 :
          \/ m < p /\ m \in 1 .. n /\ order'[m] = order[m]
          \/ m = p /\ order'[m] = i
          \/ m > p /\ m - 1 \in 1 .. n /\ order'[m] = order[m - 1]
    BY <1>1, <1>4
  <2> QED BY <1>1, <1>6, <2>1, <2>2
<1> QED BY <1>3, <1>4, <1>5, <1>6

(* The sequence of members with the one at position p taken out. *)
LEMMA Removed ==
  ASSUME ListInv, NEW p \in 1 .. Len(order),
         order' = [k \in 1 .. Len(order) - 1 |-> IF k < p THEN order[k] ELSE order[k + 1]]
  PROVE  /\ order' \in Seq(Slots) /\ Len(order') = Len(order) - 1
         /\ \A k \in 1 .. p - 1 : order'[k] = order[k]
         /\ \A k \in p .. Len(order) - 1 : order'[k] = order[k + 1]
         /\ \A j, k \in 1 .. Len(order') : order'[j] = order'[k] => j = k
<1> DEFINE n == Len(order)
<1>1. n \in Nat /\ n - 1 \in Nat /\ \A k \in 1 .. n : order[k] \in Slots
  BY Members
<1>2. order' \in [1 .. n - 1 -> Slots]
  BY <1>1
<1>3. order' \in Seq(Slots) /\ Len(order') = n - 1
  BY <1>1, <1>2
<1>4. /\ \A k \in 1 .. p - 1 : order'[k] = order[k]
      /\ \A k \in p .. n - 1 : order'[k] = order[k + 1]
  BY <1>1
<1>5. ASSUME NEW j \in 1 .. n - 1, NEW k \in 1 .. n - 1, order'[j] = order'[k]
      PROVE  j = k
  <2>1. \A a, b \in 1 .. n : order[a] = order[b] => a = b
    BY DEF ListInv, DoublyLinked
  <2>2. \A m \in 1 .. n - 1 :
          \/ m < p /\ m \in 1 .. n /\ order'[m] = order[m]
          \/ m >= p /\ m + 1 \in 1 .. n /\ order'[m] = order[m + 1]
    BY <1>1, <1>4
  <2> QED BY <1>1, <1>5, <2>1, <2>2
<1> QED BY <1>3, <1>4, <1>5

(* The neighbours in the list are the links. *)
LEMMA Neighbours ==
  ASSUME ListInv, NEW p \in 1 .. Len(order)
  PROVE  /\ p = 1 => prev[order[p]] = Nil /\ pohead = order[p]
         /\ p = Len(order) => next[order[p]] = Nil /\ potail = order[p]
         /\ p > 1 => p - 1 \in 1 .. Len(order) /\ prev[order[p]] = order[p - 1]
                     /\ next[order[p - 1]] = order[p] /\ order[p - 1] # order[p]
         /\ p < Len(order) => p + 1 \in 1 .. Len(order) /\ next[order[p]] = order[p + 1]
                     /\ prev[order[p + 1]] = order[p] /\ order[p + 1] # order[p]
<1>1. Len(order) \in Nat /\ order # <<>>
  BY Members
<1>2. \A k \in 1 .. Len(order) - 1 : next[order[k]] = order[k + 1] /\ prev[order[k + 1]] = order[k]
  BY DEF ListInv, DoublyLinked
<1>3. \A j, k \in 1 .. Len(order) : order[j] = order[k] => j = k
  BY DEF ListInv, DoublyLinked
<1>4. p = 1 => prev[order[p]] = Nil /\ pohead = order[p]
  BY <1>1 DEF ListInv, DoublyLinked
<1>5. p = Len(order) => next[order[p]] = Nil /\ potail = order[p]
  BY <1>1 DEF ListInv, DoublyLinked
<1>6. ASSUME p > 1
      PROVE  p - 1 \in 1 .. Len(order) /\ prev[order[p]] = order[p - 1]
             /\ next[order[p - 1]] = order[p] /\ order[p - 1] # order[p]
  <2>1. p - 1 \in 1 .. Len(order) - 1 /\ (p - 1) + 1 = p /\ p - 1 \in 1 .. Len(order)
    BY <1>1, <1>6
  <2>2. next[order[p - 1]] = order[(p - 1) + 1] /\ prev[order[(p - 1) + 1]] = order[p - 1]
    BY <1>2, <2>1
  <2> QED BY <1>3, <2>1, <2>2
<1>7. ASSUME p < Len(order)
      PROVE  p + 1 \in 1 .. Len(order) /\ next[order[p]] = order[p + 1]
             /\ prev[order[p + 1]] = order[p] /\ order[p + 1] # order[p]
  <2>1. p \in 1 .. Len(order) - 1 /\ p + 1 \in 1 .. Len(order)
    BY <1>1, <1>7
  <2> QED BY <1>2, <1>3, <2>1
<1> QED BY <1>4, <1>5, <1>6, <1>7

(* To be doubly linked is a matter of each neighbouring pair and of the ends. *)
LEMMA LinkedAnew ==
  ASSUME order' \in Seq(Slots), NEW n \in Nat, Len(order') = n,
         \A j, k \in 1 .. n : order'[j] = order'[k] => j = k,
         n = 0 => pohead' = Nil /\ potail' = Nil,
         n > 0 => /\ pohead' = order'[1] /\ prev'[order'[1]] = Nil
                  /\ potail' = order'[n] /\ next'[order'[n]] = Nil,
         \A k \in 1 .. n - 1 : next'[order'[k]] = order'[k + 1]
                               /\ prev'[order'[k + 1]] = order'[k]
  PROVE  DoublyLinked'
<1>1. order' = <<>> <=> n = 0
  OBVIOUS
<1> QED BY <1>1 DEF DoublyLinked

(* The three ways in which poadd links a slot all put it between its neighbours. *)
LEMMA InsertLinks ==
  ASSUME ListInv, NEW i \in Slots \ Queued, NEW at \in Queued \cup {Nil},
         Insert(i, at), NEW p, p = Position(at)
  PROVE  /\ next' \in [Slots -> Slots \cup {Nil, 0}] /\ prev' \in [Slots -> Slots \cup {Nil, 0}]
         /\ next'[i] = at
         /\ prev'[i] = IF p = 1 THEN Nil ELSE order[p - 1]
         /\ p > 1 => next'[order[p - 1]] = i
         /\ at # Nil => prev'[at] = i
         /\ \A k \in 1 .. Len(order) : k # p - 1 => next'[order[k]] = next[order[k]]
         /\ \A k \in 1 .. Len(order) : k # p => prev'[order[k]] = prev[order[k]]
         /\ pohead' = IF p = 1 THEN i ELSE pohead
         /\ potail' = IF at = Nil THEN i ELSE potail
<1> DEFINE n == Len(order)
<1>1. /\ p \in 1 .. n + 1 /\ n \in Nat
      /\ at = Nil <=> p = n + 1
      /\ at # Nil => order[p] = at /\ p \in 1 .. n
  BY Positions, Members
<1>2. /\ next \in [Slots -> Slots \cup {Nil, 0}] /\ prev \in [Slots -> Slots \cup {Nil, 0}]
      /\ pohead \in Slots \cup {Nil} /\ potail \in Slots \cup {Nil}
      /\ i \in Slots /\ i # Nil /\ \A k \in 1 .. n : order[k] \in Slots /\ order[k] # i
  BY Members DEF ListInv, ListTypeOK, Queued
<1>3. \A j, k \in 1 .. n : order[j] = order[k] => j = k
  BY DEF ListInv, DoublyLinked
<1>4. /\ n = 0 => pohead = Nil /\ potail = Nil
      /\ n > 0 => pohead = order[1] /\ potail = order[n] /\ next[order[n]] = Nil
                  /\ pohead # Nil
  BY <1>1, <1>2, Members DEF ListInv, DoublyLinked
<1>5. at = pohead <=> p = 1
  <2>1. CASE n = 0
    BY <1>1, <1>4, <2>1
  <2>2. CASE n > 0
    BY <1>1, <1>3, <1>4, <2>2
  <2> QED BY <1>1, <2>1, <2>2
<1>6. CASE at = pohead
  <2>1. InsertHead(i) /\ p = 1 /\ p - 1 = 0
    BY <1>5, <1>6, <1>4, Members DEF Insert
  <2>2. next' = [next EXCEPT ![i] = at] /\ pohead' = i
        /\ potail' = IF at = Nil THEN i ELSE potail
    BY <1>6, <2>1 DEF InsertHead
  <2>3. CASE at = Nil
    <3>1. prev' = [prev EXCEPT ![i] = Nil] /\ n = 0
      BY <1>1, <1>6, <2>1, <2>3 DEF InsertHead
    <3> QED BY <1>1, <1>2, <2>1, <2>2, <2>3, <3>1
  <2>4. CASE at # Nil
    <3>1. prev' = [prev EXCEPT ![at] = i, ![i] = Nil] /\ at \in Slots /\ at = order[1]
      BY <1>1, <1>2, <1>6, <2>1, <2>4 DEF InsertHead
    <3>2. \A k \in 1 .. n : k # 1 => order[k] # at
      BY <1>1, <1>3, <2>1, <2>4, <3>1
    <3>3. /\ next' \in [Slots -> Slots \cup {Nil, 0}] /\ next'[i] = at
          /\ \A k \in 1 .. n : next'[order[k]] = next[order[k]]
      BY <1>2, <2>2, <3>1
    <3>4. /\ prev' \in [Slots -> Slots \cup {Nil, 0}] /\ prev'[i] = Nil
          /\ \A k \in 1 .. n : k # 1 => prev'[order[k]] = prev[order[k]]
      BY <1>2, <3>1, <3>2
    <3>5. prev'[at] = i
      <4>1. at # i
        BY <1>1, <1>2, <2>4
      <4> QED BY <1>2, <3>1, <4>1
    <3> QED BY <1>1, <2>1, <2>2, <2>4, <3>3, <3>4, <3>5
  <2> QED BY <2>3, <2>4
<1>7. CASE at # pohead /\ at = Nil
  <2>1. InsertTail(i) /\ p = n + 1 /\ p > 1 /\ n > 0 /\ p - 1 = n /\ p # 1
    BY <1>1, <1>5, <1>7 DEF Insert
  <2>2. /\ next' = [next EXCEPT ![i] = Nil, ![order[n]] = i]
        /\ prev' = [prev EXCEPT ![i] = order[n]]
        /\ potail' = i /\ pohead' = pohead
    BY <1>4, <2>1 DEF InsertTail
  <2>3. \A k \in 1 .. n : k # n => order[k] # order[n]
    <3>1. n \in 1 .. n
      BY <1>1, <2>1
    <3> QED BY <1>3, <3>1
  <2>4. order[n] \in Slots /\ order[n] # i
    BY <1>1, <1>2, <2>1
  <2> QED BY <1>1, <1>2, <1>7, <2>1, <2>2, <2>3, <2>4
<1>8. CASE at # pohead /\ at # Nil
  <2>1. InsertMiddle(i, at) /\ p > 1 /\ p \in 1 .. n /\ order[p] = at
    BY <1>1, <1>5, <1>8 DEF Insert
  <2> DEFINE b == order[p - 1]
  <2>2. p - 1 \in 1 .. n /\ prev[at] = b /\ b # at /\ at \in Slots /\ b \in Slots
        /\ b # i /\ at # i
    BY <1>2, <2>1, Neighbours
  <2>3. /\ next' = [next EXCEPT ![i] = at, ![b] = i]
        /\ prev' = [prev EXCEPT ![i] = b, ![at] = i]
        /\ pohead' = pohead /\ potail' = potail
    BY <2>1, <2>2 DEF InsertMiddle
  <2>4. /\ \A k \in 1 .. n : k # p - 1 => order[k] # b
        /\ \A k \in 1 .. n : k # p => order[k] # at
    BY <1>3, <2>1, <2>2
  <2>5. p # 1
    BY <2>1, <1>1
  <2> HIDE DEF b
  <2>6. /\ next' \in [Slots -> Slots \cup {Nil, 0}] /\ next'[i] = at /\ next'[b] = i
        /\ \A k \in 1 .. n : k # p - 1 => next'[order[k]] = next[order[k]]
    BY <1>2, <2>2, <2>3, <2>4
  <2>7. /\ prev' \in [Slots -> Slots \cup {Nil, 0}] /\ prev'[i] = b /\ prev'[at] = i
        /\ \A k \in 1 .. n : k # p => prev'[order[k]] = prev[order[k]]
    BY <1>2, <2>2, <2>3, <2>4
  <2> QED BY <1>8, <2>3, <2>5, <2>6, <2>7 DEF b
<1> QED BY <1>6, <1>7, <1>8

(* poadd's link in front of a member, or behind the last, keeps the list exact. *)
LEMMA InsertKeeps ==
  ASSUME ListInv, NEW i \in Slots \ Queued, NEW at \in Queued \cup {Nil}, Insert(i, at)
  PROVE  ListInv'
<1> DEFINE n == Len(order)
           p == Position(at)
<1>1. /\ p \in 1 .. n + 1 /\ n \in Nat
      /\ at = Nil <=> p = n + 1
      /\ at # Nil => order[p] = at
  BY Positions, Members
<1>2. order' = [k \in 1 .. n + 1 |->
                  IF k < p THEN order[k] ELSE IF k = p THEN i ELSE order[k - 1]]
  BY DEF Insert
<1> HIDE DEF p
<1>3. /\ order' \in Seq(Slots) /\ Len(order') = n + 1 /\ order'[p] = i
      /\ \A k \in 1 .. p - 1 : order'[k] = order[k]
      /\ \A k \in p .. n : order'[k + 1] = order[k]
      /\ \A j, k \in 1 .. n + 1 : order'[j] = order'[k] => j = k
  <2>1. p \in 1 .. Len(order) + 1
    BY <1>1
  <2>2. order' = [k \in 1 .. Len(order) + 1 |->
                    IF k < p THEN order[k] ELSE IF k = p THEN i ELSE order[k - 1]]
    BY <1>2
  <2>3. /\ order' \in Seq(Slots) /\ Len(order') = Len(order) + 1 /\ order'[p] = i
        /\ \A k \in 1 .. p - 1 : order'[k] = order[k]
        /\ \A k \in p .. Len(order) : order'[k + 1] = order[k]
        /\ \A j, k \in 1 .. Len(order') : order'[j] = order'[k] => j = k
    BY <2>1, <2>2, Inserted
  <2> QED BY <2>3
<1>4. /\ next' \in [Slots -> Slots \cup {Nil, 0}] /\ prev' \in [Slots -> Slots \cup {Nil, 0}]
      /\ next'[i] = at
      /\ prev'[i] = IF p = 1 THEN Nil ELSE order[p - 1]
      /\ p > 1 => next'[order[p - 1]] = i
      /\ at # Nil => prev'[at] = i
      /\ \A k \in 1 .. n : k # p - 1 => next'[order[k]] = next[order[k]]
      /\ \A k \in 1 .. n : k # p => prev'[order[k]] = prev[order[k]]
      /\ pohead' = IF p = 1 THEN i ELSE pohead
      /\ potail' = IF at = Nil THEN i ELSE potail
  BY InsertLinks DEF p
<1>5. n > 0 => /\ pohead = order[1] /\ prev[order[1]] = Nil
               /\ potail = order[n] /\ next[order[n]] = Nil
  BY Members DEF ListInv, DoublyLinked
<1>6. pohead' = order'[1] /\ prev'[order'[1]] = Nil
  <2>1. CASE p = 1
    BY <1>3, <1>4, <2>1
  <2>2. CASE p > 1
    BY <1>1, <1>3, <1>4, <1>5, <2>2
  <2> QED BY <1>1, <2>1, <2>2
<1>7. potail' = order'[n + 1] /\ next'[order'[n + 1]] = Nil
  <2>1. CASE p = n + 1
    BY <1>1, <1>3, <1>4, <2>1
  <2>2. CASE p <= n
    <3>1. n \in p .. n /\ n > 0 /\ n # p - 1 /\ n \in 1 .. n
      BY <1>1, <2>2
    <3> QED BY <1>1, <1>3, <1>4, <1>5, <2>2, <3>1
  <2> QED BY <1>1, <2>1, <2>2
<1>8. ASSUME NEW k \in 1 .. n
      PROVE  next'[order'[k]] = order'[k + 1] /\ prev'[order'[k + 1]] = order'[k]
  <2>1. CASE k + 1 < p
    <3>1. /\ k \in 1 .. p - 1 /\ k + 1 \in 1 .. p - 1 /\ k < n /\ k # p - 1
          /\ k + 1 # p /\ k + 1 \in 1 .. n
      BY <1>1, <2>1
    <3>2. order'[k] = order[k] /\ order'[k + 1] = order[k + 1]
      BY <1>3, <3>1
    <3>3. next[order[k]] = order[k + 1] /\ prev[order[k + 1]] = order[k]
      BY <3>1, Neighbours
    <3> QED BY <1>4, <3>1, <3>2, <3>3
  <2>2. CASE k + 1 = p
    <3>1. k \in 1 .. p - 1 /\ p - 1 = k /\ p > 1 /\ p # 1
      BY <1>1, <2>2
    <3> QED BY <1>3, <1>4, <2>2, <3>1
  <2>3. CASE k = p
    <3>1. k \in p .. n /\ at # Nil /\ order[p] = at
      BY <1>1, <2>3
    <3> QED BY <1>3, <1>4, <2>3, <3>1
  <2>4. CASE k > p
    <3>1. /\ k \in p .. n /\ k - 1 \in p .. n /\ (k - 1) + 1 = k /\ k - 1 \in 1 .. n
          /\ k - 1 # p - 1 /\ k # p /\ k > 1
      BY <1>1, <2>4
    <3>2. order'[k + 1] = order[k] /\ order'[k] = order[k - 1]
      BY <1>3, <3>1
    <3>3. prev[order[k]] = order[k - 1] /\ next[order[k - 1]] = order[k]
      BY <3>1, Neighbours
    <3> QED BY <1>4, <3>1, <3>2, <3>3
  <2> QED BY <1>1, <2>1, <2>2, <2>3, <2>4
<1>9. DoublyLinked'
  <2>1. n + 1 \in Nat /\ n + 1 > 0 /\ (n + 1) - 1 = n
    BY <1>1
  <2> HIDE DEF n
  <2> QED BY <1>3, <1>6, <1>7, <1>8, <2>1, LinkedAnew
<1>10. pocount' = n + 1
  BY DEF Insert, ListInv, PocountExact
<1>11. pohead' \in Slots \cup {Nil} /\ potail' \in Slots \cup {Nil}
  BY <1>4 DEF ListInv, ListTypeOK
<1> QED BY <1>1, <1>3, <1>4, <1>9, <1>10, <1>11 DEF ListInv, ListTypeOK, PocountExact

(* Whichever member is unlinked, its neighbours become neighbours. *)
LEMMA RemoveKeeps ==
  ASSUME ListInv, NEW i \in Queued, Remove(i)
  PROVE  ListInv'
<1> DEFINE n == Len(order)
           p == Position(i)
<1>1. p \in 1 .. n /\ n \in Nat /\ order[p] = i /\ i \in Slots /\ i # Nil
  <2>1. i # Nil /\ i \in Slots
    BY Members
  <2> QED BY <2>1, Positions, Members
<1>2. order' = [k \in 1 .. n - 1 |-> IF k < p THEN order[k] ELSE order[k + 1]]
  BY DEF Remove
<1> HIDE DEF p
<1>3. /\ order' \in Seq(Slots) /\ Len(order') = n - 1
      /\ \A k \in 1 .. p - 1 : order'[k] = order[k]
      /\ \A k \in p .. n - 1 : order'[k] = order[k + 1]
      /\ \A j, k \in 1 .. n - 1 : order'[j] = order'[k] => j = k
  BY <1>1, <1>2, Removed
<1>4. /\ next \in [Slots -> Slots \cup {Nil, 0}] /\ prev \in [Slots -> Slots \cup {Nil, 0}]
      /\ \A k \in 1 .. n : order[k] \in Slots /\ order[k] # Nil
      /\ \A j, k \in 1 .. n : order[j] = order[k] => j = k
  BY Members DEF ListInv, ListTypeOK, DoublyLinked
<1>5. /\ prev[i] = IF p = 1 THEN Nil ELSE order[p - 1]
      /\ next[i] = IF p = n THEN Nil ELSE order[p + 1]
      /\ p > 1 => p - 1 \in 1 .. n
      /\ p < n => p + 1 \in 1 .. n
  BY <1>1, Neighbours
<1>6. /\ next' = IF p = 1 THEN next ELSE [next EXCEPT ![order[p - 1]] = next[i]]
      /\ prev' = IF p = n THEN prev ELSE [prev EXCEPT ![order[p + 1]] = prev[i]]
      /\ pohead' = IF p = 1 THEN next[i] ELSE pohead
      /\ potail' = IF p = n THEN prev[i] ELSE potail
      /\ pocount' = pocount - 1
  <2>1. (prev[i] = Nil <=> p = 1) /\ (next[i] = Nil <=> p = n)
    <3>1. (p = 1 \/ p > 1) /\ (p = n \/ p < n) /\ (p > 1 => p # 1) /\ (p < n => p # n)
      BY <1>1
    <3> QED BY <1>4, <1>5, <3>1
  <2> QED BY <1>5, <2>1 DEF Remove, Unlink
<1>7. /\ next' \in [Slots -> Slots \cup {Nil, 0}] /\ prev' \in [Slots -> Slots \cup {Nil, 0}]
      /\ \A k \in 1 .. n : next'[order[k]] = IF k = p - 1 THEN next[i] ELSE next[order[k]]
      /\ \A k \in 1 .. n : prev'[order[k]] = IF k = p + 1 THEN prev[i] ELSE prev[order[k]]
  BY <1>1, <1>4, <1>5, <1>6
<1>8. pohead = order[1] /\ potail = order[n]
  BY <1>1, Members DEF ListInv, DoublyLinked
<1>9. n - 1 = 0 => pohead' = Nil /\ potail' = Nil
  <2>1. n - 1 = 0 => p = 1 /\ p = n
    BY <1>1
  <2> QED BY <1>5, <1>6, <2>1
<1>10. n - 1 > 0 => pohead' = order'[1] /\ prev'[order'[1]] = Nil
  <2>1. CASE p = 1 /\ n > 1
    <3>1. 1 \in p .. n - 1 /\ p + 1 = 2 /\ 1 + 1 = 2 /\ 2 \in 1 .. n /\ p # n
      BY <1>1, <2>1
    <3> QED BY <1>3, <1>5, <1>6, <1>7, <2>1, <3>1
  <2>2. CASE p > 1
    <3>1. 1 \in 1 .. p - 1 /\ 1 # p + 1 /\ 1 \in 1 .. n /\ p # 1
      BY <1>1, <2>2
    <3>2. prev[order[1]] = Nil
      BY <3>1, Neighbours
    <3> QED BY <1>3, <1>6, <1>7, <1>8, <3>1, <3>2
  <2> QED BY <1>1, <2>1, <2>2
<1>11. n - 1 > 0 => potail' = order'[n - 1] /\ next'[order'[n - 1]] = Nil
  <2>1. CASE p = n /\ n > 1
    <3>1. n - 1 \in 1 .. p - 1 /\ n - 1 = p - 1 /\ n - 1 \in 1 .. n /\ p # 1
      BY <1>1, <2>1
    <3> QED BY <1>3, <1>5, <1>6, <1>7, <2>1, <3>1
  <2>2. CASE p < n
    <3>0. p \in Int /\ n \in Int /\ 1 <= p /\ p <= n - 1
      BY <1>1, <2>2
    <3>1. n - 1 \in p .. n - 1 /\ (n - 1) + 1 = n /\ n # p - 1 /\ n \in 1 .. n /\ p # n
      BY <3>0
    <3>2. next[order[n]] = Nil
      BY <3>1, Neighbours
    <3> QED BY <1>3, <1>6, <1>7, <1>8, <3>1, <3>2
  <2> QED BY <1>1, <2>1, <2>2
<1>12. ASSUME NEW k \in 1 .. (n - 1) - 1
       PROVE  next'[order'[k]] = order'[k + 1] /\ prev'[order'[k + 1]] = order'[k]
  <2>0. k \in 1 .. n /\ k + 1 \in 1 .. n /\ k < n /\ k + 1 > 1 /\ (k + 1) - 1 = k
        /\ k + 1 < n /\ k + 1 \in 1 .. n - 1 /\ k \in 1 .. n - 1 /\ k \in Int
    BY <1>1
  <2>1. CASE k + 1 < p
    <3>1. k \in 1 .. p - 1 /\ k + 1 \in 1 .. p - 1 /\ k # p - 1 /\ k + 1 # p + 1
      BY <1>1, <2>0, <2>1
    <3>2. next[order[k]] = order[k + 1] /\ prev[order[k + 1]] = order[k]
      BY <2>0, Neighbours
    <3> QED BY <1>3, <1>7, <2>0, <3>1, <3>2
  <2>2. CASE k + 1 = p
    <3>1. k \in 1 .. p - 1 /\ k = p - 1 /\ p \in p .. n - 1 /\ p # 1 /\ p # n
          /\ p + 1 \in 1 .. n
      BY <1>1, <2>0, <2>2
    <3>2. order'[k] = order[p - 1] /\ order'[k + 1] = order[p + 1]
      BY <1>3, <2>2, <3>1
    <3> QED BY <1>5, <1>7, <2>0, <3>1, <3>2
  <2>3. CASE k >= p
    <3>1. /\ k \in p .. n - 1 /\ k + 1 \in p .. n - 1 /\ k + 1 # p - 1
          /\ (k + 1) + 1 \in 1 .. n /\ (k + 1) + 1 # p + 1
      BY <1>1, <2>0, <2>3
    <3>2. order'[k] = order[k + 1] /\ order'[k + 1] = order[(k + 1) + 1]
      BY <1>3, <3>1
    <3>3. next[order[k + 1]] = order[(k + 1) + 1] /\ prev[order[(k + 1) + 1]] = order[k + 1]
      BY <2>0, Neighbours
    <3> QED BY <1>7, <2>0, <3>1, <3>2, <3>3
  <2> QED BY <1>1, <2>0, <2>1, <2>2, <2>3
<1>13. DoublyLinked'
  <2>1. n - 1 \in Nat
    BY <1>1
  <2> DEFINE m == n - 1
  <2> HIDE DEF m
  <2> QED BY <1>3, <1>9, <1>10, <1>11, <1>12, <2>1, LinkedAnew DEF m
<1>14. pohead' \in Slots \cup {Nil} /\ potail' \in Slots \cup {Nil}
  <2>1. prev[i] \in Slots \cup {Nil} /\ next[i] \in Slots \cup {Nil}
    BY <1>1, <1>4, <1>5
  <2> QED BY <1>6, <2>1 DEF ListInv, ListTypeOK
<1> QED BY <1>1, <1>3, <1>6, <1>7, <1>13, <1>14 DEF ListInv, ListTypeOK, PocountExact

(* podel_all leaves an empty list that is exact. *)
LEMMA RemoveAllKeeps ==
  ASSUME ListInv, RemoveAll
  PROVE  ListInv'
<1>1. order' = <<>> /\ Len(order') = 0 /\ order' \in Seq(Slots)
  BY DEF RemoveAll
<1>2. pocount' = 0
  BY Members DEF RemoveAll, ListInv, PocountExact
<1>3. next' \in [Slots -> Slots \cup {Nil, 0}] /\ prev' \in [Slots -> Slots \cup {Nil, 0}]
  BY DEF RemoveAll, ListInv, ListTypeOK
<1> QED BY <1>1, <1>2, <1>3 DEF RemoveAll, ListInv, ListTypeOK, DoublyLinked, PocountExact

(* The list poinit makes is empty and exact. *)
LEMMA ListInitInv == ListInit => ListInv
<1> SUFFICES ASSUME ListInit PROVE ListInv
  OBVIOUS
<1>1. order = <<>> /\ Len(order) = 0 /\ order \in Seq(Slots)
  BY DEF ListInit
<1> QED BY <1>1 DEF ListInit, ListInv, ListTypeOK, DoublyLinked, PocountExact

(* The list alone, wherever poadd inserts: whatever the sequence of insertions,
   removals and flushes, the links, the ends and the count describe one list. *)
THEOREM ListSafe == ListSpec => [](DoublyLinked /\ PocountExact)
<1>1. ASSUME ListInv, [ListNext]_listVars PROVE ListInv'
  <2>1. CASE ListNext
    BY <1>1, <2>1, InsertKeeps, RemoveKeeps, RemoveAllKeeps DEF ListNext
  <2>2. CASE UNCHANGED listVars
    BY <1>1, <2>2 DEF listVars, ListInv, ListTypeOK, DoublyLinked, PocountExact
  <2> QED BY <1>1, <2>1, <2>2
<1>2. ListInv => DoublyLinked /\ PocountExact
  BY DEF ListInv
<1> QED BY <1>1, <1>2, ListInitInv, PTL DEF ListSpec

-----------------------------------------------------------------------------
(* The statistics.                                                         *)

Seq16 == 0 .. RTP_SEQ_MOD - 1
Words == 0 .. Word - 1
Probation == 0 .. MIN_SEQUENTIAL

(* struct rtp_ssrc_stats, as far as it is modelled. *)
Stats == [max_seq : Seq16, cycles : Words, base_seq : Int, bad_seq : Int,
          probation : Probation, received : Int, expected_prior : Int,
          received_prior : Int]

(* The numbers the code writes down are of the types it keeps them in. *)
LEMMA Literals ==
  /\ RTP_SEQ_MOD \in Nat \ {0} /\ 0 \in Seq16 /\ 0 \in Words
  /\ Seq16 \subseteq Nat /\ Words \subseteq Nat
  /\ {0, 1, 2} \subseteq Probation /\ MIN_SEQUENTIAL = 2
<1>1. RTP_SEQ_MOD = 65536
  BY DEF RTP_SEQ_MOD
<1>2. 0 \in Words /\ Words \subseteq Nat
  BY <1>1, WordAssumption DEF Words
<1> QED BY <1>1, <1>2 DEF Seq16, Probation, MIN_SEQUENTIAL

(* What arithmetic leaves in a 16-bit number, or in a word, is one. *)
LEMMA WordsTyped ==
  ASSUME NEW n \in Int
  PROVE  SeqOf(n) \in Seq16 /\ n % RTP_SEQ_MOD \in Seq16 /\ n % Word \in Words
<1>1. \A w \in Nat \ {0} : n % w \in 0 .. w - 1
  OBVIOUS
<1>2. n % RTP_SEQ_MOD \in Seq16
  BY <1>1, Literals DEF Seq16
<1>3. n % Word \in Words
  BY <1>1, WordAssumption DEF Words, RTP_SEQ_MOD
<1> QED BY <1>2, <1>3 DEF SeqOf

(* Whatever rtp_recv does with a packet's sequence number leaves statistics. *)
LEMMA RestartTyped ==
  ASSUME NEW st \in Stats, NEW seq \in Seq16
  PROVE  /\ FirstPacket(st, seq) \in Stats
         /\ Restarted(st, seq) \in Stats /\ SeekReset(st, seq) \in Stats
<1> DEFINE m == (seq - 1) % RTP_SEQ_MOD
           b == (seq - 1) % Word
           bad == RTP_SEQ_MOD + 1
           zero == 0
           one == 1
<1>1. m \in Seq16 /\ b \in Int /\ bad \in Int
  <2>1. seq - 1 \in Int /\ bad \in Int
    BY Literals
  <2>2. m \in Seq16 /\ b \in Words
    BY <2>1, WordsTyped
  <2>3. \A w \in Words : w \in Int
    BY Literals
  <2> QED BY <2>1, <2>2, <2>3
<1>2. FirstPacket(st, seq) = [st EXCEPT !.probation = MIN_SEQUENTIAL, !.max_seq = m]
  BY DEF FirstPacket
<1>3. Restarted(st, seq) = [st EXCEPT !.base_seq = b, !.max_seq = seq, !.bad_seq = bad,
        !.cycles = zero, !.received = zero, !.received_prior = zero, !.expected_prior = one]
  BY DEF Restarted
<1>7. zero \in Words /\ zero \in Int /\ one \in Int
  BY Literals
<1> HIDE DEF m, b, bad, zero, one
<1>4. FirstPacket(st, seq) \in Stats
  BY <1>1, <1>2, Literals DEF Stats
<1>5. Restarted(st, seq) \in Stats
  BY <1>1, <1>3, <1>7 DEF Stats
<1>6. SeekReset(st, seq) \in Stats
  BY <1>5, Literals DEF SeekReset, Stats
<1> QED BY <1>4, <1>5, <1>6

(* rtp_update_seq leaves statistics, whatever the number it is given. *)
LEMMA UpdateTyped ==
  ASSUME NEW st \in Stats, NEW seq \in Seq16
  PROVE  UpdateSeq(st, seq) \in Stats
<1>1. /\ (seq + 1) % RTP_SEQ_MOD \in Int /\ (st.cycles + RTP_SEQ_MOD) % Word \in Words
      /\ {0, 1, 2} \subseteq Probation /\ MIN_SEQUENTIAL - 1 \in Probation
  <2>1. seq \in Nat /\ st.cycles \in Nat
    BY Literals DEF Stats
  <2>2. st.cycles + RTP_SEQ_MOD \in Int /\ seq + 1 \in Int
    BY <2>1, Literals
  <2>3. (seq + 1) % RTP_SEQ_MOD \in Seq16 /\ (st.cycles + RTP_SEQ_MOD) % Word \in Words
    BY <2>2, WordsTyped
  <2> QED BY <2>3, Literals
<1>2. ASSUME NEW r \in Stats PROVE Received(r) \in Stats
  BY DEF Received, Stats
<1>3. InitSeq(st, seq) \in Stats
  <2>1. [Restarted(st, seq) EXCEPT !.probation = 0] \in Stats
    BY <1>1, RestartTyped DEF Stats
  <2> QED BY <1>2, <2>1 DEF InitSeq
<1>4. ASSUME st.probation # 0 PROVE OnProbation(st, seq) \in Stats
  <2>1. st.probation - 1 \in Probation
    BY <1>4 DEF Stats, Probation, MIN_SEQUENTIAL
  <2> QED BY <1>1, <2>1 DEF OnProbation, Stats
<1>5. Advanced(st, seq) \in Stats
  <2> DEFINE c == IF seq < st.max_seq THEN (st.cycles + RTP_SEQ_MOD) % Word ELSE st.cycles
  <2>1. c \in Words
    BY <1>1 DEF Stats
  <2>2. Advanced(st, seq) = Received([st EXCEPT !.cycles = c, !.max_seq = seq])
    BY DEF Advanced, Stats
  <2> HIDE DEF c
  <2>3. [st EXCEPT !.cycles = c, !.max_seq = seq] \in Stats
    BY <2>1 DEF Stats
  <2> QED BY <1>2, <2>2, <2>3
<1>6. Suspected(st, seq) \in Stats
  BY <1>1 DEF Suspected, Stats
<1> QED BY <1>2, <1>3, <1>4, <1>5, <1>6 DEF UpdateSeq

-----------------------------------------------------------------------------
(* The search of poadd.                                                    *)

Begin == [at |-> pohead, cycles |-> pocycles]

(* The turns of the loop, for any set S of its states that no turn leaves. *)
LEMMA SearchRuns ==
  ASSUME NEW S, Begin \in S, NEW cseq, \A t \in S : Turn(cseq, t) \in S
  PROVE  \E g \in [0 .. Cardinality(Slots) -> S] :
           /\ g[0] = Begin
           /\ \A k \in 1 .. Cardinality(Slots) : g[k] = Turn(cseq, g[k - 1])
           /\ Search(cseq) = g[Cardinality(Slots)]
<1> DEFINE N == Cardinality(Slots)
           turn[k \in 0 .. N] == IF k = 0 THEN Begin ELSE Turn(cseq, turn[k - 1])
           F == [t \in S |-> Turn(cseq, t)]
<1>1. N \in Nat
  BY DeliveriesAssumption, FS_CardinalityType
<1>2. PICK g \in [0 .. N -> S] : g[0] = Begin /\ \A k \in 1 .. N : g[k] = F[g[k - 1]]
  <2>1. F \in [S -> S]
    OBVIOUS
  <2> HIDE DEF F, N
  <2>2. PICK g : IsRun(g, N, S, Begin, F)
    BY <1>1, <2>1, Iterates
  <2> QED BY <2>2 DEF IsRun
<1>3. \A k \in 1 .. N : k - 1 \in 0 .. N /\ g[k - 1] \in S /\ k # 0
  BY <1>1, <1>2
<1>4. g = [k \in 0 .. N |-> IF k = 0 THEN Begin ELSE Turn(cseq, g[k - 1])]
  <2>1. ASSUME NEW k \in 0 .. N
        PROVE  g[k] = IF k = 0 THEN Begin ELSE Turn(cseq, g[k - 1])
    <3>1. CASE k = 0
      BY <1>2, <3>1
    <3>2. CASE k # 0
      <4>1. k \in 1 .. N
        BY <1>1, <3>2
      <4>2. g[k] = F[g[k - 1]] /\ g[k - 1] \in S
        BY <1>2, <1>3, <4>1
      <4> QED BY <3>2, <4>2
    <3> QED BY <3>1, <3>2
  <2> QED BY <1>2, <2>1
<1>5. turn = [k \in 0 .. N |-> IF k = 0 THEN Begin ELSE Turn(cseq, turn[k - 1])]
  BY <1>4, Zenon
<1>6. Search(cseq) = turn[N]
  BY DEF Search, Begin
<1> HIDE DEF turn
<1>7. 0 \in 0 .. N /\ \A k \in 1 .. N : k \in 0 .. N /\ k # 0
  BY <1>1
<1>8. turn[0] = Begin /\ \A k \in 1 .. N : turn[k] = Turn(cseq, turn[k - 1])
  <2>1. \A k \in 0 .. N : turn[k] = IF k = 0 THEN Begin ELSE Turn(cseq, turn[k - 1])
    BY <1>5, Zenon
  <2> QED BY <1>7, <2>1, Zenon
<1>9. \A k \in 0 .. N : turn[k] \in S
  <2> DEFINE T == {k \in 0 .. N : turn[k] \in S}
  <2>1. 0 \in T
    BY <1>1, <1>8
  <2>2. ASSUME NEW k \in 0 .. N - 1, k \in T PROVE k + 1 \in T
    <3>1. k + 1 \in 1 .. N /\ k + 1 \in 0 .. N /\ (k + 1) - 1 = k
      BY <1>1
    <3>2. turn[k + 1] = Turn(cseq, turn[(k + 1) - 1]) /\ turn[k] \in S
      BY <1>8, <2>2, <3>1
    <3> QED BY <3>1, <3>2
  <2> HIDE DEF T
  <2>3. 0 .. N \subseteq T
    BY <1>1, <2>1, <2>2, UpTo
  <2> QED BY <2>3 DEF T
<1>10. turn \in [0 .. N -> S]
  <2>1. turn = [k \in 0 .. N |-> turn[k]]
    BY <1>5, Zenon
  <2> QED BY <1>9, <2>1
<1> QED BY <1>6, <1>8, <1>10

(* The search stops at a member of the list or at its end. *)
Places == [at : Queued \cup {Nil}, cycles : Words]

(* The ends and the links of the list lead to members of it, or nowhere. *)
LEMMA HeadQueued ==
  ASSUME ListInv
  PROVE  /\ pohead \in Queued \cup {Nil} /\ potail \in Queued \cup {Nil}
         /\ \A i \in Queued : next[i] \in Queued \cup {Nil}
<1>1. Len(order) \in Nat /\ (order = <<>> <=> Len(order) = 0)
  BY Members
<1>2. pohead \in Queued \cup {Nil} /\ potail \in Queued \cup {Nil}
  BY <1>1 DEF ListInv, DoublyLinked, Queued
<1>3. ASSUME NEW i \in Queued PROVE next[i] \in Queued \cup {Nil}
  <2>1. PICK p \in 1 .. Len(order) : order[p] = i
    BY DEF Queued
  <2>2. p = Len(order) \/ p < Len(order)
    BY <1>1
  <2> QED BY <2>1, <2>2, Neighbours DEF Queued
<1> QED BY <1>2, <1>3

(* A turn of poadd's search stays on the list. *)
LEMMA TurnStays ==
  ASSUME ListInv, NEW cseq, NEW t \in Places
  PROVE  Turn(cseq, t) \in Places
<1>1. t.at \in Queued \cup {Nil} /\ t.cycles \in Words /\ (t.cycles - SEQ_MAX_NUMBER) % Word \in Words
  <2>1. t.at \in Queued \cup {Nil} /\ t.cycles \in Words
    BY DEF Places
  <2>2. t.cycles - SEQ_MAX_NUMBER \in Int
    <3>1. \A w \in Words : w \in Nat
      BY Literals
    <3>2. t.cycles \in Nat /\ SEQ_MAX_NUMBER \in Nat
      BY <2>1, <3>1 DEF SEQ_MAX_NUMBER
    <3> QED BY <3>2
  <2> QED BY <2>1, <2>2, WordsTyped
<1>2. CASE t.at = Nil \/ Extended(pkt[t.at], t.cycles) <= cseq
  BY <1>2 DEF Turn
<1>3. CASE ~ (t.at = Nil \/ Extended(pkt[t.at], t.cycles) <= cseq)
  <2>1. next[t.at] \in Queued \cup {Nil}
    BY <1>1, <1>3, HeadQueued
  <2> DEFINE c == IF Wraps(t.at) THEN (t.cycles - SEQ_MAX_NUMBER) % Word ELSE t.cycles
  <2>2. c \in Words
    BY <1>1
  <2>3. Turn(cseq, t) = [at |-> next[t.at], cycles |-> c]
    BY <1>3 DEF Turn
  <2> HIDE DEF c
  <2> QED BY <2>1, <2>2, <2>3 DEF Places
<1> QED BY <1>2, <1>3

(* poadd's search ends at a member of the list, or behind the last. *)
LEMMA SearchStops ==
  ASSUME ListInv, pocycles \in Words, NEW cseq
  PROVE  Search(cseq) \in Places
<1>1. Begin \in Places
  BY HeadQueued DEF Begin, Places
<1>2. PICK g \in [0 .. Cardinality(Slots) -> Places] : Search(cseq) = g[Cardinality(Slots)]
  BY <1>1, TurnStays, SearchRuns
<1>3. Cardinality(Slots) \in 0 .. Cardinality(Slots)
  BY DeliveriesAssumption, FS_CardinalityType
<1> QED BY <1>2, <1>3

-----------------------------------------------------------------------------
(* The words besides the list. *)
BufferInv ==
  /\ pkt \in [Slots -> Nat]
  /\ pocycles \in Words
  /\ stats \in Stats
  /\ {known, done_seek} \subseteq BOOLEAN
  /\ net \in Seq(Nat \ {0})

(* A packet that is received, kept or dropped leaves the list exact. *)
LEMMA ReceiveKeeps ==
  ASSUME ListInv, BufferInv, NEW i \in Slots \ Queued, Receive(i)
  PROVE  ListInv' /\ BufferInv'
<1>1. Head(net) \in Nat \ {0} /\ net' \in Seq(Nat \ {0})
  BY DEF Receive, BufferInv
<1>2. SeqOf(Head(net)) \in Seq16
  <2>1. Head(net) \in Int
    BY <1>1
  <2> QED BY <2>1, WordsTyped
<1>3. stats' \in Stats
  BY <1>2, RestartTyped, UpdateTyped DEF Receive, Prepared, BufferInv
<1>4. stats'.cycles \in Words
  BY <1>3 DEF Stats
<1> DEFINE n == Head(net)
           stop == Search(Extended(n, stats'.cycles))
<1>5. stop \in Places
  BY SearchStops DEF BufferInv
<1>6. \/ UNCHANGED <<listVars, pkt, pocycles>>
      \/ /\ Insert(i, stop.at)
         /\ pkt' = [pkt EXCEPT ![i] = n]
         /\ pocycles' = IF stop.at = pohead THEN stats'.cycles ELSE pocycles
  BY DEF Receive, PoAdd
<1> HIDE DEF stop
<1>7. stop.at \in Queued \cup {Nil}
  BY <1>5 DEF Places
<1>8. ListInv'
  <2>1. CASE UNCHANGED <<listVars, pkt, pocycles>>
    BY <2>1 DEF listVars, ListInv, ListTypeOK, DoublyLinked, PocountExact
  <2> QED BY <1>6, <1>7, <2>1, InsertKeeps
<1>9. pkt' \in [Slots -> Nat] /\ pocycles' \in Words
  BY <1>1, <1>4, <1>6 DEF BufferInv
<1>10. {known', done_seek'} \subseteq BOOLEAN
  BY DEF Receive, BufferInv
<1> QED BY <1>1, <1>3, <1>8, <1>9, <1>10 DEF BufferInv

(* What is left of a sequence of S is a sequence of S. *)
LEMMA SuffixOf ==
  ASSUME NEW S, NEW s \in Seq(S), NEW k \in 1 .. Len(s) + 1
  PROVE  SubSeq(s, k, Len(s)) \in Seq(S)
BY SubSeqProperties

(* Every step of the buffer keeps the list exact and its values typed. *)
LEMMA NextInv ==
  ASSUME ListInv, BufferInv, [Next]_vars
  PROVE  ListInv' /\ BufferInv'
<1>1. ASSUME NEW i \in Slots \ Queued, Receive(i) PROVE ListInv' /\ BufferInv'
  BY <1>1, ReceiveKeeps
<1>2. CASE PlayPkt
  <2>1. potail \in Queued /\ potail \in Slots /\ Remove(potail)
    BY <1>2, HeadQueued, Members DEF PlayPkt
  <2>2. ListInv'
    BY <2>1, RemoveKeeps
  <2> QED BY <1>2, <2>1, <2>2 DEF PlayPkt, BufferInv
<1>3. CASE Seek
  <2>1. ListInv'
    BY <1>3, RemoveAllKeeps DEF Seek
  <2>2. net' \in Seq(Nat \ {0})
    BY <1>3, SuffixOf DEF Seek, BufferInv
  <2> QED BY <1>3, <2>1, <2>2 DEF Seek, BufferInv
<1>4. CASE UNCHANGED vars
  BY <1>4 DEF vars, listVars, ListInv, ListTypeOK, DoublyLinked, PocountExact, BufferInv
<1> QED BY <1>1, <1>2, <1>3, <1>4 DEF Next, Done

(* The buffer is made empty, with statistics of zero. *)
LEMMA InitInv == Init => ListInv /\ BufferInv
<1> SUFFICES ASSUME Init PROVE ListInv /\ BufferInv
  OBVIOUS
<1>1. ListInv
  BY ListInitInv DEF Init
<1>2. ZeroStats \in Stats
  BY Literals DEF ZeroStats, Stats
<1>3. net \in Seq(Nat \ {0})
  BY DeliveriesAssumption DEF Init
<1>4. pkt \in [Slots -> Nat] /\ pocycles \in Words /\ {known, done_seek} \subseteq BOOLEAN
  BY Literals DEF Init
<1>5. stats \in Stats
  BY <1>2 DEF Init
<1> QED BY <1>1, <1>3, <1>4, <1>5 DEF BufferInv

(* Whatever is delivered, in whatever order and however often, played and
   flushed: the playout buffer is one doubly linked list of distinct slots, its
   ends and its count are right, and the counters are the words they should be. *)
THEOREM BufferSafe == Spec => []ListOK
<1>1. ListInv /\ BufferInv /\ [Next]_vars => (ListInv /\ BufferInv)'
  BY NextInv
<1>2. ListInv /\ BufferInv => ListOK
  BY DEF ListInv, BufferInv, ListOK, TypeOK, Stats, Seq16, Words, Probation
<1> QED BY <1>1, <1>2, InitInv, PTL DEF Spec

-----------------------------------------------------------------------------
(* The order.                                                              *)

(* Each place in the list has the member that stands there. *)
LEMMA PositionOf ==
  ASSUME ListInv, NEW k \in 1 .. Len(order)
  PROVE  Position(order[k]) = k /\ order[k] \in Queued /\ order[k] # Nil
<1>1. order[k] \in Queued /\ order[k] # Nil
  BY Members DEF Queued
<1>2. Position(order[k]) \in 1 .. Len(order) /\ order[Position(order[k])] = order[k]
  BY <1>1, Positions, Members DEF Position
<1> QED BY <1>1, <1>2 DEF ListInv, DoublyLinked

(* The search starts at the first place. *)
LEMMA HeadPosition ==
  ASSUME ListInv
  PROVE  /\ Len(order) = 0 => pohead = Nil
         /\ Len(order) > 0 => pohead = order[1] /\ pohead # Nil /\ pohead \in Queued
         /\ pohead \in Queued \cup {Nil} /\ Position(pohead) = 1
<1>1. Len(order) \in Nat /\ (order = <<>> <=> Len(order) = 0)
  BY Members
<1>2. CASE Len(order) = 0
  <2>1. pohead = Nil
    BY <1>1, <1>2 DEF ListInv, DoublyLinked
  <2> QED BY <1>2, <2>1 DEF Position
<1>3. CASE Len(order) > 0
  <2>1. pohead = order[1] /\ 1 \in 1 .. Len(order)
    BY <1>1, <1>3 DEF ListInv, DoublyLinked
  <2> QED BY <1>3, <2>1, PositionOf
<1> QED BY <1>1, <1>2, <1>3

(* The link of a member leads to the place behind it. *)
LEMMA NextPosition ==
  ASSUME ListInv, NEW at \in Queued
  PROVE  /\ Position(at) \in 1 .. Len(order) /\ order[Position(at)] = at
         /\ next[at] \in Queued \cup {Nil}
         /\ Position(next[at]) = Position(at) + 1
         /\ next[at] # Nil => Position(at) < Len(order) /\ next[at] = order[Position(at) + 1]
<1>1. at # Nil /\ Len(order) \in Nat
  BY Members
<1>2. Position(at) \in 1 .. Len(order) /\ order[Position(at)] = at
  BY <1>1, Positions
<1> DEFINE p == Position(at)
<1> HIDE DEF p
<1>3. p \in 1 .. Len(order) /\ order[p] = at
  BY <1>2 DEF p
<1>4. CASE p = Len(order)
  <2>1. next[at] = Nil
    BY <1>3, <1>4, Neighbours
  <2>2. Position(Nil) = Len(order) + 1
    BY Positions
  <2> QED BY <1>2, <1>4, <2>1, <2>2 DEF p
<1>5. CASE p < Len(order)
  <2>1. next[at] = order[p + 1] /\ p + 1 \in 1 .. Len(order)
    BY <1>3, <1>5, Neighbours
  <2>2. Position(next[at]) = p + 1 /\ next[at] \in Queued
    BY <2>1, PositionOf
  <2> QED BY <1>2, <1>5, <2>1, <2>2 DEF p
<1> QED BY <1>1, <1>3, <1>4, <1>5

(* The list has no more members than there are slots. *)
LEMMA ListFits ==
  ASSUME ListInv
  PROVE  Len(order) <= Cardinality(Slots)
<1>1. Cardinality(Slots) \in Nat /\ Len(order) \in Nat /\ IsFiniteSet(Slots)
  BY DeliveriesAssumption, FS_CardinalityType, Members
<1>2. IsFiniteSet(1 .. Len(order)) /\ Cardinality(1 .. Len(order)) = Len(order)
  <2>1. 1 \in Int /\ Len(order) \in Int /\ (1 > Len(order) => Len(order) = 0)
    BY <1>1
  <2>2. Len(order) - 1 + 1 = Len(order)
    BY <1>1
  <2> QED BY <2>1, <2>2, FS_Interval, SMTT(30)
<1>3. order \in [1 .. Len(order) -> Slots]
  BY Members DEF ListInv, ListTypeOK
<1>4. \A j, k \in 1 .. Len(order) : order[j] = order[k] => j = k
  BY DEF ListInv, DoublyLinked
<1>5. ~ Cardinality(Slots) < Len(order)
  BY <1>1, <1>2, <1>3, <1>4, FS_PigeonHole
<1> QED BY <1>1, <1>5

(* Older packets are nearer the tail, not only next to one another. *)
LEMMA Descending ==
  ASSUME ListInv, BufferInv, InPlayOrder,
         NEW j \in 1 .. Len(order), NEW k \in 1 .. Len(order), j < k
  PROVE  pkt[order[j]] > pkt[order[k]]
<1> DEFINE n == Len(order)
           T == {d \in 0 .. n - j - 1 : pkt[order[j]] > pkt[order[(j + d) + 1]]}
<1>1. n \in Nat /\ \A i \in 1 .. n : pkt[order[i]] \in Nat
  BY Members DEF BufferInv
<1>2. \A i \in 1 .. n - 1 : pkt[order[i]] > pkt[order[i + 1]]
  BY DEF InPlayOrder
<1>3. n - j - 1 \in Nat /\ k - j - 1 \in 0 .. n - j - 1 /\ (j + (k - j - 1)) + 1 = k
      /\ j \in 1 .. n - 1 /\ (j + 0) + 1 = j + 1
  BY <1>1
<1>4. 0 \in T
  BY <1>2, <1>3
<1>5. ASSUME NEW d \in 0 .. (n - j - 1) - 1, d \in T PROVE d + 1 \in T
  <2>1. /\ d + 1 \in 0 .. n - j - 1 /\ (j + (d + 1)) + 1 = ((j + d) + 1) + 1
        /\ (j + d) + 1 \in 1 .. n - 1 /\ ((j + d) + 1) + 1 \in 1 .. n /\ (j + d) + 1 \in 1 .. n
    BY <1>1, <1>3
  <2>2. pkt[order[(j + d) + 1]] > pkt[order[((j + d) + 1) + 1]]
    BY <1>2, <2>1
  <2>3. pkt[order[j]] > pkt[order[(j + d) + 1]]
    BY <1>5
  <2>4. pkt[order[j]] > pkt[order[((j + d) + 1) + 1]]
    BY <1>1, <2>1, <2>2, <2>3
  <2> QED BY <2>1, <2>4
<1> HIDE DEF T
<1>6. 0 .. n - j - 1 \subseteq T
  BY <1>3, <1>4, <1>5, UpTo
<1>7. k - j - 1 \in T
  BY <1>3, <1>6
<1> QED BY <1>3, <1>7 DEF T

(* The members after an insertion and a removal. *)
LEMMA InsertMembers ==
  ASSUME ListInv, NEW i \in Slots \ Queued, NEW at \in Queued \cup {Nil}, Insert(i, at)
  PROVE  Queued' = Queued \cup {i}
<1> DEFINE p == Position(at)
<1>1. p \in 1 .. Len(order) + 1 /\ Len(order) \in Nat
  BY Positions, Members
<1>2. order' = [k \in 1 .. Len(order) + 1 |->
                  IF k < p THEN order[k] ELSE IF k = p THEN i ELSE order[k - 1]]
  BY DEF Insert
<1> HIDE DEF p
<1>3. /\ Len(order') = Len(order) + 1 /\ order'[p] = i
      /\ \A k \in 1 .. p - 1 : order'[k] = order[k]
      /\ \A k \in p .. Len(order) : order'[k + 1] = order[k]
  BY <1>1, <1>2, Inserted
<1>4. ASSUME NEW k \in 1 .. Len(order') PROVE order'[k] \in Queued \cup {i}
  <2>1. k < p \/ k = p \/ (k - 1 \in p .. Len(order) /\ (k - 1) + 1 = k)
    BY <1>1, <1>3
  <2>2. CASE k < p
    <3>1. k \in 1 .. p - 1 /\ k \in 1 .. Len(order)
      BY <1>1, <1>3, <2>2
    <3> QED BY <1>3, <3>1 DEF Queued
  <2>3. CASE k = p
    BY <1>3, <2>3
  <2>4. CASE k - 1 \in p .. Len(order) /\ (k - 1) + 1 = k
    <3>1. order'[k] = order[k - 1] /\ k - 1 \in 1 .. Len(order)
      BY <1>1, <1>3, <2>4
    <3> QED BY <3>1 DEF Queued
  <2> QED BY <2>1, <2>2, <2>3, <2>4
<1>5. ASSUME NEW k \in 1 .. Len(order) PROVE order[k] \in Queued'
  <2>1. CASE k \in 1 .. p - 1
    <3>1. k \in 1 .. Len(order')
      BY <1>1, <1>3
    <3> QED BY <1>3, <2>1, <3>1 DEF Queued
  <2>2. CASE k \in p .. Len(order)
    <3>1. k + 1 \in 1 .. Len(order')
      BY <1>1, <1>3
    <3> QED BY <1>3, <2>2, <3>1 DEF Queued
  <2> QED BY <1>1, <2>1, <2>2
<1>6. i \in Queued'
  BY <1>1, <1>3 DEF Queued
<1> QED BY <1>4, <1>5, <1>6 DEF Queued

(* Unlinking the tail leaves the members in front of it, where they were. *)
LEMMA RemoveTailMembers ==
  ASSUME ListInv, potail # Nil, Remove(potail)
  PROVE  /\ Len(order) > 0 /\ potail = order[Len(order)]
         /\ Len(order') = Len(order) - 1
         /\ \A k \in 1 .. Len(order) - 1 : order'[k] = order[k]
         /\ Queued' = Queued \ {potail}
<1> DEFINE n == Len(order)
<1>1. n \in Nat /\ n > 0 /\ potail = order[n] /\ n \in 1 .. n
  BY Members DEF ListInv, DoublyLinked
<1>2. Position(potail) = n
  BY <1>1, PositionOf
<1>3. order' = [k \in 1 .. n - 1 |-> IF k < n THEN order[k] ELSE order[k + 1]]
  BY <1>2 DEF Remove
<1>4. /\ Len(order') = n - 1 /\ \A k \in 1 .. n - 1 : order'[k] = order[k]
  BY <1>1, <1>3, Removed
<1>5. \A j \in 1 .. n : order[j] = order[n] => j = n
  BY <1>1 DEF ListInv, DoublyLinked
<1>6. ASSUME NEW k \in 1 .. n - 1 PROVE order[k] # potail /\ k \in 1 .. n
  BY <1>1, <1>5
<1>7. \A k \in 1 .. n : k = n \/ k \in 1 .. n - 1
  BY <1>1
<1>8. Queued' = {order[k] : k \in 1 .. n - 1}
  BY <1>4 DEF Queued
<1>9. Queued = {order[k] : k \in 1 .. n - 1} \cup {potail}
  BY <1>1, <1>6, <1>7 DEF Queued
<1> QED BY <1>1, <1>4, <1>6, <1>8, <1>9

(* A packet that is put between the newer and the older ones keeps the order. *)
LEMMA InsertOrder ==
  ASSUME ListInv, BufferInv, InPlayOrder,
         NEW i \in Slots \ Queued, NEW at \in Queued \cup {Nil}, NEW n \in Nat, Insert(i, at),
         pkt' = [pkt EXCEPT ![i] = n],
         \A k \in 1 .. Position(at) - 1 : pkt[order[k]] > n, at # Nil => pkt[at] < n
  PROVE  /\ InPlayOrder' /\ Waiting' = Waiting \cup {n} /\ Queued' = Queued \cup {i}
         /\ pkt'[i] = n /\ \A q \in Queued : pkt'[q] = pkt[q]
         /\ order'[Position(at)] = i
<1> DEFINE p == Position(at)
<1>1. /\ p \in 1 .. Len(order) + 1 /\ Len(order) \in Nat
      /\ at = Nil <=> p = Len(order) + 1
      /\ at # Nil => order[p] = at
  BY Positions, Members
<1>2. order' = [k \in 1 .. Len(order) + 1 |->
                  IF k < p THEN order[k] ELSE IF k = p THEN i ELSE order[k - 1]]
  BY DEF Insert
<1> HIDE DEF p
<1>3. /\ Len(order') = Len(order) + 1 /\ order'[p] = i
      /\ \A k \in 1 .. p - 1 : order'[k] = order[k]
      /\ \A k \in p .. Len(order) : order'[k + 1] = order[k]
  BY <1>1, <1>2, Inserted
<1>4. Queued' = Queued \cup {i} /\ Queued \subseteq Slots
  BY InsertMembers, Members
<1>5. pkt'[i] = n /\ \A q \in Queued : pkt'[q] = pkt[q] /\ pkt[q] \in Nat
  BY <1>4 DEF BufferInv
<1>6. \A k \in 1 .. Len(order) : pkt'[order[k]] = pkt[order[k]] /\ pkt[order[k]] \in Nat
  BY <1>5 DEF Queued
<1>7. ASSUME NEW k \in 1 .. Len(order') - 1
      PROVE  pkt'[order'[k]] > pkt'[order'[k + 1]]
  <2>1. k + 1 < p \/ k + 1 = p \/ k = p \/ k > p
    BY <1>1
  <2>2. CASE k + 1 < p
    <3>1. /\ k \in 1 .. p - 1 /\ k + 1 \in 1 .. p - 1 /\ k \in 1 .. Len(order) - 1
          /\ k \in 1 .. Len(order) /\ k + 1 \in 1 .. Len(order)
      BY <1>1, <1>3, <2>2
    <3>2. pkt[order[k]] > pkt[order[k + 1]]
      BY <3>1 DEF InPlayOrder
    <3> QED BY <1>3, <1>6, <3>1, <3>2
  <2>3. CASE k + 1 = p
    <3>1. k \in 1 .. p - 1 /\ k \in 1 .. Len(order)
      BY <1>1, <1>3, <2>3
    <3>2. pkt[order[k]] > n
      BY <3>1 DEF p
    <3> QED BY <1>3, <1>5, <1>6, <2>3, <3>1, <3>2
  <2>4. CASE k = p
    <3>1. k \in p .. Len(order) /\ k \in 1 .. Len(order) /\ at # Nil /\ order[p] = at
      BY <1>1, <1>3, <2>4
    <3>2. pkt[at] < n /\ pkt[at] \in Nat
      BY <1>6, <2>4, <3>1
    <3> QED BY <1>3, <1>5, <1>6, <2>4, <3>1, <3>2
  <2>5. CASE k > p
    <3>1. /\ k \in p .. Len(order) /\ k - 1 \in p .. Len(order) /\ (k - 1) + 1 = k
          /\ k - 1 \in 1 .. Len(order) - 1 /\ k \in 1 .. Len(order)
          /\ k - 1 \in 1 .. Len(order)
      BY <1>1, <1>3, <2>5
    <3>2. pkt[order[k - 1]] > pkt[order[(k - 1) + 1]]
      BY <3>1 DEF InPlayOrder
    <3>3. order'[k] = order[k - 1] /\ order'[k + 1] = order[k]
      BY <1>3, <3>1
    <3> QED BY <1>6, <3>1, <3>2, <3>3
  <2> QED BY <2>1, <2>2, <2>3, <2>4, <2>5
<1>8. Waiting' = Waiting \cup {n}
  BY <1>4, <1>5 DEF Waiting
<1> QED BY <1>3, <1>4, <1>5, <1>7, <1>8 DEF InPlayOrder, p

(* To play the tail keeps the order, and plays the oldest packet. *)
LEMMA PlayOrder ==
  ASSUME ListInv, BufferInv, InPlayOrder, PlayPkt
  PROVE  /\ InPlayOrder' /\ Queued' \subseteq Queued /\ Len(order') = Len(order) - 1
         /\ \A i \in Queued' : pkt'[i] = pkt[i]
         /\ Len(order) \in Nat /\ \A k \in 1 .. Len(order) - 1 : order'[k] = order[k]
         /\ \E n \in Waiting : (\A m \in Waiting : n <= m) /\ Waiting' = Waiting \ {n}
<1> DEFINE e == Len(order)
           n == pkt[potail]
<1>1. /\ e > 0 /\ potail = order[e] /\ Len(order') = e - 1
      /\ \A k \in 1 .. e - 1 : order'[k] = order[k]
      /\ Queued' = Queued \ {potail}
  BY RemoveTailMembers DEF PlayPkt
<1>2. e \in Nat /\ Queued \subseteq Slots 
      /\ e \in 1 .. e /\ potail \in Queued
  BY <1>1, Members DEF Queued
<1>3. \A i \in Queued' : pkt'[i] = pkt[i]
  BY <1>1, <1>2 DEF PlayPkt, BufferInv
<1>4. \A i \in Queued : pkt[i] \in Nat
  BY <1>2 DEF BufferInv
<1>5. ASSUME NEW i \in Queued, i # potail PROVE pkt[i] > n
  <2>1. PICK k \in 1 .. e : order[k] = i
    BY DEF Queued
  <2>2. k < e
    BY <1>1, <1>2, <1>5, <2>1
  <2> QED BY <1>1, <1>2, <2>1, <2>2, Descending
<1>6. \A k \in 1 .. e - 1 : order'[k] \in Queued'
  BY <1>1 DEF Queued
<1>7. InPlayOrder'
  <2> SUFFICES ASSUME NEW k \in 1 .. (e - 1) - 1 PROVE pkt'[order'[k]] > pkt'[order'[k + 1]]
    BY <1>1 DEF InPlayOrder
  <2>1. k \in 1 .. e - 1 /\ k + 1 \in 1 .. e - 1
    BY <1>2
  <2>2. pkt[order[k]] > pkt[order[k + 1]]
    BY <2>1 DEF InPlayOrder
  <2> QED BY <1>1, <1>3, <1>6, <2>1, <2>2
<1>8. Waiting' = Waiting \ {n}
  <2>1. Waiting' = {pkt[i] : i \in Queued \ {potail}}
    BY <1>1, <1>3 DEF Waiting
  <2>2. \A i \in Queued \ {potail} : pkt[i] # n
    BY <1>2, <1>4, <1>5
  <2> QED BY <2>1, <2>2 DEF Waiting
<1>9. n \in Waiting /\ \A m \in Waiting : n <= m
  BY <1>2, <1>4, <1>5 DEF Waiting
<1> QED BY <1>1, <1>2, <1>3, <1>7, <1>8, <1>9

(* A seek empties the buffer, and what was sent is not sent again. *)
LEMMA SeekOrder ==
  ASSUME Seek
  PROVE  InPlayOrder' /\ Queued' = {} /\ Waiting' = {}
<1>1. order' = <<>> /\ Len(order') = 0 /\ Queued' = {}
  BY DEF Seek, RemoveAll, Queued
<1> QED BY <1>1 DEF InPlayOrder, Waiting

(* The empty buffer is in order, and an empty queue of what it promises. *)
LEMMA InitOrder ==
  ASSUME Init
  PROVE  InPlayOrder /\ Queued = {} /\ Promise!Init
<1>1. order = <<>> /\ Len(order) = 0 /\ Queued = {}
  BY DEF Init, ListInit, Queued
<1> QED BY <1>1 DEF InPlayOrder, Promise!Init, Waiting

-----------------------------------------------------------------------------
(* Deliveries in any order, without a wrap of the sequence number.         *)

(* The numbers in A do not wrap, and are so near to one another that none of them looks
   as if it did. *)
Unwrapped(A) == \E lo, hi \in Nat \ {0} :
                  /\ hi < RTP_SEQ_MOD /\ hi - lo <= RTP_SEQ_MOD - MAX_DROPOUT
                  /\ A \subseteq lo .. hi

(* A number below the modulus is its own remainder. *)
LEMMA SmallRemainder ==
  ASSUME NEW n \in Nat, NEW w \in Nat, n < w
  PROVE  n % w = n
OBVIOUS

(* A number below 65536 fits in 16 bits. *)
LEMMA SmallIs16 ==
  ASSUME NEW n \in Nat, n < 65536
  PROVE  n \in Seq16
<1>1. n <= 65535 /\ RTP_SEQ_MOD - 1 = 65535
  BY DEF RTP_SEQ_MOD
<1> QED BY <1>1 DEF Seq16

(* The 16-bit difference to a number that is a little older wraps round. *)
LEMMA BackRemainder ==
  ASSUME NEW d \in Int, d <= -1, d >= -62536
  PROVE  d % 65536 = 65536 + d
OBVIOUS

(* The code sees the packets' numbers as they are. *)
LEMMA NumbersSeen ==
  ASSUME NEW A, Unwrapped(A)
  PROVE  /\ A \subseteq Nat \ {0}
         /\ \A n \in A : SeqOf(n) = n /\ n \in Seq16 /\ Extended(n, 0) = n
         /\ \A m, n \in A : ~ (n - m >= SEQ_MAX_JUMP /\ n < m)
         /\ \A m, n \in A : n < m => ~ ((n - m) % RTP_SEQ_MOD < MAX_DROPOUT)
<1>1. PICK lo, hi \in Nat \ {0} : /\ hi < 65536 /\ hi - lo <= 62536
                                  /\ A \subseteq lo .. hi
  BY DEF Unwrapped, RTP_SEQ_MOD, MAX_DROPOUT
<1>2. ASSUME NEW n \in A
      PROVE  n \in Nat \ {0} /\ n \in Int /\ 0 <= n /\ n < 65536
  BY <1>1
<1>5. Word \in Nat /\ Word >= 65536
  BY WordAssumption DEF RTP_SEQ_MOD
<1>6. ASSUME NEW n \in A PROVE SeqOf(n) = n /\ n \in Seq16 /\ Extended(n, 0) = n
  <2>1. n \in Nat /\ n < 65536 /\ n < Word /\ n + 0 = n
    BY <1>2, <1>5
  <2>2. n % 65536 = n /\ n % Word = n
    BY <1>5, <2>1, SmallRemainder
  <2>3. SeqOf(n) = n
    BY <2>2 DEF SeqOf, RTP_SEQ_MOD
  <2>4. n \in Seq16
    BY <2>1, SmallIs16
  <2> QED BY <2>1, <2>2, <2>3, <2>4 DEF Extended
<1>7. ASSUME NEW m \in A, NEW n \in A, n < m
      PROVE  ~ ((n - m) % RTP_SEQ_MOD < MAX_DROPOUT) /\ ~ (n - m >= SEQ_MAX_JUMP)
  <2>1. n - m \in Int /\ n - m <= -1 /\ n - m >= -62536
    BY <1>1, <1>7
  <2> DEFINE d == n - m
  <2> HIDE DEF d
  <2>2. d % 65536 = 65536 + d
    BY <2>1, BackRemainder DEF d
  <2>3. ~ (d % 65536 < 3000) /\ ~ (d >= 61440)
    BY <2>1, <2>2 DEF d
  <2> QED BY <2>3 DEF d, RTP_SEQ_MOD, MAX_DROPOUT, SEQ_MAX_JUMP
<1> QED BY <1>2, <1>6, <1>7

(* The cycle counts stay 0, and what the source's statistics know is a packet. *)
Sane(st, A) == st.cycles = 0 /\ (st.probation = 0 => st.max_seq \in A)

(* Without a wrap rtp_update_seq counts no cycle, and keeps a number it was given. *)
LEMMA UpdateSane ==
  ASSUME NEW A, Unwrapped(A), NEW st \in Stats, Sane(st, A), NEW n \in A
  PROVE  Sane(UpdateSeq(st, n), A)
<1>1. st.max_seq \in Seq16 /\ Seq16 \subseteq Nat /\ st.probation \in Probation
  BY Literals DEF Stats
<1>2. Sane(InitSeq(st, n), A)
  BY DEF InitSeq, Received, Restarted, Stats, Sane
<1>3. Sane(OnProbation(st, n), A)
  BY DEF OnProbation, Stats, Sane
<1>4. st.probation = 0 /\ InOrder(st, n) => ~ (n < st.max_seq)
  BY <1>1, NumbersSeen DEF InOrder, UDelta, Sane
<1>5. ~ (n < st.max_seq) => Sane(Advanced(st, n), A)
  BY DEF Advanced, Received, Stats, Sane
<1>6. Sane(Suspected(st, n), A)
  BY DEF Suspected, Stats, Sane
<1>7. Sane(Received(st), A)
  BY DEF Received, Stats, Sane
<1> QED BY <1>2, <1>3, <1>4, <1>5, <1>6, <1>7 DEF UpdateSeq

(* The invariant of a delivery of such numbers, in any order. *)
FlatInv(A) ==
  /\ Sane(stats, A) \/ (~ known /\ stats.cycles = 0)
  /\ pocycles = 0
  /\ net \in Seq(A)
  /\ \A i \in Queued : pkt[i] \in A
  /\ InPlayOrder

(* Where the search of poadd stops: in front of the first packet that is not newer. *)
LEMMA SearchFinds ==
  ASSUME NEW A, Unwrapped(A), ListInv, FlatInv(A), NEW n \in A
  PROVE  LET stop == Search(n) IN
         /\ stop.at \in Queued \cup {Nil} /\ stop.cycles = 0
         /\ \A k \in 1 .. Position(stop.at) - 1 : pkt[order[k]] > n
         /\ stop.at # Nil => pkt[stop.at] <= n
<1> DEFINE N == Cardinality(Slots)
           S == {t \in Places : /\ t.cycles = 0
                                /\ \A k \in 1 .. Position(t.at) - 1 : pkt[order[k]] > n}
           Stopped(t) == t.at = Nil \/ pkt[t.at] <= n
<1>1. Len(order) \in Nat /\ N \in Nat /\ Len(order) <= N /\ n \in Nat
  BY Members, ListFits, DeliveriesAssumption, FS_CardinalityType, NumbersSeen
<1>2. Begin \in S /\ Position(Begin.at) = 1
  <2>1. Begin \in Places /\ Begin.at = pohead /\ Begin.cycles = 0
    BY HeadQueued, Literals DEF Begin, Places, FlatInv
  <2>2. Position(pohead) = 1
    BY HeadPosition
  <2> QED BY <2>1, <2>2
<1>3. ASSUME NEW t \in S
      PROVE  /\ Stopped(t) => Turn(n, t) = t
             /\ ~ Stopped(t) => Turn(n, t) \in S /\ Position(Turn(n, t).at) = Position(t.at) + 1
  <2>1. t \in Places /\ t.cycles = 0 /\ t.at \in Queued \cup {Nil}
        /\ \A k \in 1 .. Position(t.at) - 1 : pkt[order[k]] > n
    BY DEF Places
  <2>2. t.at # Nil => pkt[t.at] \in A /\ Extended(pkt[t.at], t.cycles) = pkt[t.at]
    BY <2>1, NumbersSeen DEF FlatInv
  <2>3. Stopped(t) => Turn(n, t) = t
    BY <2>2 DEF Turn
  <2>4. ASSUME ~ Stopped(t)
        PROVE  Turn(n, t) \in S /\ Position(Turn(n, t).at) = Position(t.at) + 1
    <3> DEFINE p == Position(t.at)
    <3>1. /\ t.at \in Queued /\ p \in 1 .. Len(order) /\ order[p] = t.at
          /\ next[t.at] \in Queued \cup {Nil} /\ Position(next[t.at]) = p + 1
          /\ next[t.at] # Nil => p < Len(order) /\ next[t.at] = order[p + 1]
      BY <2>1, <2>4, NextPosition
    <3>2. pkt[t.at] \in A /\ pkt[t.at] \in Nat /\ pkt[t.at] > n
      <4>1. pkt[t.at] \in A /\ ~ (pkt[t.at] <= n)
        BY <2>2, <2>4
      <4>2. \A m \in A : m \in Nat
        BY NumbersSeen
      <4>3. pkt[t.at] \in Nat
        BY <4>1, <4>2
      <4> QED BY <1>1, <4>1, <4>3
    <3>3. ~ Wraps(t.at)
      <4> SUFFICES ASSUME next[t.at] # Nil,
                          SeqOf(pkt[next[t.at]]) - SeqOf(pkt[t.at]) >= SEQ_MAX_JUMP
                   PROVE  FALSE
        BY DEF Wraps
      <4>1. p \in 1 .. Len(order) - 1 /\ next[t.at] \in Queued
        BY <1>1, <3>1
      <4>2. pkt[order[p]] > pkt[order[p + 1]]
        BY <4>1 DEF FlatInv, InPlayOrder
      <4>3. pkt[next[t.at]] \in A /\ pkt[next[t.at]] < pkt[t.at]
        BY <3>1, <3>2, <4>1, <4>2, NumbersSeen DEF FlatInv
      <4> QED BY <3>2, <4>3, NumbersSeen
    <3>4. Turn(n, t) = [at |-> next[t.at], cycles |-> t.cycles]
      BY <2>2, <2>4, <3>1, <3>2, <3>3, <1>1 DEF Turn
    <3>5. Turn(n, t) \in Places
      BY <2>1, TurnStays
    <3>6. ASSUME NEW k \in 1 .. (p + 1) - 1 PROVE pkt[order[k]] > n
      <4>1. k \in 1 .. p - 1 \/ k = p
        BY <1>1, <3>1
      <4> QED BY <2>1, <3>1, <3>2, <4>1
    <3> QED BY <2>1, <3>1, <3>4, <3>5, <3>6
  <2> QED BY <2>3, <2>4
<1>4. \A t \in S : Turn(n, t) \in S
  BY <1>3
<1> HIDE DEF S
<1>5. PICK g \in [0 .. N -> S] :
        /\ g[0] = Begin /\ \A k \in 1 .. N : g[k] = Turn(n, g[k - 1])
        /\ Search(n) = g[N]
  BY <1>2, <1>4, SearchRuns
<1> DEFINE T == {k \in 0 .. N : Stopped(g[k]) \/ Position(g[k].at) = k + 1}
<1>6. 0 .. N \subseteq T
  <2>1. 0 \in T
    BY <1>1, <1>2, <1>5
  <2>2. ASSUME NEW k \in 0 .. N - 1, k \in T PROVE k + 1 \in T
    <3>1. k + 1 \in 1 .. N /\ k + 1 \in 0 .. N /\ (k + 1) - 1 = k /\ k \in 0 .. N
      BY <1>1
    <3>2. g[k + 1] = Turn(n, g[k]) /\ g[k] \in S
      BY <1>5, <3>1
    <3>3. CASE Stopped(g[k])
      BY <1>3, <3>1, <3>2, <3>3
    <3>4. CASE ~ Stopped(g[k])
      <4>1. Position(g[k].at) = k + 1
        BY <2>2, <3>4
      <4> QED BY <1>3, <3>1, <3>2, <3>4, <4>1
    <3> QED BY <3>3, <3>4
  <2> HIDE DEF T
  <2> QED BY <1>1, <2>1, <2>2, UpTo
<1>7. g[N] \in S /\ (Stopped(g[N]) \/ Position(g[N].at) = N + 1)
  BY <1>1, <1>5, <1>6
<1>8. /\ g[N].at \in Queued \cup {Nil} /\ g[N].cycles = 0
      /\ \A k \in 1 .. Position(g[N].at) - 1 : pkt[order[k]] > n
  BY <1>7 DEF S, Places
<1>9. Position(g[N].at) = N + 1 => g[N].at = Nil
  BY <1>1, <1>8, Positions
<1> QED BY <1>5, <1>7, <1>8, <1>9

(* A packet is put where it belongs, or was there already. *)
LEMMA ReceiveFlat ==
  ASSUME NEW A \in SUBSET AllNumbers, Unwrapped(A), ListInv, BufferInv, FlatInv(A), NEW i \in Slots \ Queued, Receive(i)
  PROVE  /\ FlatInv(A)'
         /\ \E n \in AllNumbers : Waiting' = Waiting \cup {n}
<1> DEFINE n == Head(net)
           stop == Search(Extended(n, stats'.cycles))
           at == stop.at
           p == Position(at)
<1>1. n \in A /\ net' \in Seq(A)
  BY DEF Receive, FlatInv
<1>2. A \subseteq Nat /\ SeqOf(n) = n /\ n \in Seq16 /\ Extended(n, 0) = n
  BY <1>1, NumbersSeen
<1>3. Sane(stats', A)
  <2> DEFINE st == Prepared(n)
  <2>1. st \in Stats
    BY <1>2, RestartTyped DEF Prepared, BufferInv
  <2>2. stats.cycles = 0 /\ stats \in Stats
    BY DEF FlatInv, Sane, BufferInv
  <2>3. Sane(st, A)
    <3>1. Sane(FirstPacket(stats, n), A)
      BY <2>2 DEF FirstPacket, Stats, Sane, MIN_SEQUENTIAL
    <3>2. Sane(SeekReset(stats, n), A)
      BY <1>1, <2>2 DEF SeekReset, Restarted, Stats, Sane
    <3> QED BY <3>1, <3>2 DEF Prepared, FlatInv
  <2>4. stats' = UpdateSeq(st, n)
    BY <1>2 DEF Receive
  <2> HIDE DEF st
  <2> QED BY <1>1, <2>1, <2>3, <2>4, UpdateSane
<1>4. stats'.cycles = 0 /\ stop = Search(n)
  BY <1>2, <1>3 DEF Sane
<1>5. /\ at \in Queued \cup {Nil} /\ stop.cycles = 0
      /\ \A k \in 1 .. p - 1 : pkt[order[k]] > n
      /\ at # Nil => pkt[at] <= n
  BY <1>1, <1>4, SearchFinds
<1>6. at # Nil => pkt[at] \in A /\ Extended(pkt[at], stop.cycles) = pkt[at]
  BY <1>5, NumbersSeen DEF FlatInv
<1>7. \/ at # Nil /\ pkt[at] = n /\ UNCHANGED <<listVars, pkt, pocycles>>
      \/ /\ at # Nil => pkt[at] # n
         /\ Insert(i, at)
         /\ pkt' = [pkt EXCEPT ![i] = n]
         /\ pocycles' = IF at = pohead THEN stats'.cycles ELSE pocycles
  BY <1>2, <1>4, <1>6 DEF Receive, PoAdd
<1>8. pocycles' = 0
  BY <1>4, <1>7 DEF FlatInv
<1> HIDE DEF stop
<1>9. CASE at # Nil /\ pkt[at] = n /\ UNCHANGED <<listVars, pkt, pocycles>>
  <2>1. order' = order /\ pkt' = pkt
    BY <1>9 DEF listVars
  <2>2. FlatInv(A)'
    BY <1>1, <1>3, <1>8, <2>1 DEF FlatInv, InPlayOrder, Queued
  <2>3. Waiting' = Waiting /\ n \in Waiting
    BY <1>5, <1>9, <2>1 DEF Waiting, Queued
  <2> QED BY <1>1, <2>2, <2>3
<1>10. CASE /\ at # Nil => pkt[at] # n
            /\ Insert(i, at)
            /\ pkt' = [pkt EXCEPT ![i] = n]
  <2>1. n \in Nat /\ (at # Nil => pkt[at] < n)
    <3>1. n \in Nat
      BY <1>1, <1>2
    <3>2. at # Nil => pkt[at] <= n /\ pkt[at] # n /\ pkt[at] \in Nat
      BY <1>2, <1>5, <1>6, <1>10
    <3> QED BY <3>1, <3>2
  <2>2. \A k \in 1 .. Position(at) - 1 : pkt[order[k]] > n
    BY <1>5 DEF p
  <2>3. InPlayOrder
    BY DEF FlatInv
  <2> HIDE DEF n, at, p
  <2>4. /\ InPlayOrder' /\ Waiting' = Waiting \cup {n} /\ Queued' = Queued \cup {i}
        /\ pkt'[i] = n /\ \A q \in Queued : pkt'[q] = pkt[q]
    BY <1>5, <1>10, <2>1, <2>2, <2>3, InsertOrder
  <2>5. \A q \in Queued' : pkt'[q] \in A
    BY <1>1, <2>4 DEF FlatInv
  <2>6. FlatInv(A)'
    BY <1>1, <1>3, <1>8, <2>4, <2>5 DEF FlatInv
  <2> QED BY <1>1, <2>4, <2>6
<1> QED BY <1>7, <1>9, <1>10

(* Every step keeps it, and is a step of the queue PlayoutOrder promises. *)
LEMMA NextFlat ==
  ASSUME NEW A \in SUBSET AllNumbers, Unwrapped(A),
         ListInv, BufferInv, FlatInv(A), [Next]_vars
  PROVE  FlatInv(A)' /\ [Promise!Next]_Waiting
<1>1. ASSUME NEW i \in Slots \ Queued, Receive(i) PROVE FlatInv(A)' /\ Promise!Next
  BY <1>1, ReceiveFlat DEF Promise!Next, Promise!Arrive
<1>2. CASE PlayPkt
  <2>1. /\ InPlayOrder' /\ Queued' \subseteq Queued
        /\ \A i \in Queued' : pkt'[i] = pkt[i]
        /\ \E n \in Waiting : (\A m \in Waiting : n <= m) /\ Waiting' = Waiting \ {n}
    BY <1>2, PlayOrder DEF FlatInv
  <2>2. FlatInv(A)'
    BY <1>2, <2>1 DEF FlatInv, PlayPkt, Sane
  <2> QED BY <2>1, <2>2 DEF Promise!Next, Promise!Play
<1>3. CASE Seek
  <2>1. InPlayOrder' /\ Queued' = {} /\ Waiting' = {}
    BY <1>3, SeekOrder
  <2>2. net' \in Seq(A)
    BY <1>3, SuffixOf DEF Seek, FlatInv
  <2>3. Sane(stats, A) /\ stats' = stats /\ pocycles' = pocycles
    BY <1>3 DEF Seek, FlatInv
  <2> QED BY <2>1, <2>2, <2>3 DEF FlatInv, Sane, Promise!Next, Promise!Flush
<1>4. CASE UNCHANGED vars
  BY <1>4 DEF vars, listVars, FlatInv, InPlayOrder, Waiting, Queued, Sane
<1> QED BY <1>1, <1>2, <1>3, <1>4 DEF Next, Done

-----------------------------------------------------------------------------
(* Deliveries in sequence, over any number of wraps.                       *)

(* s comes in the order it was sent, with no gap that rtp_update_seq would not take
   for losses, and its numbers fit in a word. *)
Comes(s) ==
  /\ \A k \in 1 .. Len(s) : s[k] < Word
  /\ \A k \in 1 .. Len(s) - 1 : s[k] <= s[k + 1] /\ s[k + 1] - s[k] < MAX_DROPOUT

(* Its first two packets end the probation of the source. *)
InSequence(d) ==
  Comes(d) /\ (Len(d) >= 2 => d[2] = d[1] + 1 /\ SeqOf(d[2]) # 0)

(* The statistics and the head of the buffer know last, the newest packet that came. *)
Newest(last) ==
  /\ last < Word
  /\ stats.max_seq = SeqOf(last) /\ stats.cycles <= last - SeqOf(last)
  /\ Len(net) > 0 => last <= net[1] /\ net[1] - last < MAX_DROPOUT
  /\ Len(order) > 0 => pkt[order[1]] = last /\ pocycles = stats.cycles
  /\ \/ stats.probation = 0
     \/ /\ stats.probation = 1 /\ stats.cycles = 0
        /\ Len(net) > 0 => net[1] = last + 1 /\ SeqOf(net[1]) # 0

(* The invariant of a delivery in sequence: nothing came yet, or nothing since a
   seek, or the newest packet is known. *)
StreamInv ==
  /\ InPlayOrder /\ net \in Seq(AllNumbers) /\ Comes(net)
  /\ \/ ~ known /\ ~ done_seek /\ Len(order) = 0 /\ stats.cycles = 0 /\ InSequence(net)
     \/ known /\ done_seek /\ Len(order) = 0
     \/ known /\ ~ done_seek /\ \E last \in AllNumbers : Newest(last)

(* Whatever may be delivered is in sequence, or does not wrap. *)
Numbers(d) == {d[k] : k \in DOMAIN d}
Orderly == \A d \in Deliveries : Unwrapped(Numbers(d)) \/ InSequence(d)

(* The inductive invariant. *)
OrderInv == (\E A \in SUBSET AllNumbers : Unwrapped(A) /\ FlatInv(A)) \/ StreamInv

(* The constants of rtp_update_seq. *)
LEMMA SeqLiterals ==
  /\ RTP_SEQ_MOD = 65536 /\ MAX_DROPOUT = 3000 /\ MIN_SEQUENTIAL = 2
  /\ Word \in Nat /\ Word >= 65536
  /\ \A n \in Nat : SeqOf(n) \in Nat /\ SeqOf(n) <= n /\ SeqOf(n) < 65536 /\ SeqOf(n) \in Seq16
<1>1. RTP_SEQ_MOD = 65536 /\ MAX_DROPOUT = 3000 /\ MIN_SEQUENTIAL = 2
  BY DEF RTP_SEQ_MOD, MAX_DROPOUT, MIN_SEQUENTIAL
<1>2. Word \in Nat /\ Word >= 65536
  BY <1>1, WordAssumption
<1>3. ASSUME NEW n \in Nat
      PROVE  SeqOf(n) \in Nat /\ SeqOf(n) <= n /\ SeqOf(n) < 65536 /\ SeqOf(n) \in Seq16
  <2>1. PICK c, x \in Int : n % 65536 = x /\ n = 65536 * c + x /\ 0 <= x /\ x < 65536
    BY LowBits
  <2>2. SeqOf(n) = x
    BY <1>1, <2>1 DEF SeqOf
  <2>3. x \in Nat /\ x <= n
    BY <2>1
  <2> QED BY <2>1, <2>2, <2>3, SmallIs16
<1> QED BY <1>1, <1>2, <1>3

(* The first packet leaves the source on probation. *)
LEMMA FirstStats ==
  ASSUME NEW st \in Stats, st.cycles = 0, NEW seq \in Seq16
  PROVE  LET r == UpdateSeq(FirstPacket(st, seq), seq) IN
         r.max_seq = seq /\ r.cycles = 0 /\ r.probation = 1
<1> DEFINE f == FirstPacket(st, seq)
<1>1. f.probation = 2 /\ f.cycles = 0
  BY DEF FirstPacket, Stats, MIN_SEQUENTIAL
<1>2. f \in Stats
  BY RestartTyped
<1>3. ~ RunsInitSeq(f, seq)
  BY <1>1 DEF RunsInitSeq
<1> HIDE DEF f
<1>4. UpdateSeq(f, seq) = OnProbation(f, seq)
  BY <1>1, <1>3 DEF UpdateSeq
<1>5. /\ OnProbation(f, seq).max_seq = seq /\ OnProbation(f, seq).cycles = 0
      /\ OnProbation(f, seq).probation = 1
  BY <1>1, <1>2 DEF OnProbation, Stats, MIN_SEQUENTIAL
<1> QED BY <1>4, <1>5 DEF f

(* The first packet after a seek ends it. *)
LEMMA SeekStats ==
  ASSUME NEW st \in Stats, NEW seq \in Seq16
  PROVE  LET r == UpdateSeq(SeekReset(st, seq), seq) IN
         r.max_seq = seq /\ r.cycles = 0 /\ r.probation = 0
<1> DEFINE f == SeekReset(st, seq)
<1>1. f.probation = 0 /\ f.cycles = 0 /\ f.max_seq = seq /\ f \in Stats
  BY RestartTyped DEF SeekReset, Restarted, Stats
<1> HIDE DEF f
<1>2. UDelta(f, seq) = 0
  <2>1. seq \in Int /\ seq - seq = 0 /\ 0 % 65536 = 0
    BY Literals
  <2> QED BY <1>1, <2>1, SeqLiterals DEF UDelta
<1>3. InOrder(f, seq)
  BY <1>2, SeqLiterals DEF InOrder
<1>4. ~ RunsInitSeq(f, seq) /\ ~ Jumped(f, seq)
  BY <1>1, <1>3 DEF RunsInitSeq, Jumped
<1>5. UpdateSeq(f, seq) = Advanced(f, seq)
  BY <1>1, <1>3, <1>4 DEF UpdateSeq
<1>6. seq \in Int /\ ~ (seq < f.max_seq)
  BY <1>1, Literals
<1>7. /\ Advanced(f, seq).max_seq = seq /\ Advanced(f, seq).cycles = 0
      /\ Advanced(f, seq).probation = 0
  BY <1>1, <1>6 DEF Advanced, Received, Stats
<1> QED BY <1>5, <1>7 DEF f

(* A packet that follows the first ends the probation, without a cycle. *)
LEMMA SecondStats ==
  ASSUME NEW st \in Stats, NEW t \in Nat, st.probation = 1, st.max_seq = SeqOf(t),
         SeqOf(t + 1) # 0
  PROVE  LET r == UpdateSeq(st, SeqOf(t + 1)) IN
         /\ r.max_seq = SeqOf(t + 1) /\ r.cycles = 0 /\ r.probation = 0
         /\ SeqOf(t + 1) = SeqOf(t) + 1
<1>1. SeqOf(t + 1) = SeqOf(t) + 1
  <2> DEFINE s == t + 1
  <2>1. s \in Nat /\ s = t + 1
    OBVIOUS
  <2> HIDE DEF s
  <2>2. PICK c, x \in Int : t % 65536 = x /\ t = 65536 * c + x /\ 0 <= x /\ x < 65536
    BY LowBits
  <2>3. PICK d, y \in Int : s % 65536 = y /\ s = 65536 * d + y /\ 0 <= y /\ y < 65536
    BY <2>1, LowBits
  <2>4. y # 0 /\ SeqOf(t) = x /\ SeqOf(s) = y
    BY <2>1, <2>2, <2>3 DEF SeqOf, RTP_SEQ_MOD
  <2>5. y = x + 1
    <3>1. 65536 * d + y = 65536 * c + x + 1
      BY <2>1, <2>2, <2>3
    <3> QED BY <2>2, <2>3, <2>4, <3>1
  <2> QED BY <2>1, <2>4, <2>5
<1>2. Follows(st, SeqOf(t + 1))
  BY <1>1 DEF Follows
<1>3. UpdateSeq(st, SeqOf(t + 1)) = InitSeq(st, SeqOf(t + 1))
  BY <1>2 DEF UpdateSeq, RunsInitSeq
<1> DEFINE r == InitSeq(st, SeqOf(t + 1))
<1>4. r.max_seq = SeqOf(t + 1) /\ r.cycles = 0 /\ r.probation = 0
  BY DEF InitSeq, Received, Restarted, Stats
<1> QED BY <1>1, <1>3, <1>4

(* A packet in sequence moves the extended number by as much as its own. *)
LEMMA NextStats ==
  ASSUME NEW st \in Stats, NEW t \in Nat, NEW n \in Nat, t <= n, n - t < MAX_DROPOUT, n < Word,
         st.probation = 0, st.max_seq = SeqOf(t), st.cycles <= t - SeqOf(t)
  PROVE  LET r == UpdateSeq(st, SeqOf(n)) IN
         /\ r.max_seq = SeqOf(n) /\ r.probation = 0 /\ r.cycles <= n - SeqOf(n)
         /\ r.cycles + SeqOf(n) = st.cycles + SeqOf(t) + (n - t)
<1> DEFINE seq == SeqOf(n)
           w == IF seq < SeqOf(t) THEN 65536 ELSE 0
<1>1. /\ SeqOf(n) = n % 65536 /\ SeqOf(t) = t % 65536
      /\ t - 65536 < n /\ n < t + 65536
  BY SeqLiterals DEF SeqOf
<1>2. (SeqOf(n) - SeqOf(t)) % 65536 = n - t /\ n - SeqOf(n) = t - SeqOf(t) + w
  <2>1. ~ (n < t)
    OBVIOUS
  <2> QED BY <1>1, <2>1, ShortDistance
<1>3. /\ SeqOf(n) \in Nat /\ SeqOf(t) \in Nat /\ st.cycles \in Nat /\ Word \in Nat
      /\ w \in Nat
  <2>1. st.cycles \in Words /\ Words \subseteq Nat
    BY Literals DEF Stats
  <2>2. SeqOf(n) \in Nat /\ SeqOf(t) \in Nat /\ Word \in Nat
    BY SeqLiterals
  <2>3. w \in Nat
    OBVIOUS
  <2> HIDE DEF seq, w
  <2> QED BY <2>1, <2>2, <2>3
<1>4. InOrder(st, seq)
  BY <1>2, SeqLiterals DEF InOrder, UDelta
<1>5. ~ RunsInitSeq(st, seq) /\ ~ Jumped(st, seq)
  BY <1>4 DEF RunsInitSeq, Jumped
<1>6. UpdateSeq(st, seq) = Advanced(st, seq)
  BY <1>4, <1>5 DEF UpdateSeq
<1> DEFINE r == Advanced(st, seq)
<1>7. /\ r.max_seq = seq /\ r.probation = 0
      /\ r.cycles = IF seq < st.max_seq THEN (st.cycles + RTP_SEQ_MOD) % Word ELSE st.cycles
  BY DEF Advanced, Received, Stats
<1>8. r.cycles = st.cycles + w
  <2>1. CASE seq < SeqOf(t)
    <3>1. st.cycles + 65536 \in Nat /\ st.cycles + 65536 < Word
      BY <1>2, <1>3, <2>1
    <3>2. (st.cycles + 65536) % Word = st.cycles + 65536
      BY <1>3, <3>1, SmallRemainder
    <3> QED BY <1>7, <2>1, <3>2, SeqLiterals
  <2>2. CASE ~ (seq < SeqOf(t))
    BY <1>3, <1>7, <2>2
  <2> QED BY <2>1, <2>2
<1> HIDE DEF w, r
<1>9. r.cycles <= n - SeqOf(n) /\ r.cycles + SeqOf(n) = st.cycles + SeqOf(t) + (n - t)
  BY <1>2, <1>3, <1>8
<1> QED BY <1>6, <1>7, <1>9 DEF r

(* A packet with a cycle count that fits is extended without overflow. *)
LEMMA ExtendedIs ==
  ASSUME NEW n \in Nat, NEW c \in Nat, n < Word, c <= n - SeqOf(n)
  PROVE  Extended(n, c) = SeqOf(n) + c
<1>1. SeqOf(n) \in Nat /\ SeqOf(n) + c \in Nat /\ Word \in Nat /\ SeqOf(n) + c < Word
  BY SeqLiterals
<1> QED BY <1>1, SmallRemainder DEF Extended

(* A packet that is not older than the head is not searched for. *)
LEMMA SearchAtHead ==
  ASSUME NEW cseq, pohead # Nil => Extended(pkt[pohead], pocycles) <= cseq
  PROVE  Search(cseq) = Begin
<1>1. Turn(cseq, Begin) = Begin
  BY DEF Turn, Begin
<1> DEFINE S == {Begin}
<1>2. Begin \in S /\ \A t \in S : Turn(cseq, t) \in S
  BY <1>1
<1> HIDE DEF S
<1>3. PICK g \in [0 .. Cardinality(Slots) -> S] : Search(cseq) = g[Cardinality(Slots)]
  BY <1>2, SearchRuns
<1>4. Cardinality(Slots) \in 0 .. Cardinality(Slots)
  BY DeliveriesAssumption, FS_CardinalityType
<1> QED BY <1>3, <1>4 DEF S

(* What may be delivered are numbers. *)
LEMMA AllAreNumbers == AllNumbers \subseteq Nat \ {0}
BY DeliveriesAssumption DEF AllNumbers

(* The rest of a delivery in sequence is in sequence. *)
LEMMA ComesOn ==
  ASSUME NEW s \in Seq(Nat \ {0}), Comes(s), NEW k \in 1 .. Len(s) + 1
  PROVE  LET r == SubSeq(s, k, Len(s)) IN
         /\ Comes(r) /\ Len(r) = Len(s) - k + 1
         /\ \A j \in 1 .. Len(r) : r[j] = s[k + j - 1]
<1> DEFINE r == SubSeq(s, k, Len(s))
<1>1. Len(s) \in Nat /\ Len(r) = Len(s) - k + 1 /\ \A j \in 1 .. Len(r) : r[j] = s[k + j - 1]
  BY SubSeqProperties
<1> HIDE DEF r
<1>2. ASSUME NEW j \in 1 .. Len(r) PROVE r[j] < Word
  <2>1. k + j - 1 \in 1 .. Len(s)
    BY <1>1
  <2> QED BY <1>1, <2>1 DEF Comes
<1>3. ASSUME NEW j \in 1 .. Len(r) - 1 PROVE r[j] <= r[j + 1] /\ r[j + 1] - r[j] < MAX_DROPOUT
  <2>1. /\ k + j - 1 \in 1 .. Len(s) - 1 /\ j \in 1 .. Len(r) /\ j + 1 \in 1 .. Len(r)
        /\ k + (j + 1) - 1 = (k + j - 1) + 1
    BY <1>1
  <2> QED BY <1>1, <2>1 DEF Comes
<1> QED BY <1>1, <1>2, <1>3 DEF Comes, r

(* What remains after the next packet. *)
LEMMA NetTail ==
  ASSUME net \in Seq(Nat \ {0}), net # <<>>, Comes(net)
  PROVE  /\ Len(net) \in Nat /\ Len(net) > 0 /\ Head(net) = net[1]
         /\ net[1] \in Nat \ {0} /\ net[1] < Word
         /\ Len(Tail(net)) = Len(net) - 1 /\ Comes(Tail(net))
         /\ Len(Tail(net)) > 0 => /\ Tail(net)[1] = net[2] /\ Tail(net)[1] \in Nat \ {0}
                                  /\ net[1] <= Tail(net)[1]
                                  /\ Tail(net)[1] - net[1] < MAX_DROPOUT
<1>1. /\ Len(net) \in Nat /\ Len(net) > 0 /\ Head(net) = net[1] /\ net[1] \in Nat \ {0}
      /\ Tail(net) = SubSeq(net, 2, Len(net)) /\ 2 \in 1 .. Len(net) + 1
  BY HeadTailProperties
<1>2. /\ Comes(Tail(net)) /\ Len(Tail(net)) = Len(net) - 2 + 1
      /\ \A j \in 1 .. Len(Tail(net)) : Tail(net)[j] = net[2 + j - 1]
  <2>1. /\ Comes(SubSeq(net, 2, Len(net)))
        /\ Len(SubSeq(net, 2, Len(net))) = Len(net) - 2 + 1
        /\ \A j \in 1 .. Len(SubSeq(net, 2, Len(net))) :
              SubSeq(net, 2, Len(net))[j] = net[2 + j - 1]
    BY <1>1, ComesOn
  <2> QED BY <1>1, <2>1
<1>3. net[1] < Word
  BY <1>1 DEF Comes
<1>4. ASSUME Len(Tail(net)) > 0
      PROVE  /\ Tail(net)[1] = net[2] /\ Tail(net)[1] \in Nat \ {0}
             /\ net[1] <= Tail(net)[1] /\ Tail(net)[1] - net[1] < MAX_DROPOUT
  <2>1. /\ 1 \in 1 .. Len(Tail(net)) /\ 1 \in 1 .. Len(net) - 1 /\ 1 + 1 = 2 /\ 2 + 1 - 1 = 2
        /\ 2 \in 1 .. Len(net)
    BY <1>1, <1>2, <1>4
  <2>2. Tail(net)[1] = net[2] /\ net[2] \in Nat \ {0}
    BY <1>2, <2>1
  <2>3. net[1] <= net[2] /\ net[2] - net[1] < MAX_DROPOUT
    BY <2>1 DEF Comes
  <2> QED BY <2>2, <2>3
<1> QED BY <1>1, <1>2, <1>3, <1>4

(* The statistics of a packet that is received, and how far it is ahead of the head. *)
LEMMA ReceiveStats ==
  ASSUME BufferInv, StreamInv, net # <<>>, NEW n, n = net[1],
         NEW st \in Stats, st = UpdateSeq(Prepared(SeqOf(n)), SeqOf(n))
  PROVE  /\ st.max_seq = SeqOf(n) /\ st.cycles <= n - SeqOf(n)
         /\ \/ st.probation = 0
            \/ /\ st.probation = 1 /\ st.cycles = 0
               /\ Len(Tail(net)) > 0 => Tail(net)[1] = n + 1 /\ SeqOf(n + 1) # 0
         /\ Len(order) > 0 =>
              \E last \in Nat :
                /\ pkt[order[1]] = last /\ last <= n /\ pocycles <= last - SeqOf(last)
                /\ st.cycles + SeqOf(n) = pocycles + SeqOf(last) + (n - last)
<1>1. /\ Len(net) \in Nat /\ Len(net) > 0 /\ n \in Nat \ {0} /\ n < Word
      /\ Len(Tail(net)) = Len(net) - 1 /\ (Len(Tail(net)) > 0 => Tail(net)[1] = net[2])
  BY NetTail DEF StreamInv, BufferInv
<1>2. SeqOf(n) \in Seq16 /\ SeqOf(n) \in Nat /\ SeqOf(n) <= n /\ stats \in Stats
  BY <1>1, SeqLiterals DEF BufferInv
<1> DEFINE seq == SeqOf(n)
<1>3. CASE ~ known /\ ~ done_seek /\ Len(order) = 0 /\ stats.cycles = 0 /\ InSequence(net)
  <2>1. st = UpdateSeq(FirstPacket(stats, seq), seq)
    BY <1>3 DEF Prepared
  <2>2. st.max_seq = seq /\ st.cycles = 0 /\ st.probation = 1
    BY <1>2, <1>3, <2>1, FirstStats
  <2>3. Len(Tail(net)) > 0 => Tail(net)[1] = n + 1 /\ SeqOf(n + 1) # 0
    BY <1>1, <1>3 DEF InSequence
  <2>4. 0 <= n - SeqOf(n) /\ ~ (Len(order) > 0)
    BY <1>1, <1>2, <1>3
  <2> QED BY <2>2, <2>3, <2>4
<1>4. CASE known /\ done_seek /\ Len(order) = 0
  <2>1. st = UpdateSeq(SeekReset(stats, seq), seq)
    BY <1>4 DEF Prepared
  <2>2. st.max_seq = seq /\ st.cycles = 0 /\ st.probation = 0
    BY <1>2, <2>1, SeekStats
  <2>3. 0 <= n - SeqOf(n) /\ ~ (Len(order) > 0)
    BY <1>1, <1>2, <1>4
  <2> QED BY <2>2, <2>3
<1>5. CASE known /\ ~ done_seek /\ \E last \in AllNumbers : Newest(last)
  <2>1. PICK last \in AllNumbers : Newest(last)
    BY <1>5
  <2>2. st = UpdateSeq(stats, seq)
    BY <1>5 DEF Prepared
  <2>3. last \in Nat
    BY AllAreNumbers
  <2>4. /\ stats.max_seq = SeqOf(last) /\ stats.cycles <= last - SeqOf(last)
        /\ last <= n /\ n - last < MAX_DROPOUT
        /\ Len(order) > 0 => pkt[order[1]] = last /\ pocycles = stats.cycles
        /\ \/ stats.probation = 0
           \/ stats.probation = 1 /\ stats.cycles = 0 /\ n = last + 1 /\ SeqOf(n) # 0
    BY <1>1, <2>1 DEF Newest
  <2>5. /\ st.max_seq = SeqOf(n) /\ st.cycles <= n - SeqOf(n) /\ st.probation = 0
        /\ st.cycles + SeqOf(n) = stats.cycles + SeqOf(last) + (n - last)
    <3>1. CASE stats.probation = 0
      BY <1>1, <1>2, <2>2, <2>3, <2>4, <3>1, NextStats
    <3>2. CASE stats.probation = 1 /\ stats.cycles = 0 /\ n = last + 1 /\ SeqOf(n) # 0
      <4>1. /\ st.max_seq = SeqOf(n) /\ st.cycles = 0 /\ st.probation = 0
            /\ SeqOf(n) = SeqOf(last) + 1
        BY <1>2, <2>2, <2>3, <2>4, <3>2, SecondStats
      <4>2. SeqOf(last) \in Nat /\ n - last = 1
        BY <2>3, <3>2, SeqLiterals
      <4> QED BY <1>1, <1>2, <3>2, <4>1, <4>2
    <3> QED BY <2>4, <3>1, <3>2
  <2> QED BY <2>3, <2>4, <2>5
<1> QED BY <1>3, <1>4, <1>5 DEF StreamInv

(* A packet in sequence becomes the head, or is there already. *)
LEMMA ReceiveStream ==
  ASSUME ListInv, BufferInv, BufferInv', StreamInv, NEW i \in Slots \ Queued, Receive(i)
  PROVE  /\ StreamInv'
         /\ \E n \in AllNumbers : Waiting' = Waiting \cup {n}
<1> PICK n : n = net[1]
  OBVIOUS
<1> DEFINE c == stats'.cycles
           cseq == Extended(n, c)
<1>1. /\ net # <<>> /\ net' = Tail(net) /\ Head(net) = n /\ n \in Nat \ {0} /\ n < Word
      /\ Comes(net')
      /\ Len(net') > 0 => n <= net'[1] /\ net'[1] - n < MAX_DROPOUT
  BY NetTail DEF Receive, StreamInv, BufferInv
<1>2. n \in AllNumbers /\ net' \in Seq(AllNumbers)
  BY <1>1, HeadTailProperties DEF StreamInv
<1>3. stats' = UpdateSeq(Prepared(SeqOf(n)), SeqOf(n)) /\ PoAdd(i, n, c) /\ known' /\ ~ done_seek'
  <2>1. known' = TRUE /\ done_seek' = (done_seek /\ ~ known)
    BY DEF Receive
  <2>2. ~ known => ~ done_seek
    BY DEF StreamInv
  <2> QED BY <1>1, <2>1, <2>2 DEF Receive
<1>4. stats' \in Stats /\ c \in Nat /\ pocycles \in Nat /\ Len(order) \in Nat
  BY Members, Literals DEF BufferInv, Stats
<1> HIDE DEF c
<1>5. /\ stats'.max_seq = SeqOf(n) /\ c <= n - SeqOf(n)
      /\ \/ stats'.probation = 0
         \/ /\ stats'.probation = 1 /\ c = 0
            /\ Len(net') > 0 => net'[1] = n + 1 /\ SeqOf(n + 1) # 0
      /\ Len(order) > 0 =>
           \E last \in Nat :
             /\ pkt[order[1]] = last /\ last <= n /\ pocycles <= last - SeqOf(last)
             /\ c + SeqOf(n) = pocycles + SeqOf(last) + (n - last)
  BY <1>1, <1>3, <1>4, ReceiveStats DEF c
<1>6. cseq = SeqOf(n) + c /\ SeqOf(n) \in Nat
  BY <1>1, <1>4, <1>5, ExtendedIs, SeqLiterals
<1>7. /\ Len(order) = 0 => pohead = Nil
      /\ Len(order) > 0 => pohead = order[1] /\ pohead # Nil /\ pohead \in Queued
      /\ pohead \in Queued \cup {Nil} /\ Position(pohead) = 1
  BY HeadPosition
<1>8. ASSUME pohead # Nil
      PROVE  /\ pkt[pohead] \in Nat /\ pkt[pohead] <= n
             /\ Extended(pkt[pohead], pocycles) \in Nat
             /\ cseq = Extended(pkt[pohead], pocycles) + (n - pkt[pohead])
             /\ pkt[pohead] = n => c = pocycles
  <2>1. Len(order) > 0 /\ pohead = order[1]
    BY <1>4, <1>7, <1>8
  <2>2. PICK last \in Nat : /\ pkt[order[1]] = last /\ last <= n
                            /\ pocycles <= last - SeqOf(last)
                            /\ c + SeqOf(n) = pocycles + SeqOf(last) + (n - last)
    BY <1>5, <2>1
  <2>3. last < Word /\ SeqOf(last) \in Nat
    <3>1. Word \in Nat /\ SeqOf(last) \in Nat
      BY SeqLiterals
    <3> QED BY <1>1, <2>2, <3>1
  <2>4. Extended(last, pocycles) = SeqOf(last) + pocycles
    BY <1>4, <2>2, <2>3, ExtendedIs
  <2>5. last = n => c = pocycles
    BY <1>4, <1>6, <2>2, <2>3
  <2> QED BY <1>4, <1>6, <2>1, <2>2, <2>3, <2>4, <2>5
<1>9. Search(cseq) = Begin
  <2>1. pohead # Nil => Extended(pkt[pohead], pocycles) <= cseq
    BY <1>1, <1>8
  <2> HIDE DEF cseq
  <2> QED BY <2>1, SearchAtHead
<1>10. \/ /\ pohead # Nil /\ Extended(pkt[pohead], pocycles) = cseq
          /\ UNCHANGED <<listVars, pkt, pocycles>>
       \/ /\ pohead # Nil => Extended(pkt[pohead], pocycles) # cseq
          /\ Insert(i, pohead) /\ pkt' = [pkt EXCEPT ![i] = n] /\ pocycles' = c
  BY <1>3, <1>9 DEF PoAdd, Begin
<1> HIDE DEF cseq
<1>11. ASSUME InPlayOrder', Len(order') > 0 => pkt'[order'[1]] = n /\ pocycles' = c
       PROVE  StreamInv'
  <2>1. Newest(n)'
    BY <1>1, <1>5, <1>11 DEF Newest, c
  <2> QED BY <1>1, <1>2, <1>3, <1>11, <2>1 DEF StreamInv
<1>12. CASE /\ pohead # Nil /\ Extended(pkt[pohead], pocycles) = cseq
            /\ UNCHANGED <<listVars, pkt, pocycles>>
  <2>1. pkt[pohead] = n /\ pocycles = c
    BY <1>1, <1>8, <1>12
  <2>2. order' = order /\ pkt' = pkt /\ pocycles' = pocycles
    BY <1>12 DEF listVars
  <2>3. Len(order') > 0 => pkt'[order'[1]] = n /\ pocycles' = c
    BY <1>7, <2>1, <2>2
  <2>4. InPlayOrder'
    BY <2>2 DEF StreamInv, InPlayOrder
  <2>5. Waiting' = Waiting /\ n \in Waiting
    BY <1>7, <1>12, <2>1, <2>2 DEF Waiting, Queued
  <2> QED BY <1>2, <1>11, <2>3, <2>4, <2>5
<1>13. CASE /\ pohead # Nil => Extended(pkt[pohead], pocycles) # cseq
            /\ Insert(i, pohead) /\ pkt' = [pkt EXCEPT ![i] = n] /\ pocycles' = c
  <2>1. pohead # Nil => pkt[pohead] < n
    BY <1>1, <1>8, <1>13
  <2>2. \A k \in 1 .. Position(pohead) - 1 : pkt[order[k]] > n
    BY <1>7
  <2>3. n \in Nat /\ InPlayOrder
    BY <1>1 DEF StreamInv
  <2>4. /\ InPlayOrder' /\ Waiting' = Waiting \cup {n} /\ pkt'[i] = n
        /\ order'[Position(pohead)] = i
    BY <1>7, <1>13, <2>1, <2>2, <2>3, InsertOrder
  <2>5. pkt'[order'[1]] = n /\ pocycles' = c
    BY <1>7, <1>13, <2>4
  <2> QED BY <1>2, <1>11, <2>4, <2>5
<1> QED BY <1>10, <1>12, <1>13

(* Every step keeps it, and is a step of the queue PlayoutOrder promises. *)
LEMMA NextStream ==
  ASSUME ListInv, BufferInv, BufferInv', StreamInv, [Next]_vars
  PROVE  StreamInv' /\ [Promise!Next]_Waiting
<1>1. ASSUME NEW i \in Slots \ Queued, Receive(i) PROVE StreamInv' /\ Promise!Next
  BY <1>1, ReceiveStream DEF Promise!Next, Promise!Arrive
<1>2. CASE PlayPkt
  <2>1. /\ InPlayOrder' /\ Queued' \subseteq Queued /\ Len(order') = Len(order) - 1
        /\ \A i \in Queued' : pkt'[i] = pkt[i]
        /\ Len(order) \in Nat /\ \A k \in 1 .. Len(order) - 1 : order'[k] = order[k]
        /\ \E n \in Waiting : (\A m \in Waiting : n <= m) /\ Waiting' = Waiting \ {n}
    BY <1>2, PlayOrder DEF StreamInv
  <2>2. /\ pocycles' = pocycles /\ stats' = stats /\ net' = net
        /\ known' = known /\ done_seek' = done_seek
    BY <1>2 DEF PlayPkt
  <2>3. Len(order) > 0
    BY <1>2, RemoveTailMembers DEF PlayPkt
  <2>4. PICK last \in AllNumbers : known /\ ~ done_seek /\ Newest(last)
    BY <2>3 DEF StreamInv
  <2>5. Len(order') > 0 => pkt'[order'[1]] = last
    <3> SUFFICES ASSUME Len(order') > 0 PROVE pkt'[order'[1]] = last
      OBVIOUS
    <3>1. 1 \in 1 .. Len(order) - 1 /\ 1 \in 1 .. Len(order')
      BY <2>1
    <3>2. order'[1] = order[1] /\ order'[1] \in Queued'
      BY <2>1, <3>1 DEF Queued
    <3> QED BY <2>1, <2>3, <2>4, <3>2 DEF Newest
  <2>6. Newest(last)'
    BY <2>1, <2>2, <2>3, <2>4, <2>5 DEF Newest
  <2>7. StreamInv'
    BY <2>1, <2>2, <2>4, <2>6 DEF StreamInv
  <2> QED BY <2>1, <2>7 DEF Promise!Next, Promise!Play
<1>3. CASE Seek
  <2>1. InPlayOrder' /\ Waiting' = {} /\ order' = <<>>
    BY <1>3, SeekOrder DEF Seek, RemoveAll
  <2>2. PICK k \in 1 .. Len(net) + 1 : net' = SubSeq(net, k, Len(net))
    BY <1>3 DEF Seek
  <2>3. net' \in Seq(AllNumbers) /\ Comes(net')
    BY <2>2, SuffixOf, ComesOn DEF StreamInv, BufferInv
  <2>4. known' /\ done_seek' /\ Len(order') = 0
    BY <1>3, <2>1 DEF Seek
  <2> QED BY <2>1, <2>3, <2>4 DEF StreamInv, Promise!Next, Promise!Flush
<1>4. CASE UNCHANGED vars
  <2>1. /\ order' = order /\ pkt' = pkt /\ stats' = stats /\ pocycles' = pocycles
        /\ net' = net /\ known' = known /\ done_seek' = done_seek
    BY <1>4 DEF vars, listVars
  <2>2. Waiting' = Waiting
    BY <2>1 DEF Waiting, Queued
  <2>3. StreamInv'
    BY <2>1 DEF StreamInv, InPlayOrder, Newest
  <2> QED BY <2>2, <2>3
<1> QED BY <1>1, <1>2, <1>3, <1>4 DEF Next, Done

-----------------------------------------------------------------------------
(* The order of whatever is delivered.                                     *)

LEMMA InitOrderInv ==
  ASSUME Orderly, Init
  PROVE  OrderInv
<1>1. InPlayOrder /\ Queued = {} /\ Len(order) = 0
  BY InitOrder DEF Init, ListInit
<1>2. PICK d \in Deliveries : net = d
  BY DEF Init
<1>3. d \in Seq(Nat \ {0}) /\ Len(d) \in Nat /\ DOMAIN d = 1 .. Len(d)
  BY DeliveriesAssumption
<1>4. stats.cycles = 0 /\ ~ known /\ ~ done_seek /\ pocycles = 0
  BY DEF Init, ZeroStats
<1>5. Numbers(d) \subseteq AllNumbers /\ d \in Seq(Numbers(d)) /\ d \in Seq(AllNumbers)
  <2>1. \A k \in 1 .. Len(d) : d[k] \in Numbers(d) /\ d[k] \in AllNumbers
    BY <1>3 DEF Numbers, AllNumbers
  <2>2. Numbers(d) \subseteq AllNumbers
    BY DEF Numbers, AllNumbers
  <2>3. d \in Seq(Numbers(d)) /\ d \in Seq(AllNumbers)
    BY <1>3, <2>1, IsASeq
  <2> QED BY <2>2, <2>3
<1>6. CASE Unwrapped(Numbers(d))
  <2>1. FlatInv(Numbers(d))
    BY <1>1, <1>2, <1>4, <1>5 DEF FlatInv
  <2> QED BY <1>5, <1>6, <2>1 DEF OrderInv
<1>7. CASE InSequence(d)
  BY <1>1, <1>2, <1>4, <1>5, <1>7 DEF OrderInv, StreamInv, InSequence
<1> QED BY <1>2, <1>6, <1>7 DEF Orderly

(* Every step keeps the order, and is a step of the queue PlayoutOrder promises. *)
LEMMA NextOrder ==
  ASSUME ListInv, BufferInv, OrderInv, [Next]_vars
  PROVE  OrderInv' /\ [Promise!Next]_Waiting
<1>1. CASE StreamInv
  <2>1. BufferInv'
    BY NextInv
  <2>2. StreamInv' /\ [Promise!Next]_Waiting
    BY <1>1, <2>1, NextStream
  <2> QED BY <2>2 DEF OrderInv
<1>2. ASSUME NEW A \in SUBSET AllNumbers, Unwrapped(A), FlatInv(A)
      PROVE  OrderInv' /\ [Promise!Next]_Waiting
  <2>1. FlatInv(A)' /\ [Promise!Next]_Waiting
    BY <1>2, NextFlat
  <2>2. OrderInv'
    BY <1>2, <2>1 DEF OrderInv
  <2> QED BY <2>1, <2>2
<1> QED BY <1>1, <1>2 DEF OrderInv

(* The inductive invariants hold in every state. *)
LEMMA InvariantsWhile == Orderly => (Spec => [](ListInv /\ BufferInv /\ OrderInv))
<1> SUFFICES ASSUME Orderly PROVE Spec => [](ListInv /\ BufferInv /\ OrderInv)
  OBVIOUS
<1>1. ListInv /\ BufferInv /\ OrderInv /\ [Next]_vars => (ListInv /\ BufferInv /\ OrderInv)'
  BY NextInv, NextOrder
<1>2. Init => OrderInv
  BY InitOrderInv
<1> QED BY <1>1, <1>2, InitInv, PTL DEF Spec

(* The packets that wait are in the order they were sent, the oldest at the tail:
   however they were reordered, repeated and lost on the way while the sequence number
   does not wrap, and over any number of wraps if they come in sequence. *)
THEOREM OrderKept == Orderly => (Spec => []InPlayOrder)
<1> SUFFICES ASSUME Orderly PROVE Spec => []InPlayOrder
  OBVIOUS
<1>1. ListInv /\ BufferInv /\ OrderInv => InPlayOrder
  BY DEF OrderInv, FlatInv, StreamInv
<1> QED BY <1>1, InvariantsWhile, PTL

(* Then the linked list with the search of poadd implements the queue that
   PlayoutOrder promises the application: a packet waits once, and the oldest is
   played first. *)
THEOREM PlaysInOrder == Orderly => (Spec => PlaysOldestFirst)
<1> SUFFICES ASSUME Orderly PROVE Spec => PlaysOldestFirst
  OBVIOUS
<1>1. ListInv /\ BufferInv /\ OrderInv /\ [Next]_vars => [Promise!Next]_Waiting
  BY NextOrder
<1>2. Init => Promise!Init
  BY InitOrder
<1> QED BY <1>1, <1>2, InvariantsWhile, PTL DEF Spec, PlaysOldestFirst, Promise!Spec
=============================================================================
