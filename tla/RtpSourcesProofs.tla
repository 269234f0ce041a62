-------------------------- MODULE RtpSourcesProofs --------------------------
(* Proofs about the queue of sources that the RTP and the RTCP thread search
   and extend, for any identifiers, hosts and number of packets, and whether
   or not the threads run at once. *)
EXTENDS RtpSources, WellFoundedInduction, FiniteSetTheorems, SequenceTheorems, TLAPS

-----------------------------------------------------------------------------
(* Numbers.                                                                *)

(* A non-empty set of natural numbers has a least one: the counterexample a search
   through a queue, or the turns of a loop, would meet first. *)
LEMMA LeastNat ==
  ASSUME NEW T \in SUBSET Nat, T # {}
  PROVE  \E m \in T : \A k \in T : m <= k
<1> DEFINE R == OpToRel(<, Nat)
<1>1. IsWellFoundedOn(R, Nat)
  BY NatLessThanWellFounded
<1>2. \A x, y \in Nat : x < y => <<x, y>> \in R
  BY DEF OpToRel
<1> HIDE DEF R
<1>3. PICK m \in T : \A k \in T : ~ (<<k, m>> \in R)
  BY <1>1, WFMin
<1>4. \A x, y \in Nat : ~ (x < y) => y <= x
  OBVIOUS
<1> QED BY <1>2, <1>3, <1>4

-----------------------------------------------------------------------------
Created == {"link", "identify"}
Creating == {"alloc"} \cup Created
Results == {"none", "collision", "new", "first", "known", "counted"}

(* What the variables hold. *)
Source == [ssrc : {None} \cup Ssrcs, rtp_from : {None} \cup Hosts,
           rtcp_from : {None} \cup Hosts, rtcp_to : BOOLEAN, ready : BOOLEAN,
           by : Threads, next : Seq(Nat)]

Pcs == {"idle", "gate", "walk", "lock", "alloc", "link", "identify", "poinit", "known",
        "collision", "return", "store"}

Local == [pc : Pcs,
          ssrc : {None} \cup Ssrcs, host : {None} \cup Hosts, sr : BOOLEAN,
          found : Nat, local : BOOLEAN, result : Results, m : Nat, n : Nat,
          left : Nat]

Words ==
  /\ udp \in BOOLEAN
  /\ local_ssrc \in {Own} \cup Ssrcs
  /\ heap \in Seq(Source)
  /\ queue \in Seq(1 .. Len(heap))
  /\ syn \in {None} \cup Threads
  /\ members \in Nat /\ senders \in Nat
  /\ thread \in [Threads -> Local]
  /\ fed \in Seq(SUBSET Hosts) /\ Len(fed) = Len(heap)

(* Where a thread is says what it has: a packet, a source it found. *)
Has(t) ==
  LET p == thread[t] IN
  /\ p.pc # "idle" => p.ssrc \in Ssrcs /\ p.host \in Hosts
  /\ p.found \in 0 .. Len(heap)
  /\ p.pc \in {"known", "poinit"} \cup Created => p.found # Nil
  /\ p.pc = "return" /\ p.result # "collision" => p.found # Nil
  /\ p.pc = "store" => p.found # Nil /\ p.result = "counted"
  /\ p.pc = "return" => p.result # "none"

Holds(t) == (syn = t) <=> (thread[t].pc \in {"alloc", "link", "identify", "poinit"})

(* A source that is about to be linked in front of the queue is not on it. *)
Links(t) ==
  LET p == thread[t] IN
  p.pc = "link" => /\ heap[p.found].next = queue
                   /\ \A k \in DOMAIN queue : queue[k] # p.found

(* A thread searches or creates a source for an identifier that is not the client's
   own, unless it has found that the packet carries that. *)
NotMine(t) ==
  LET p == thread[t] IN
  /\ p.pc \in {"gate", "walk"} /\ ~ p.local => p.ssrc # local_ssrc
  /\ p.pc \in {"lock"} \cup Creating => p.ssrc # local_ssrc

(* The source a thread uses is one that has the packet's identifier. *)
Found(t) ==
  LET p == thread[t] IN
  p.pc \in {"known", "poinit", "store"} \/ (p.pc = "return" /\ p.result # "collision")
    => heap[p.found].ssrc = p.ssrc

(* A thread that is creating a source has no other for the identifier. *)
Fresh(t) ==
  LET p == thread[t] IN
  /\ p.pc \in {"lock"} \cup Creating =>
       \A i \in DOMAIN heap : ~ (heap[i].by = t /\ heap[i].ssrc = p.ssrc)
  /\ p.pc \in Created =>
       heap[p.found].by = t /\ heap[p.found].ssrc = None /\ fed[p.found] = {}

(* The RTP thread sets the address of a source before it gives it the packet. *)
Origin(t) ==
  LET p == thread[t] IN
  udp /\ t = "rtp" =>
    /\ p.pc = "poinit" => heap[p.found].rtp_from = p.host
    /\ p.pc \in {"return", "store"} /\ p.result # "collision" =>
         heap[p.found].rtp_from = p.host

Place(t) == /\ Has(t) /\ Holds(t) /\ Links(t) /\ NotMine(t)
            /\ Found(t) /\ Fresh(t) /\ Origin(t)

(* The queue holds a source once, and every source that is not being linked. *)
QueueExact ==
  /\ \A j, k \in DOMAIN queue : queue[j] = queue[k] => j = k
  /\ \A i \in DOMAIN heap :
       \/ \E k \in DOMAIN queue : queue[k] = i
       \/ \E t \in Threads : thread[t].pc = "link" /\ thread[t].found = i

(* There is no source for the client's own identifier. *)
NoSourceMine == \A i \in DOMAIN heap : heap[i].ssrc # local_ssrc

(* The packets of a buffer come from the address the RTP thread set. *)
OneOrigin == udp => \A i \in DOMAIN fed : \A h \in fed[i] : h = heap[i].rtp_from

(* A source that exists and is not yet counted. *)
Owed(t) ==
  LET p == thread[t] IN
  IF \/ p.pc \in Created \cup {"poinit", "store"}
     \/ p.pc = "return" /\ p.result = "new"
  THEN 1 ELSE 0

Owing == Owed("rtp") + Owed("rtcp")

(* The counts, and what the threads have read of them, leave room for the sources
   that are owed. *)
CountsFit ==
  /\ members + Owing <= 1 + Len(heap)
  /\ senders + Owing <= Len(heap)
  /\ \A t \in Threads : thread[t].pc = "store" =>
       /\ thread[t].m + Owing <= 1 + Len(heap)
       /\ thread[t].n + Owing <= Len(heap)

(* The inductive invariant. *)
IInv == /\ Words /\ (\A t \in Threads : Place(t))
        /\ QueueExact /\ NoSourceMine /\ OnePerThread /\ OneOrigin /\ CountsFit

-----------------------------------------------------------------------------
(* The search ends at a source of the queue that has the identifier, or at the end
   of a queue that has none. *)
LEMMA FirstFinds ==
  ASSUME Words, NEW ssrc
  PROVE  \/ /\ First(ssrc) = Nil
            /\ \A k \in DOMAIN queue : heap[queue[k]].ssrc # ssrc
         \/ \E k \in DOMAIN queue : /\ First(ssrc) = queue[k]
                                    /\ heap[queue[k]].ssrc = ssrc
<1> DEFINE hits == {i \in DOMAIN queue : heap[queue[i]].ssrc = ssrc}
<1>1. CASE hits = {}
  BY <1>1 DEF First
<1>2. CASE hits # {}
  <2>1. hits \in SUBSET Nat
    BY DEF Words
  <2>2. \E i \in hits : \A j \in hits : i <= j
    BY <1>2, <2>1, LeastNat
  <2>3. First(ssrc) = queue[CHOOSE i \in hits : \A j \in hits : i <= j]
    BY <1>2 DEF First
  <2> DEFINE k == CHOOSE i \in hits : \A j \in hits : i <= j
  <2>4. k \in hits
    BY <2>2
  <2> QED BY <2>3, <2>4
<1> QED BY <1>1, <1>2

-----------------------------------------------------------------------------
(* A step of one thread leaves the other where it is. *)
Only(t) ==
  /\ thread' \in [Threads -> Local]
  /\ \A u \in Threads : u # t => thread'[u] = thread[u]

(* A thread that goes elsewhere takes what it knows with it. *)
LEMMA GotoMoves ==
  ASSUME Words, NEW t \in Threads, NEW pc \in Pcs, Goto(t, pc)
  PROVE  /\ Only(t)
         /\ thread'[t].pc = pc
         /\ thread'[t].ssrc = thread[t].ssrc /\ thread'[t].host = thread[t].host
         /\ thread'[t].found = thread[t].found /\ thread'[t].local = thread[t].local
         /\ thread'[t].result = thread[t].result
         /\ thread'[t].m = thread[t].m /\ thread'[t].n = thread[t].n
BY DEF Goto, Only, Words, Local

(* A search that returns leaves the thread its result. *)
LEMMA ReturnMoves ==
  ASSUME Words, NEW t \in Threads, NEW r \in Results, Return(t, r)
  PROVE  /\ Only(t)
         /\ thread'[t].pc = "return" /\ thread'[t].result = r
         /\ thread'[t].ssrc = thread[t].ssrc /\ thread'[t].host = thread[t].host
         /\ thread'[t].found = thread[t].found /\ thread'[t].local = thread[t].local
<1>1. thread[t] \in Local
  BY DEF Words
<1>2. [thread[t] EXCEPT !.pc = "return", !.result = r] \in Local
  BY <1>1 DEF Local, Pcs
<1>3. thread' = [thread EXCEPT ![t] = [thread[t] EXCEPT !.pc = "return", !.result = r]]
  BY DEF Return
<1> QED BY <1>1, <1>2, <1>3 DEF Only, Words, Local

(* A step that changes nothing but where its thread is. *)
LEMMA ThreadStep ==
  ASSUME IInv, NEW t \in Threads, Only(t), thread[t].pc # "link",
         UNCHANGED <<udp, local_ssrc, heap, queue, syn, fed, members, senders>>,
         Place(t)', Owed(t)' <= Owed(t),
         thread'[t].pc = "store" => thread'[t].m = members /\ thread'[t].n = senders
  PROVE  IInv'
<1>1. Words'
  BY DEF IInv, Words, Only
<1>2. ASSUME NEW u \in Threads PROVE Place(u)'
  <2>1. CASE u = t
    BY <2>1
  <2>2. CASE u # t
    <3>1. Place(u) /\ thread'[u] = thread[u]
      BY <2>2 DEF IInv, Only
    <3>2. Has(u)' /\ Holds(u)'
      BY <3>1 DEF Place, Has, Holds
    <3>3. Links(u)'
      BY <3>1 DEF Place, Links
    <3>4. NotMine(u)'
      BY <3>1 DEF Place, NotMine
    <3>5. Found(u)' /\ Fresh(u)'
      BY <3>1 DEF Place, Found, Fresh
    <3>6. Origin(u)'
      BY <3>1 DEF Place, Origin
    <3> QED BY <3>2, <3>3, <3>4, <3>5, <3>6 DEF Place
  <2> QED BY <2>1, <2>2
<1>3. QueueExact'
  BY DEF IInv, QueueExact, Only
<1>4. NoSourceMine' /\ OnePerThread' /\ OneOrigin'
  BY DEF IInv, NoSourceMine, OnePerThread, OneOrigin
<1>5. CountsFit'
  <2>1. Owing' <= Owing /\ Owing \in Nat /\ Owing' \in Nat
    BY DEF Owing, Owed, Only, Threads
  <2>2. members' = members /\ senders' = senders /\ Len(heap) \in Nat /\ heap' = heap
    BY DEF IInv, Words
  <2>3. ASSUME NEW u \in Threads, thread'[u].pc = "store"
        PROVE  thread'[u].m + Owing' <= 1 + Len(heap) /\ thread'[u].n + Owing' <= Len(heap)
    <3>1. CASE u = t
      BY <2>1, <2>2, <2>3, <3>1 DEF IInv, CountsFit, Words
    <3>2. CASE u # t
      <4>1. thread[u] \in Local /\ thread'[u] = thread[u]
        BY <3>2 DEF IInv, Words, Only
      <4> QED BY <2>1, <2>2, <2>3, <4>1 DEF IInv, CountsFit, Local
    <3> QED BY <3>1, <3>2
  <2> QED BY <2>1, <2>2, <2>3 DEF IInv, CountsFit, Words
<1> QED BY <1>1, <1>2, <1>3, <1>4, <1>5 DEF IInv

(* A packet that arrives gives its thread an identifier and an address. *)
LEMMA PacketKeeps ==
  ASSUME IInv, NEW t \in Threads, NEW ssrc \in Ssrcs, NEW host \in Hosts,
         Packet(t, ssrc, host)
  PROVE  IInv'
<1>1. PICK sr \in BOOLEAN : thread' = [thread EXCEPT ![t] =
         [Idle EXCEPT !.pc = "gate", !.ssrc = ssrc, !.host = host, !.sr = sr,
                      !.local = (local_ssrc = ssrc), !.left = thread[t].left - 1]]
  BY DEF Packet
<1> DEFINE q == [Idle EXCEPT !.pc = "gate", !.ssrc = ssrc, !.host = host, !.sr = sr,
                      !.local = (local_ssrc = ssrc), !.left = thread[t].left - 1]
<1>2. /\ thread[t] \in Local /\ thread[t].pc = "idle" /\ thread[t].left > 0
      /\ UNCHANGED <<udp, local_ssrc, heap, queue, syn, fed, members, senders>>
  BY DEF IInv, Words, Packet, shared, counts
<1>3. thread[t].left - 1 \in Nat
  BY <1>2 DEF Local
<1>4. /\ q \in Local /\ q.pc = "gate" /\ q.ssrc = ssrc /\ q.host = host /\ q.found = Nil
      /\ q.local = (local_ssrc = ssrc)
  BY <1>3, SourcesAssumption DEF Idle, Local, Pcs, Results, Nil
<1> HIDE DEF q
<1>5. Only(t) /\ thread'[t] = q
  BY <1>1, <1>4 DEF IInv, Words, Only, q
<1>6. Place(t)'
  <2>1. Holds(t) /\ Len(heap) \in Nat
    BY DEF IInv, Place, Words
  <2>2. Has(t)' /\ Holds(t)'
    BY <1>2, <1>4, <1>5, <2>1 DEF Has, Holds, Nil, Created
  <2>3. Links(t)' /\ NotMine(t)'
    BY <1>2, <1>4, <1>5 DEF Links, NotMine, Creating, Created
  <2>4. Found(t)' /\ Fresh(t)' /\ Origin(t)'
    BY <1>2, <1>4, <1>5 DEF Found, Fresh, Origin, Creating, Created
  <2> QED BY <2>2, <2>3, <2>4 DEF Place
<1>7. Owed(t)' = 0 /\ Owed(t) = 0
  BY <1>2, <1>4, <1>5 DEF Owed, Created
<1> QED BY <1>2, <1>4, <1>5, <1>6, <1>7, ThreadStep

(* The comparison with the client's own identifier changes nothing but where the thread is. *)
LEMMA GateKeeps ==
  ASSUME IInv, NEW t \in Threads, Gate(t)
  PROVE  IInv'
<1>1. Only(t) /\ thread[t].pc = "gate" /\ thread'[t].pc = "walk"
  BY GotoMoves DEF IInv, Gate, Pcs
<1>2. UNCHANGED <<udp, local_ssrc, heap, queue, syn, fed, members, senders>>
  BY DEF Gate, shared, counts
<1>3. Place(t)'
  BY <1>2, GotoMoves
     DEF Gate, IInv, Pcs, Place, Has, Holds, Links, NotMine, Found, Fresh, Origin, Creating, Created
<1>4. Owed(t)' = 0 /\ Owed(t) = 0
  BY <1>1 DEF Owed, Created
<1> QED BY <1>1, <1>2, <1>3, <1>4, ThreadStep

(* What the search did not find in the queue, the thread has not created. *)
LEMMA WalkKeeps ==
  ASSUME IInv, NEW t \in Threads, Walk(t)
  PROVE  IInv'
<1> DEFINE p == thread[t]
           found == IF p.local THEN (IF queue = <<>> THEN Nil ELSE queue[1])
                    ELSE First(p.ssrc)
           pc == IF p.local THEN "collision" ELSE IF found = Nil THEN "lock" ELSE "known"
           q == [p EXCEPT !.found = found, !.pc = pc]
<1>1. p \in Local /\ p.pc = "walk" /\ p.local \in BOOLEAN
  BY DEF IInv, Words, Walk, Local
<1>2. found \in 0 .. Len(heap) /\ Len(heap) \in Nat
  <2>1. queue # <<>> => queue[1] \in 1 .. Len(heap)
    BY DEF IInv, Words
  <2>2. \A k \in DOMAIN queue : queue[k] \in 1 .. Len(heap)
    BY DEF IInv, Words
  <2>3. Len(heap) \in Nat
    BY DEF IInv, Words
  <2> QED BY <2>1, <2>2, <2>3, FirstFinds DEF Nil, IInv
<1>3. ~ p.local /\ found = Nil => \A i \in DOMAIN heap : ~ (heap[i].by = t /\ heap[i].ssrc = p.ssrc)
  <2> SUFFICES ASSUME ~ p.local, found = Nil, NEW i \in DOMAIN heap,
                      heap[i].by = t, heap[i].ssrc = p.ssrc
               PROVE  FALSE
    OBVIOUS
  <2>1. \A k \in DOMAIN queue : queue[k] # Nil /\ queue[k] \in DOMAIN heap
    BY DEF IInv, Words, Nil
  <2>2. \A k \in DOMAIN queue : heap[queue[k]].ssrc # p.ssrc
    BY <2>1, FirstFinds DEF IInv
  <2>3. PICK u \in Threads : thread[u].pc = "link" /\ thread[u].found = i
    BY <2>2 DEF IInv, QueueExact
  <2>4. heap[i].by = u
    BY <2>3 DEF IInv, Place, Fresh, Created
  <2> QED BY <1>1, <2>3, <2>4
<1>9. pc = "known" => heap[found].ssrc = p.ssrc
  BY FirstFinds DEF IInv
<1> HIDE DEF found
<1>4. q \in Local /\ q.pc = pc /\ q.found = found /\ q.ssrc = p.ssrc /\ q.host = p.host
      /\ q.result = p.result /\ pc \in {"collision", "lock", "known"}
  <2>1. pc \in {"collision", "lock", "known"}
    OBVIOUS
  <2>2. found \in Nat
    BY <1>2
  <2> HIDE DEF pc
  <2>3. pc \in Pcs
    BY <2>1 DEF Pcs
  <2> QED BY <1>1, <2>1, <2>2, <2>3 DEF Local
<1>5. /\ UNCHANGED <<udp, local_ssrc, heap, queue, syn, fed, members, senders>>
      /\ thread' = [thread EXCEPT ![t] = q]
  BY DEF Walk, found, shared, counts
<1> HIDE DEF q
<1>6. Only(t) /\ thread'[t] = q
  BY <1>4, <1>5 DEF IInv, Words, Only
<1>7. Place(t)'
  <2>1. Has(t) /\ Holds(t) /\ NotMine(t)
    BY DEF IInv, Place
  <2> QED BY <1>1, <1>2, <1>3, <1>4, <1>5, <1>6, <1>9, <2>1
          DEF Place, Has, Holds, Links, NotMine, Found, Fresh, Origin, Nil, Creating, Created
<1>8. Owed(t)' = 0 /\ Owed(t) = 0
  BY <1>1, <1>4, <1>6 DEF Owed, Created
<1> QED BY <1>1, <1>4, <1>5, <1>6, <1>7, <1>8, ThreadStep

(* The packet has the client's own identifier: the client gives it up, once. *)
LEMMA LocalCollisionKeeps ==
  ASSUME IInv, NEW t \in Threads, LocalCollision(t)
  PROVE  IInv'
<1>1. /\ thread[t].pc = "collision" /\ Place(t) /\ Words
      /\ UNCHANGED <<udp, heap, queue, syn, fed, members, senders>>
  BY DEF IInv, LocalCollision, counts
<1>2. Owed(t) = 0
  BY <1>1 DEF Owed, Created
<1>3. CASE udp /\ thread[t].ssrc = local_ssrc
  <2>1. /\ Only(t) /\ thread'[t].pc = "lock" /\ thread'[t].ssrc = thread[t].ssrc
        /\ thread'[t].host = thread[t].host /\ thread'[t].found = thread[t].found
        /\ local_ssrc' = Own
    BY <1>1, <1>3, GotoMoves DEF LocalCollision, Pcs
  <2>2. Words'
    BY <1>1, <2>1 DEF Words, Only
  <2>3. ASSUME NEW u \in Threads PROVE Place(u)'
    <3>1. thread'[u].pc # "idle" => thread'[u].ssrc # Own
      BY <1>1, <2>1, SourcesAssumption DEF IInv, Place, Has, Only
    <3>2. CASE u = t
      <4>1. Has(t)' /\ Holds(t)' /\ Links(t)' /\ NotMine(t)' /\ Found(t)' /\ Origin(t)'
        BY <1>1, <2>1, <3>1, <3>2
           DEF Place, Has, Holds, Links, NotMine, Found, Origin, Created, Creating
      <4>2. Fresh(t)'
        BY <1>1, <1>3, <2>1 DEF IInv, NoSourceMine, Fresh, Created, Creating
      <4> QED BY <3>2, <4>1, <4>2 DEF Place
    <3>3. CASE u # t
      <4>1. Place(u) /\ thread'[u] = thread[u]
        BY <2>1, <3>3 DEF IInv, Only
      <4>2. Has(u)' /\ Holds(u)' /\ Links(u)'
        BY <1>1, <4>1 DEF Place, Has, Holds, Links
      <4>3. NotMine(u)'
        BY <2>1, <3>1 DEF NotMine, Creating, Created
      <4>4. Found(u)' /\ Fresh(u)' /\ Origin(u)'
        BY <1>1, <4>1 DEF Place, Found, Fresh, Origin
      <4> QED BY <4>2, <4>3, <4>4 DEF Place
    <3> QED BY <3>2, <3>3
  <2>4. QueueExact'
    BY <1>1, <2>1 DEF IInv, QueueExact, Only
  <2>5. NoSourceMine'
    <3>1. \A i \in DOMAIN heap : heap[i] \in Source
      BY <1>1 DEF Words
    <3>2. \A i \in DOMAIN heap : heap[i].ssrc # Own
      BY <3>1, SourcesAssumption DEF Source
    <3> QED BY <1>1, <2>1, <3>2 DEF NoSourceMine
  <2>6. OnePerThread' /\ OneOrigin'
    BY <1>1 DEF IInv, OnePerThread, OneOrigin
  <2>7. CountsFit'
    <3>1. Owing' = Owing
      BY <1>2, <2>1 DEF Owing, Owed, Only, Threads, Created
    <3> QED BY <1>1, <2>1, <3>1 DEF IInv, CountsFit, Only
  <2> QED BY <2>2, <2>3, <2>4, <2>5, <2>6, <2>7 DEF IInv
<1>4. CASE ~ (udp /\ thread[t].ssrc = local_ssrc)
  <2>1. Return(t, "collision") /\ local_ssrc' = local_ssrc
    BY <1>4 DEF LocalCollision
  <2>2. /\ Only(t) /\ thread'[t].pc = "return" /\ thread'[t].result = "collision"
        /\ thread'[t].ssrc = thread[t].ssrc
        /\ thread'[t].host = thread[t].host /\ thread'[t].found = thread[t].found
    BY <1>1, <2>1, ReturnMoves DEF Results
  <2>3. Has(t)' /\ Holds(t)' /\ Links(t)' /\ NotMine(t)'
    BY <1>1, <2>1, <2>2 DEF Place, Has, Holds, Links, NotMine, Created, Creating
  <2>4. Found(t)' /\ Fresh(t)' /\ Origin(t)'
    BY <2>2 DEF Found, Fresh, Origin, Created, Creating
  <2>5. Owed(t)' = 0
    BY <2>2 DEF Owed, Created
  <2> QED BY <1>1, <1>2, <2>1, <2>2, <2>3, <2>4, <2>5, ThreadStep DEF Place
<1> QED BY <1>3, <1>4

(* members and senders are read: what is read leaves room for what is owed. *)
LEMMA CountReadKeeps ==
  ASSUME IInv, NEW t \in Threads, CountRead(t)
  PROVE  IInv'
<1> DEFINE q == [thread[t] EXCEPT !.pc = "store", !.result = "counted",
                                  !.m = members, !.n = senders]
<1>1. /\ thread[t].pc = "return" /\ thread[t].result = "new" /\ Place(t) /\ Words
      /\ thread[t] \in Local
      /\ UNCHANGED <<udp, local_ssrc, heap, queue, syn, fed, members, senders>>
  BY DEF IInv, CountRead, Counts, counts, shared, Words
<1>2. /\ q \in Local /\ q.pc = "store" /\ q.result = "counted" /\ q.m = members
      /\ q.n = senders /\ q.found = thread[t].found /\ q.ssrc = thread[t].ssrc
      /\ q.host = thread[t].host
  BY <1>1 DEF Local, Words, Pcs, Results
<1>3. thread' = [thread EXCEPT ![t] = q]
  BY DEF CountRead
<1> HIDE DEF q
<1>4. Only(t) /\ thread'[t] = q
  BY <1>1, <1>2, <1>3 DEF Only, Words
<1>5. Has(t)' /\ Holds(t)' /\ Links(t)' /\ NotMine(t)'
  BY <1>1, <1>2, <1>4 DEF Place, Has, Holds, Links, NotMine, Created, Creating
<1>6. Found(t)' /\ Fresh(t)' /\ Origin(t)'
  BY <1>1, <1>2, <1>4 DEF Place, Found, Fresh, Origin, Created, Creating
<1>7. Owed(t)' = 1 /\ Owed(t) = 1
  BY <1>1, <1>2, <1>4 DEF Owed
<1> QED BY <1>1, <1>2, <1>4, <1>5, <1>6, <1>7, ThreadStep DEF Place

(* ... and what is stored is one more, for a source that is owed no longer. *)
LEMMA CountStoreKeeps ==
  ASSUME IInv, NEW t \in Threads, CountStore(t)
  PROVE  IInv'
<1>1. /\ thread[t].pc = "store" /\ Place(t) /\ Words /\ thread[t] \in Local
      /\ UNCHANGED <<udp, local_ssrc, heap, queue, syn, fed>>
      /\ members' = thread[t].m + 1
      /\ senders' = IF thread[t].sr THEN thread[t].n + 1 ELSE senders
  BY DEF IInv, CountStore, shared, Words
<1>2. /\ Only(t) /\ thread'[t].pc = "return" /\ thread'[t].ssrc = thread[t].ssrc
      /\ thread'[t].host = thread[t].host /\ thread'[t].found = thread[t].found
      /\ thread'[t].result = thread[t].result
  BY <1>1, GotoMoves DEF CountStore, Pcs
<1>3. thread[t].m \in Nat /\ thread[t].n \in Nat /\ Len(heap) \in Nat
      /\ members \in Nat /\ senders \in Nat
  BY <1>1 DEF Local, Words
<1>4. Words'
  BY <1>1, <1>2, <1>3 DEF Words, Only
<1>5. ASSUME NEW u \in Threads PROVE Place(u)'
  <2>1. CASE u = t
    <3>1. Has(t)' /\ Holds(t)' /\ Links(t)' /\ NotMine(t)'
      BY <1>1, <1>2 DEF Place, Has, Holds, Links, NotMine, Created, Creating
    <3>2. Found(t)' /\ Fresh(t)' /\ Origin(t)'
      BY <1>1, <1>2 DEF Place, Found, Fresh, Origin, Created, Creating
    <3> QED BY <2>1, <3>1, <3>2 DEF Place
  <2>2. CASE u # t
    <3>1. Place(u) /\ thread'[u] = thread[u]
      BY <1>2, <2>2 DEF IInv, Only
    <3>2. Has(u)' /\ Holds(u)' /\ Links(u)' /\ NotMine(u)'
      BY <1>1, <3>1 DEF Place, Has, Holds, Links, NotMine
    <3>3. Found(u)' /\ Fresh(u)' /\ Origin(u)'
      BY <1>1, <3>1 DEF Place, Found, Fresh, Origin
    <3> QED BY <3>2, <3>3 DEF Place
  <2> QED BY <2>1, <2>2
<1>6. QueueExact'
  BY <1>1, <1>2 DEF IInv, QueueExact, Only
<1>7. NoSourceMine' /\ OnePerThread' /\ OneOrigin'
  BY <1>1 DEF IInv, NoSourceMine, OnePerThread, OneOrigin
<1>8. CountsFit'
  <2>1. Owing \in Nat /\ Owing' = Owing - 1
    <3>1. Owed(t) = 1 /\ Owed(t)' = 0
      BY <1>1, <1>2 DEF Owed, Place, Has, Created
    <3>2. \A u \in Threads : Owed(u) \in {0, 1} /\ (u # t => Owed(u)' = Owed(u))
      BY <1>2 DEF Owed, Only
    <3> QED BY <3>1, <3>2 DEF Owing, Threads
  <2>2. /\ thread[t].m + Owing <= 1 + Len(heap) /\ thread[t].n + Owing <= Len(heap)
        /\ senders + Owing <= Len(heap)
    BY <1>1 DEF IInv, CountsFit
  <2>3. members' + Owing' <= 1 + Len(heap) /\ senders' + Owing' <= Len(heap)
    <3>1. senders' = thread[t].n + 1 \/ senders' = senders
      BY <1>1
    <3>2. members' = thread[t].m + 1
      BY <1>1
    <3>3. members' + Owing' <= 1 + Len(heap)
      BY <1>3, <2>1, <2>2, <3>2
    <3>4. CASE senders' = thread[t].n + 1
      BY <1>3, <2>1, <2>2, <3>3, <3>4
    <3>5. CASE senders' = senders
      BY <1>3, <2>1, <2>2, <3>3, <3>5
    <3> QED BY <3>1, <3>4, <3>5
  <2>4. ASSUME NEW u \in Threads, thread'[u].pc = "store"
        PROVE  thread'[u].m + Owing' <= 1 + Len(heap) /\ thread'[u].n + Owing' <= Len(heap)
    <3>1. u # t /\ thread'[u] = thread[u] /\ thread[u] \in Local
      BY <1>1, <1>2, <2>4 DEF Only, Words
    <3>2. thread[u].m \in Nat /\ thread[u].n \in Nat
      BY <3>1 DEF Local
    <3>3. thread[u].m + Owing <= 1 + Len(heap) /\ thread[u].n + Owing <= Len(heap)
      BY <2>4, <3>1 DEF IInv, CountsFit
    <3> QED BY <1>3, <2>1, <3>1, <3>2, <3>3
  <2> QED BY <1>1, <2>3, <2>4 DEF CountsFit
<1> QED BY <1>4, <1>5, <1>6, <1>7, <1>8 DEF IInv

(* rtp_recv takes the packet into the buffer of the source that its address is set for. *)
LEMMA FinishKeeps ==
  ASSUME IInv, NEW t \in Threads, Finish(t)
  PROVE  IInv'
<1> DEFINE q == [Idle EXCEPT !.left = thread[t].left]
<1>1. /\ thread[t].pc = "return" /\ thread[t].result # "new" /\ Place(t) /\ Words
      /\ thread[t] \in Local
      /\ UNCHANGED <<udp, local_ssrc, heap, queue, syn, members, senders>>
      /\ thread' = [thread EXCEPT ![t] = q]
  BY DEF IInv, Finish, Done, Counts, counts, shared, Words
<1>2. q \in Local /\ q.pc = "idle" /\ q.found = Nil
  BY <1>1 DEF Local, Idle, Pcs, Results, Nil
<1> HIDE DEF q
<1>3. Only(t) /\ thread'[t] = q
  BY <1>1, <1>2 DEF Only, Words
<1>4. \/ fed' = fed
      \/ /\ t = "rtp" /\ thread[t].result # "collision"
         /\ fed' = [fed EXCEPT ![thread[t].found] = @ \cup {thread[t].host}]
  BY DEF Finish, Feed, Parse
<1>5. /\ thread[t].host \in Hosts /\ thread[t].found \in 0 .. Len(heap)
      /\ thread[t].result # "collision" => thread[t].found \in 1 .. Len(heap)
      /\ Len(heap) \in Nat
  BY <1>1 DEF Place, Has, Nil, Words
<1>6. /\ fed' \in Seq(SUBSET Hosts) /\ Len(fed') = Len(heap)
      /\ \A i \in DOMAIN fed' : i \in DOMAIN fed /\ \A h \in fed'[i] :
           \/ h \in fed[i]
           \/ t = "rtp" /\ thread[t].result # "collision" /\ i = thread[t].found
              /\ h = thread[t].host
      /\ \A i \in DOMAIN fed : fed'[i] # fed[i] =>
           t = "rtp" /\ thread[t].result # "collision" /\ i = thread[t].found
  <2>1. CASE fed' = fed
    BY <1>1, <2>1 DEF Words
  <2>2. CASE /\ t = "rtp" /\ thread[t].result # "collision"
             /\ fed' = [fed EXCEPT ![thread[t].found] = @ \cup {thread[t].host}]
    <3>1. fed \in Seq(SUBSET Hosts) /\ Len(fed) = Len(heap)
      BY <1>1 DEF Words
    <3> QED BY <1>5, <2>2, <3>1
  <2> QED BY <1>4, <2>1, <2>2
<1>7. Words'
  BY <1>1, <1>3, <1>6 DEF Words, Only
<1>8. ASSUME NEW u \in Threads PROVE Place(u)'
  <2>1. CASE u = t
    <3>1. Has(t)' /\ Holds(t)' /\ Links(t)' /\ NotMine(t)'
      BY <1>1, <1>2, <1>3, <1>5 DEF Place, Has, Holds, Links, NotMine, Created, Creating, Nil
    <3>2. Found(t)' /\ Fresh(t)' /\ Origin(t)'
      BY <1>2, <1>3 DEF Found, Fresh, Origin, Created, Creating
    <3> QED BY <2>1, <3>1, <3>2 DEF Place
  <2>2. CASE u # t
    <3>1. Place(u) /\ thread'[u] = thread[u]
      BY <1>3, <2>2 DEF IInv, Only
    <3>2. Has(u)' /\ Holds(u)' /\ Links(u)' /\ NotMine(u)'
      BY <1>1, <3>1 DEF Place, Has, Holds, Links, NotMine
    <3>3. Found(u)' /\ Origin(u)'
      BY <1>1, <3>1 DEF Place, Found, Origin
    <3>4. Fresh(u)'
      <4>1. ASSUME thread[u].pc \in Created PROVE fed'[thread[u].found] = fed[thread[u].found]
        <5>1. heap[thread[u].found].ssrc = None
          BY <3>1, <4>1 DEF Place, Fresh
        <5>2. thread[u].found \in DOMAIN fed
          BY <1>1, <1>5, <3>1, <4>1 DEF Place, Has, Words, Nil
        <5>3. thread[t].result # "collision" => heap[thread[t].found].ssrc \in Ssrcs
          BY <1>1 DEF Place, Has, Found
        <5> QED BY <1>6, <5>1, <5>2, <5>3, SourcesAssumption
      <4> QED BY <1>1, <3>1, <4>1 DEF Place, Fresh
    <3> QED BY <3>2, <3>3, <3>4 DEF Place
  <2> QED BY <2>1, <2>2
<1>9. QueueExact'
  BY <1>1, <1>2, <1>3 DEF IInv, QueueExact, Only
<1>10. NoSourceMine' /\ OnePerThread'
  BY <1>1 DEF IInv, NoSourceMine, OnePerThread
<1>11. OneOrigin'
  BY <1>1, <1>6 DEF IInv, OneOrigin, Place, Origin
<1>12. CountsFit'
  <2>1. Owed(t) = 0 /\ Owed(t)' = 0
    BY <1>1, <1>2, <1>3 DEF Owed, Created
  <2>2. Owing' = Owing
    BY <1>3, <2>1 DEF Owing, Owed, Only, Threads, Created
  <2> QED BY <1>1, <1>2, <1>3, <2>2 DEF IInv, CountsFit, Only
<1> QED BY <1>7, <1>8, <1>9, <1>10, <1>11, <1>12 DEF IInv

-----------------------------------------------------------------------------
(* With the mutex a thread creates a source, and the other thread does not. *)
LEMMA LockSourceKeeps ==
  ASSUME IInv, NEW t \in Threads, LockSource(t)
  PROVE  IInv'
<1>1. /\ thread[t].pc = "lock" /\ syn = None /\ syn' = t /\ Place(t) /\ Words
      /\ UNCHANGED <<udp, local_ssrc, heap, queue, members, senders, fed>>
  BY DEF IInv, LockSource, counts
<1>2. /\ Only(t) /\ thread'[t].pc = "alloc" /\ thread'[t].ssrc = thread[t].ssrc
      /\ thread'[t].host = thread[t].host /\ thread'[t].found = thread[t].found
  BY <1>1, GotoMoves DEF LockSource, Pcs
<1>3. Words'
  BY <1>1, <1>2 DEF Words, Only
<1>4. t # None
  BY SourcesAssumption
<1>5. ASSUME NEW u \in Threads PROVE Place(u)'
  <2>1. CASE u = t
    <3>1. Has(t)' /\ Holds(t)' /\ Links(t)' /\ NotMine(t)'
      BY <1>1, <1>2 DEF Place, Has, Holds, Links, NotMine, Created, Creating
    <3>2. Found(t)' /\ Fresh(t)' /\ Origin(t)'
      BY <1>1, <1>2 DEF Place, Found, Fresh, Origin, Created, Creating
    <3> QED BY <2>1, <3>1, <3>2 DEF Place
  <2>2. CASE u # t
    <3>1. Place(u) /\ thread'[u] = thread[u]
      BY <1>2, <2>2 DEF IInv, Only
    <3>2. Has(u)' /\ Links(u)' /\ NotMine(u)'
      BY <1>1, <3>1 DEF Place, Has, Links, NotMine
    <3>3. Holds(u)'
      BY <1>1, <1>4, <2>2, <3>1, SourcesAssumption DEF Place, Holds
    <3>4. Found(u)' /\ Fresh(u)' /\ Origin(u)'
      BY <1>1, <3>1 DEF Place, Found, Fresh, Origin
    <3> QED BY <3>2, <3>3, <3>4 DEF Place
  <2> QED BY <2>1, <2>2
<1>6. QueueExact'
  BY <1>1, <1>2 DEF IInv, QueueExact, Only
<1>7. NoSourceMine' /\ OnePerThread' /\ OneOrigin'
  BY <1>1 DEF IInv, NoSourceMine, OnePerThread, OneOrigin
<1>8. CountsFit'
  <2>1. Owing' = Owing
    BY <1>1, <1>2 DEF Owing, Owed, Only, Threads, Created
  <2> QED BY <1>1, <1>2, <2>1 DEF IInv, CountsFit, Only
<1> QED BY <1>3, <1>5, <1>6, <1>7, <1>8 DEF IInv

(* A new source is owed to the counts, and stands alone until it is linked. *)
LEMMA AllocKeeps ==
  ASSUME IInv, NEW t \in Threads, Alloc(t)
  PROVE  IInv'
<1> DEFINE s == [ssrc |-> None, rtp_from |-> None, rtcp_from |-> None,
                 rtcp_to |-> FALSE, ready |-> FALSE, by |-> t, next |-> queue]
           new == Len(heap) + 1
           q == [thread[t] EXCEPT !.pc = "link", !.found = new]
<1>1. /\ thread[t].pc = "alloc" /\ Place(t) /\ Words /\ thread[t] \in Local
      /\ UNCHANGED <<udp, local_ssrc, queue, syn, members, senders>>
      /\ heap' = Append(heap, s) /\ fed' = Append(fed, {})
  BY DEF IInv, Alloc, counts, Words
<1>2. s \in Source /\ s.ssrc = None /\ s.by = t /\ s.next = queue /\ Len(heap) \in Nat
  <2>1. queue \in Seq(Nat)
    BY <1>1 DEF Words
  <2> QED BY <1>1, <2>1 DEF Source, Words
<1> HIDE DEF s
<1>3. /\ heap' \in Seq(Source) /\ Len(heap') = new /\ heap'[new] = s
      /\ DOMAIN heap' = 1 .. new /\ DOMAIN heap = 1 .. Len(heap)
      /\ \A i \in 1 .. Len(heap) : heap'[i] = heap[i]
  BY <1>1, <1>2 DEF Words
<1>4. /\ fed' \in Seq(SUBSET Hosts) /\ Len(fed') = new /\ fed'[new] = {}
      /\ DOMAIN fed' = 1 .. new /\ DOMAIN fed = 1 .. Len(heap)
      /\ \A i \in 1 .. Len(heap) : fed'[i] = fed[i]
  BY <1>1, <1>2 DEF Words
<1>5. thread' = [thread EXCEPT ![t] = q]
  BY <1>3 DEF Alloc
<1>6. /\ q \in Local /\ q.pc = "link" /\ q.found = new /\ q.ssrc = thread[t].ssrc
      /\ q.host = thread[t].host
  <2>1. new \in Nat
    BY <1>2
  <2> HIDE DEF new
  <2> QED BY <1>1, <2>1 DEF Local, Pcs
<1> HIDE DEF q
<1>7. Only(t) /\ thread'[t] = q
  BY <1>1, <1>5, <1>6 DEF Only, Words
<1>8. queue \in Seq(1 .. Len(heap)) /\ queue \in Seq(1 .. new)
  BY <1>1, <1>2 DEF Words
<1>9. Words'
  BY <1>1, <1>3, <1>4, <1>7, <1>8 DEF Words, Only
<1>10. ASSUME NEW u \in Threads PROVE Place(u)'
  <2>1. CASE u = t
    <3>1. q.ssrc \in Ssrcs /\ q.host \in Hosts /\ q.ssrc # None
      BY <1>1, <1>6, SourcesAssumption DEF Place, Has
    <3>2. Has(t)' /\ Holds(t)' /\ NotMine(t)'
      BY <1>1, <1>2, <1>3, <1>6, <1>7, <3>1
         DEF Place, Has, Holds, NotMine, Created, Creating, Nil
    <3>3. Links(t)'
      BY <1>1, <1>2, <1>3, <1>6, <1>7, <1>8 DEF Links
    <3>4. Found(t)' /\ Origin(t)'
      BY <1>6, <1>7 DEF Found, Origin
    <3>5. \A i \in DOMAIN heap' : ~ (heap'[i].by = t /\ heap'[i].ssrc = q.ssrc)
      BY <1>1, <1>2, <1>3, <1>6, <3>1 DEF Place, Fresh, Creating
    <3>6. Fresh(t)'
      BY <1>2, <1>3, <1>4, <1>6, <1>7, <3>5 DEF Fresh
    <3> QED BY <2>1, <3>2, <3>3, <3>4, <3>6 DEF Place
  <2>2. CASE u # t
    <3>1. Place(u) /\ thread'[u] = thread[u] /\ thread[u].pc \notin Creating \cup {"poinit"}
      BY <1>1, <1>7, <2>2 DEF IInv, Only, Place, Holds, Creating, Created
    <3>2. Has(u)' /\ Holds(u)' /\ NotMine(u)'
      BY <1>1, <1>2, <1>3, <3>1 DEF Place, Has, Holds, NotMine
    <3>3. Links(u)'
      BY <3>1 DEF Links, Creating, Created
    <3>4. thread[u].found # Nil => heap'[thread[u].found] = heap[thread[u].found]
      BY <1>2, <1>3, <3>1 DEF Place, Has, Nil
    <3>5. Found(u)' /\ Origin(u)'
      BY <1>1, <3>1, <3>4 DEF Place, Has, Found, Origin
    <3>6. Fresh(u)'
      BY <1>2, <1>3, <2>2, <3>1 DEF Place, Fresh, Creating
    <3> QED BY <3>2, <3>3, <3>5, <3>6 DEF Place
  <2> QED BY <2>1, <2>2
<1>11. QueueExact'
  <2>1. \A j, k \in DOMAIN queue : queue[j] = queue[k] => j = k
    BY DEF IInv, QueueExact
  <2>2. ASSUME NEW i \in DOMAIN heap'
        PROVE  \/ \E k \in DOMAIN queue : queue[k] = i
               \/ \E u \in Threads : thread'[u].pc = "link" /\ thread'[u].found = i
    <3>1. CASE i = new
      BY <1>6, <1>7, <3>1
    <3>2. CASE i \in DOMAIN heap
      <4>1. \A u \in Threads : thread[u].pc # "link"
        BY <1>1 DEF IInv, Place, Holds
      <4> QED BY <3>2, <4>1 DEF IInv, QueueExact
    <3> QED BY <1>2, <1>3, <3>1, <3>2
  <2> QED BY <1>1, <2>1, <2>2 DEF QueueExact
<1>12. NoSourceMine'
  <2>1. local_ssrc # None
    BY <1>1, SourcesAssumption DEF Words
  <2> QED BY <1>1, <1>2, <1>3, <2>1 DEF IInv, NoSourceMine
<1>13. OnePerThread'
  BY <1>2, <1>3 DEF IInv, OnePerThread
<1>14. OneOrigin'
  BY <1>1, <1>2, <1>3, <1>4 DEF IInv, OneOrigin
<1>15. CountsFit'
  <2>1. Owing \in Nat /\ Owing' = Owing + 1
    <3>1. Owed(t) = 0 /\ Owed(t)' = 1
      BY <1>1, <1>6, <1>7 DEF Owed, Created
    <3>2. \A u \in Threads : Owed(u) \in {0, 1} /\ (u # t => Owed(u)' = Owed(u))
      BY <1>7 DEF Owed, Only
    <3> QED BY <3>1, <3>2 DEF Owing, Threads
  <2>2. members \in Nat /\ senders \in Nat
    BY <1>1 DEF Words
  <2>3. members' + Owing' <= 1 + Len(heap') /\ senders' + Owing' <= Len(heap')
    BY <1>1, <1>2, <1>3, <2>1, <2>2 DEF IInv, CountsFit
  <2>4. ASSUME NEW u \in Threads, thread'[u].pc = "store"
        PROVE  thread'[u].m + Owing' <= 1 + Len(heap') /\ thread'[u].n + Owing' <= Len(heap')
    <3>1. thread'[u] = thread[u] /\ thread[u] \in Local
      BY <1>1, <1>6, <1>7, <2>4 DEF Only, Words
    <3>2. thread[u].m \in Nat /\ thread[u].n \in Nat
      BY <3>1 DEF Local
    <3>3. thread[u].m + Owing <= 1 + Len(heap) /\ thread[u].n + Owing <= Len(heap)
      BY <2>4, <3>1 DEF IInv, CountsFit
    <3> QED BY <1>2, <1>3, <2>1, <3>1, <3>2, <3>3
  <2> QED BY <2>3, <2>4 DEF CountsFit
<1> QED BY <1>9, <1>10, <1>11, <1>12, <1>13, <1>14, <1>15 DEF IInv

(* The source is put in front of the queue it was allocated with: nobody has
   linked another since. *)
LEMMA LinkKeeps ==
  ASSUME IInv, NEW t \in Threads, Link(t)
  PROVE  IInv'
<1> DEFINE i0 == thread[t].found
<1>1. /\ thread[t].pc = "link" /\ Place(t) /\ Words
      /\ UNCHANGED <<udp, local_ssrc, heap, syn, fed, members, senders>>
  BY DEF IInv, Link, counts
<1>2. i0 \in 1 .. Len(heap) /\ Len(heap) \in Nat /\ heap[i0].next = queue
      /\ \A k \in DOMAIN queue : queue[k] # i0
  BY <1>1 DEF Place, Has, Links, Created, Nil, Words
<1>3. queue' = <<i0>> \o queue
  BY <1>2 DEF Link
<1>4. /\ Only(t) /\ thread'[t].pc = "identify" /\ thread'[t].ssrc = thread[t].ssrc
      /\ thread'[t].host = thread[t].host /\ thread'[t].found = i0
  BY <1>1, GotoMoves DEF Link, Pcs
<1>5. /\ queue \in Seq(1 .. Len(heap)) /\ queue' \in Seq(1 .. Len(heap))
      /\ Len(queue) \in Nat /\ DOMAIN queue = 1 .. Len(queue)
      /\ DOMAIN queue' = 1 .. Len(queue) + 1 /\ queue'[1] = i0
      /\ \A k \in 2 .. Len(queue) + 1 : queue'[k] = queue[k - 1]
  BY <1>1, <1>2, <1>3 DEF Words
<1>6. Words'
  BY <1>1, <1>4, <1>5 DEF Words, Only
<1>7. ASSUME NEW u \in Threads PROVE Place(u)'
  <2>1. CASE u = t
    <3>1. Has(t)' /\ Holds(t)' /\ Links(t)' /\ NotMine(t)'
      BY <1>1, <1>4 DEF Place, Has, Holds, Links, NotMine, Created, Creating
    <3>2. Found(t)' /\ Fresh(t)' /\ Origin(t)'
      BY <1>1, <1>4 DEF Place, Found, Fresh, Origin, Created, Creating
    <3> QED BY <2>1, <3>1, <3>2 DEF Place
  <2>2. CASE u # t
    <3>1. Place(u) /\ thread'[u] = thread[u] /\ thread[u].pc # "link"
      BY <1>1, <1>4, <2>2 DEF IInv, Only, Place, Holds
    <3>2. Has(u)' /\ Holds(u)' /\ NotMine(u)'
      BY <1>1, <3>1 DEF Place, Has, Holds, NotMine
    <3>3. Links(u)'
      BY <3>1 DEF Links
    <3>4. Found(u)' /\ Fresh(u)' /\ Origin(u)'
      BY <1>1, <3>1 DEF Place, Found, Fresh, Origin
    <3> QED BY <3>2, <3>3, <3>4 DEF Place
  <2> QED BY <2>1, <2>2
<1>8. QueueExact'
  <2>1. \A j, k \in DOMAIN queue : queue[j] = queue[k] => j = k
    BY DEF IInv, QueueExact
  <2>2. ASSUME NEW j \in DOMAIN queue', NEW k \in DOMAIN queue', queue'[j] = queue'[k]
        PROVE  j = k
    <3>1. /\ j \in Nat /\ k \in Nat
          /\ j = 1 \/ (j - 1 \in DOMAIN queue /\ queue'[j] = queue[j - 1])
          /\ k = 1 \/ (k - 1 \in DOMAIN queue /\ queue'[k] = queue[k - 1])
      <4>1. ASSUME NEW q \in DOMAIN queue'
            PROVE  q \in Nat /\ (q = 1 \/ (q - 1 \in DOMAIN queue /\ queue'[q] = queue[q - 1]))
        <5> DEFINE n == Len(queue)
        <5>1. n \in Nat /\ q \in 1 .. n + 1 /\ DOMAIN queue = 1 .. n
          BY <1>5
        <5>2. q \in 2 .. n + 1 => queue'[q] = queue[q - 1]
          BY <1>5
        <5> HIDE DEF n
        <5>3. q \in Nat /\ (q = 1 \/ (q \in 2 .. n + 1 /\ q - 1 \in DOMAIN queue))
          BY <5>1
        <5> QED BY <5>2, <5>3
      <4> QED BY <4>1
    <3>2. CASE j = 1 /\ k # 1
      <4>1. queue'[j] = i0 /\ k - 1 \in DOMAIN queue /\ queue'[k] = queue[k - 1]
        BY <1>5, <3>1, <3>2
      <4> QED BY <1>2, <2>2, <4>1
    <3>3. CASE j # 1 /\ k = 1
      BY <1>2, <1>5, <2>2, <3>1, <3>3
    <3>4. CASE j # 1 /\ k # 1
      <4>1. j - 1 = k - 1
        BY <2>1, <2>2, <3>1, <3>4
      <4> QED BY <3>1, <4>1
    <3> QED BY <3>2, <3>3, <3>4
  <2>3. ASSUME NEW i \in DOMAIN heap PROVE \E k \in DOMAIN queue' : queue'[k] = i
    <3>1. CASE \E k \in DOMAIN queue : queue[k] = i
      <4>1. PICK k \in DOMAIN queue : queue[k] = i
        BY <3>1
      <4>2. k + 1 \in DOMAIN queue' /\ queue'[k + 1] = i
        <5>1. k \in 1 .. Len(queue) /\ k + 1 \in 2 .. Len(queue) + 1 /\ (k + 1) - 1 = k
          BY <1>5, <4>1
        <5>2. queue'[k + 1] = queue[(k + 1) - 1]
          BY <1>5, <5>1
        <5> QED BY <1>5, <4>1, <5>1, <5>2
      <4> QED BY <4>2
    <3>2. CASE \E u \in Threads : thread[u].pc = "link" /\ thread[u].found = i
      <4>1. i = i0
        BY <1>1, <3>2 DEF IInv, Place, Holds
      <4> QED BY <1>5, <4>1
    <3> QED BY <3>1, <3>2 DEF IInv, QueueExact
  <2> QED BY <1>1, <2>2, <2>3 DEF QueueExact
<1>9. NoSourceMine' /\ OnePerThread' /\ OneOrigin'
  BY <1>1 DEF IInv, NoSourceMine, OnePerThread, OneOrigin
<1>10. CountsFit'
  <2>1. Owing' = Owing
    BY <1>1, <1>4 DEF Owing, Owed, Only, Threads, Created
  <2> QED BY <1>1, <1>4, <2>1 DEF IInv, CountsFit, Only
<1> QED BY <1>6, <1>7, <1>8, <1>9, <1>10 DEF IInv

(* The new source gets the identifier: the thread has made no other that has it. *)
LEMMA IdentifyKeeps ==
  ASSUME IInv, NEW t \in Threads, Identify(t)
  PROVE  IInv'
<1> DEFINE p == thread[t]
           i0 == p.found
           to == udp /\ (p.host = Announced \/ t = "rtcp")
           s == [[[heap[i0] EXCEPT !.ssrc = p.ssrc] EXCEPT ![FromOf(t)] = p.host]
                   EXCEPT !.rtcp_to = to]
<1>1. /\ p.pc = "identify" /\ Place(t) /\ Words /\ p \in Local
      /\ UNCHANGED <<udp, local_ssrc, queue, syn, fed, members, senders>>
  BY DEF IInv, Identify, counts, Words
<1>2. /\ i0 \in DOMAIN heap /\ heap[i0] \in Source /\ Len(heap) \in Nat
      /\ heap[i0].by = t /\ heap[i0].ssrc = None /\ fed[i0] = {}
      /\ p.ssrc \in Ssrcs /\ p.host \in Hosts /\ p.ssrc # None /\ p.ssrc # local_ssrc
  BY <1>1, SourcesAssumption
     DEF Place, Has, Fresh, NotMine, Created, Creating, Nil, Words
<1>3. to \in BOOLEAN /\ FromOf(t) \in {"rtp_from", "rtcp_from"}
      /\ (t = "rtp" => FromOf(t) = "rtp_from")
  BY <1>1 DEF Words, FromOf
<1>4. heap' = [heap EXCEPT ![i0] = s]
  BY <1>2, <1>3 DEF Identify, Source
<1> HIDE DEF to
<1>5. /\ s \in Source /\ s.ssrc = p.ssrc /\ s.by = t
      /\ t = "rtp" => s.rtp_from = p.host
  BY <1>2, <1>3 DEF Source
<1> HIDE DEF s
<1>6. /\ heap' \in Seq(Source) /\ Len(heap') = Len(heap) /\ DOMAIN heap' = DOMAIN heap
      /\ heap'[i0] = s /\ \A i \in DOMAIN heap : i # i0 => heap'[i] = heap[i]
  BY <1>1, <1>2, <1>4, <1>5 DEF Words
<1>7. /\ Only(t) /\ thread'[t].pc = "poinit" /\ thread'[t].ssrc = p.ssrc
      /\ thread'[t].host = p.host /\ thread'[t].found = i0
  BY <1>1, GotoMoves DEF Identify, Pcs
<1>8. Words'
  BY <1>1, <1>6, <1>7 DEF Words, Only
<1>9. ASSUME NEW u \in Threads PROVE Place(u)'
  <2>1. CASE u = t
    <3>1. Has(t)' /\ Holds(t)' /\ Links(t)' /\ NotMine(t)'
      BY <1>1, <1>6, <1>7 DEF Place, Has, Holds, Links, NotMine, Created, Creating
    <3>2. Found(t)' /\ Fresh(t)' /\ Origin(t)'
      BY <1>5, <1>6, <1>7 DEF Found, Fresh, Origin, Created, Creating
    <3> QED BY <2>1, <3>1, <3>2 DEF Place
  <2>2. CASE u # t
    <3>1. Place(u) /\ thread'[u] = thread[u] /\ thread[u].pc \notin Creating \cup {"poinit"}
      BY <1>1, <1>7, <2>2 DEF IInv, Only, Place, Holds, Creating, Created
    <3>2. Has(u)' /\ Holds(u)' /\ NotMine(u)'
      BY <1>1, <1>6, <3>1 DEF Place, Has, Holds, NotMine
    <3>3. Links(u)'
      BY <3>1 DEF Links, Creating, Created
    <3>4. ASSUME \/ thread[u].pc \in {"known", "poinit", "store"}
                 \/ thread[u].pc = "return" /\ thread[u].result # "collision"
          PROVE  heap'[thread[u].found] = heap[thread[u].found]
      <4>1. heap[thread[u].found].ssrc \in Ssrcs
        BY <3>1, <3>4 DEF Place, Found, Has
      <4>2. thread[u].found \in DOMAIN heap
        BY <1>1, <3>1, <3>4 DEF Place, Has, Words, Nil
      <4> QED BY <1>2, <1>6, <4>1, <4>2, SourcesAssumption
    <3>5. Found(u)' /\ Origin(u)'
      BY <1>1, <3>1, <3>4 DEF Place, Found, Origin
    <3>6. Fresh(u)'
      BY <1>5, <1>6, <2>2, <3>1 DEF Place, Fresh, Creating
    <3> QED BY <3>2, <3>3, <3>5, <3>6 DEF Place
  <2> QED BY <2>1, <2>2
<1>10. QueueExact'
  <2>1. \A u \in Threads : thread[u].pc # "link"
    BY <1>1 DEF IInv, Place, Holds
  <2> QED BY <1>1, <1>6, <2>1 DEF IInv, QueueExact
<1>11. NoSourceMine'
  BY <1>1, <1>2, <1>5, <1>6 DEF IInv, NoSourceMine
<1>12. OnePerThread'
  <2>1. \A i \in DOMAIN heap : ~ (heap[i].by = t /\ heap[i].ssrc = p.ssrc)
    BY <1>1 DEF Place, Fresh, Creating, Created
  <2> QED BY <1>5, <1>6, <2>1 DEF IInv, OnePerThread
<1>13. OneOrigin'
  BY <1>1, <1>2, <1>6 DEF IInv, OneOrigin, Words
<1>14. CountsFit'
  <2>1. Owing' = Owing
    BY <1>1, <1>7 DEF Owing, Owed, Only, Threads, Created
  <2> QED BY <1>1, <1>6, <1>7, <2>1 DEF IInv, CountsFit, Only
<1> QED BY <1>8, <1>9, <1>10, <1>11, <1>12, <1>13, <1>14 DEF IInv

(* The mutex is given back with the source complete. *)
LEMMA PoinitKeeps ==
  ASSUME IInv, NEW t \in Threads, Poinit(t)
  PROVE  IInv'
<1> DEFINE i0 == thread[t].found
           s == [heap[i0] EXCEPT !.ready = TRUE]
           r == IF thread[t].local THEN "collision" ELSE "new"
<1>1. /\ thread[t].pc = "poinit" /\ Place(t) /\ Words /\ syn = t /\ syn' = None
      /\ UNCHANGED <<udp, local_ssrc, queue, fed, members, senders>>
      /\ heap' = [heap EXCEPT ![i0] = s]
  BY DEF IInv, Poinit, counts, Place, Holds
<1>2. i0 \in DOMAIN heap /\ heap[i0] \in Source /\ Len(heap) \in Nat
  BY <1>1 DEF Place, Has, Nil, Words
<1>3. /\ s \in Source /\ s.ssrc = heap[i0].ssrc /\ s.by = heap[i0].by
      /\ s.next = heap[i0].next /\ s.rtp_from = heap[i0].rtp_from
  BY <1>2 DEF Source
<1> HIDE DEF s
<1>4. /\ heap' \in Seq(Source) /\ Len(heap') = Len(heap) /\ DOMAIN heap' = DOMAIN heap
      /\ \A i \in DOMAIN heap :
           /\ heap'[i].ssrc = heap[i].ssrc /\ heap'[i].by = heap[i].by
           /\ heap'[i].next = heap[i].next /\ heap'[i].rtp_from = heap[i].rtp_from
  BY <1>1, <1>2, <1>3 DEF Words
<1>5. r \in {"collision", "new"} /\ Return(t, r)
  BY DEF Poinit
<1> HIDE DEF r
<1>6. /\ Only(t) /\ thread'[t].pc = "return" /\ thread'[t].result = r
      /\ thread'[t].ssrc = thread[t].ssrc /\ thread'[t].host = thread[t].host
      /\ thread'[t].found = i0
  BY <1>1, <1>5, ReturnMoves DEF Results
<1>7. Words'
  BY <1>1, <1>4, <1>6 DEF Words, Only
<1>8. ASSUME NEW u \in Threads PROVE Place(u)'
  <2>1. thread[u].pc \in {"known", "poinit", "store", "return"} \cup Created
          /\ thread[u].found # Nil => thread[u].found \in DOMAIN heap
    BY <1>1 DEF IInv, Place, Has, Words, Nil
  <2>2. CASE u = t
    <3>1. Has(t)' /\ Holds(t)' /\ Links(t)' /\ NotMine(t)'
      BY <1>1, <1>4, <1>5, <1>6, SourcesAssumption
         DEF Place, Has, Holds, Links, NotMine, Created, Creating
    <3>2. Found(t)' /\ Fresh(t)' /\ Origin(t)'
      BY <1>1, <1>2, <1>4, <1>6 DEF Place, Found, Fresh, Origin, Created, Creating
    <3> QED BY <2>2, <3>1, <3>2 DEF Place
  <2>3. CASE u # t
    <3>1. Place(u) /\ thread'[u] = thread[u] /\ thread[u].pc \notin Creating \cup {"poinit"}
      BY <1>1, <1>6, <2>3 DEF IInv, Only, Place, Holds, Creating, Created
    <3>2. Has(u)' /\ NotMine(u)'
      BY <1>1, <1>4, <3>1 DEF Place, Has, NotMine
    <3>3. Holds(u)'
      BY <1>1, <3>1, SourcesAssumption DEF Holds, Creating, Created
    <3>4. Links(u)'
      BY <3>1 DEF Links, Creating, Created
    <3>5. Found(u)' /\ Origin(u)'
      <4>1. \/ thread[u].pc = "known" \/ thread[u].pc = "store"
            \/ thread[u].pc = "return" /\ thread[u].result # "collision"
            => thread[u].found \in DOMAIN heap
        BY <2>1, <3>1 DEF Place, Has
      <4> QED BY <1>1, <1>4, <3>1, <4>1 DEF Place, Found, Origin, Creating, Created
    <3>6. Fresh(u)'
      BY <1>4, <3>1 DEF Place, Fresh, Creating
    <3> QED BY <3>2, <3>3, <3>4, <3>5, <3>6 DEF Place
  <2> QED BY <2>2, <2>3
<1>9. QueueExact'
  <2>1. \A u \in Threads : thread[u].pc # "link"
    BY <1>1 DEF IInv, Place, Holds
  <2> QED BY <1>1, <1>4, <2>1 DEF IInv, QueueExact
<1>10. NoSourceMine' /\ OnePerThread'
  BY <1>1, <1>4 DEF IInv, NoSourceMine, OnePerThread
<1>11. OneOrigin'
  BY <1>1, <1>4 DEF IInv, OneOrigin, Words
<1>12. CountsFit'
  <2>1. Owed(t) = 1 /\ Owed(t)' \in {0, 1}
    BY <1>1 DEF Owed, Created
  <2>2. \A u \in Threads : Owed(u) \in {0, 1} /\ (u # t => Owed(u)' = Owed(u))
    BY <1>6 DEF Owed, Only
  <2>3. Owing \in Nat /\ Owing' \in Nat /\ Owing' <= Owing
    BY <2>1, <2>2 DEF Owing, Threads
  <2>4. members \in Nat /\ senders \in Nat
    BY <1>1 DEF Words
  <2>5. members' + Owing' <= 1 + Len(heap') /\ senders' + Owing' <= Len(heap')
    BY <1>1, <1>2, <1>4, <2>3, <2>4 DEF IInv, CountsFit
  <2>6. ASSUME NEW u \in Threads, thread'[u].pc = "store"
        PROVE  thread'[u].m + Owing' <= 1 + Len(heap') /\ thread'[u].n + Owing' <= Len(heap')
    <3>1. thread'[u] = thread[u] /\ thread[u] \in Local
      BY <1>1, <1>6, <2>6 DEF Only, Words
    <3>2. thread[u].m \in Nat /\ thread[u].n \in Nat
      BY <3>1 DEF Local
    <3>3. thread[u].m + Owing <= 1 + Len(heap) /\ thread[u].n + Owing <= Len(heap)
      BY <2>6, <3>1 DEF IInv, CountsFit
    <3> QED BY <1>2, <1>4, <2>3, <3>1, <3>2, <3>3
  <2> QED BY <2>5, <2>6 DEF CountsFit
<1> QED BY <1>7, <1>8, <1>9, <1>10, <1>11, <1>12 DEF IInv

(* The first packet over a protocol sets the source's address for it, no other does. *)
LEMMA KnownKeeps ==
  ASSUME IInv, NEW t \in Threads, Known(t)
  PROVE  IInv'
<1> DEFINE p == thread[t]
           i0 == p.found
           from == heap[i0][FromOf(t)]
           set == IF from = None THEN p.host ELSE from
           to == heap[i0].rtcp_to \/ (udp /\ t = "rtcp")
           s == [[heap[i0] EXCEPT ![FromOf(t)] = set] EXCEPT !.rtcp_to = to]
           r == IF from = None THEN "first"
                ELSE IF udp /\ from # p.host THEN "collision" ELSE "known"
<1>1. /\ p.pc = "known" /\ Place(t) /\ Words /\ p \in Local
      /\ UNCHANGED <<udp, local_ssrc, queue, syn, fed, members, senders>>
  BY DEF IInv, Known, counts, Words
<1>2. /\ i0 \in DOMAIN heap /\ heap[i0] \in Source /\ Len(heap) \in Nat
      /\ p.host \in Hosts /\ p.ssrc \in Ssrcs /\ heap[i0].ssrc = p.ssrc
  BY <1>1 DEF Place, Has, Found, Nil, Words
<1>3. FromOf(t) \in {"rtp_from", "rtcp_from"} /\ (FromOf(t) = "rtp_from" <=> t = "rtp")
  BY DEF FromOf, Threads
<1>4. from \in {None} \cup Hosts /\ set \in Hosts /\ to \in BOOLEAN
      /\ (t = "rtp" => from = heap[i0].rtp_from)
  BY <1>1, <1>2, <1>3 DEF Source, Words
<1>5. heap' = [heap EXCEPT ![i0] = s]
  BY <1>2, <1>3 DEF Known, Source
<1>6. r \in {"first", "collision", "known"} /\ Return(t, r)
  BY DEF Known
<1>7. udp /\ t = "rtp" /\ r # "collision" => set = p.host
  BY <1>4
<1>8. t = "rtp" /\ heap[i0].rtp_from # None => set = heap[i0].rtp_from
  BY <1>4
<1> HIDE DEF to, set, from, r
<1>9. /\ s \in Source /\ s.ssrc = p.ssrc /\ s.by = heap[i0].by /\ s.next = heap[i0].next
      /\ s.rtp_from = IF t = "rtp" THEN set ELSE heap[i0].rtp_from
  BY <1>2, <1>3, <1>4 DEF Source
<1> HIDE DEF s
<1>10. /\ heap' \in Seq(Source) /\ Len(heap') = Len(heap) /\ DOMAIN heap' = DOMAIN heap
       /\ \A i \in DOMAIN heap :
            /\ heap'[i].ssrc = heap[i].ssrc /\ heap'[i].by = heap[i].by
            /\ heap'[i].next = heap[i].next
            /\ t # "rtp" \/ heap[i].rtp_from # None => heap'[i].rtp_from = heap[i].rtp_from
       /\ t = "rtp" => heap'[i0].rtp_from = set
  BY <1>1, <1>2, <1>5, <1>8, <1>9 DEF Words
<1>11. /\ Only(t) /\ thread'[t].pc = "return" /\ thread'[t].result = r
       /\ thread'[t].ssrc = p.ssrc /\ thread'[t].host = p.host /\ thread'[t].found = i0
  BY <1>1, <1>6, ReturnMoves DEF Results
<1>12. Words'
  BY <1>1, <1>10, <1>11 DEF Words, Only
<1>13. ASSUME NEW u \in Threads PROVE Place(u)'
  <2>1. CASE u = t
    <3>1. Has(t)' /\ Holds(t)' /\ Links(t)' /\ NotMine(t)'
      BY <1>1, <1>6, <1>10, <1>11 DEF Place, Has, Holds, Links, NotMine, Created, Creating
    <3>2. Found(t)' /\ Fresh(t)'
      BY <1>2, <1>10, <1>11 DEF Found, Fresh, Created, Creating
    <3>3. Origin(t)'
      BY <1>1, <1>7, <1>10, <1>11 DEF Origin
    <3> QED BY <2>1, <3>1, <3>2, <3>3 DEF Place
  <2>2. CASE u # t
    <3>1. Place(u) /\ thread'[u] = thread[u]
      BY <1>11, <2>2 DEF IInv, Only
    <3>2. thread[u].found # Nil => thread[u].found \in DOMAIN heap
      BY <1>1, <3>1 DEF Place, Has, Nil, Words
    <3>3. Has(u)' /\ Holds(u)' /\ NotMine(u)'
      BY <1>1, <1>10, <3>1 DEF Place, Has, Holds, NotMine
    <3>4. Links(u)'
      BY <1>1, <1>10, <3>1, <3>2 DEF Place, Has, Links, Created
    <3>5. Found(u)'
      BY <1>10, <3>1, <3>2 DEF Place, Has, Found
    <3>6. Origin(u)'
      BY <1>1, <1>10, <2>2, <3>1, <3>2 DEF Place, Has, Origin
    <3>7. Fresh(u)'
      BY <1>1, <1>10, <3>1, <3>2 DEF Place, Has, Fresh
    <3> QED BY <3>1, <3>3, <3>4, <3>5, <3>6, <3>7 DEF Place
  <2> QED BY <2>1, <2>2
<1>14. QueueExact'
  BY <1>1, <1>10, <1>11 DEF IInv, QueueExact, Only
<1>15. NoSourceMine' /\ OnePerThread'
  BY <1>1, <1>10 DEF IInv, NoSourceMine, OnePerThread
<1>16. OneOrigin'
  <2> SUFFICES ASSUME udp, NEW i \in DOMAIN fed, NEW h \in fed[i]
               PROVE  h = heap'[i].rtp_from
    BY <1>1 DEF OneOrigin
  <2>1. h \in Hosts /\ h = heap[i].rtp_from /\ i \in DOMAIN heap
    BY <1>1 DEF IInv, OneOrigin, Words
  <2> QED BY <1>10, <2>1, SourcesAssumption
<1>17. CountsFit'
  <2>1. Owed(t) = 0 /\ Owed(t)' = 0
    BY <1>1, <1>6, <1>11 DEF Owed, Created
  <2>2. Owing' = Owing
    BY <1>11, <2>1 DEF Owing, Owed, Only, Threads, Created
  <2> QED BY <1>1, <1>10, <1>11, <2>2 DEF IInv, CountsFit, Only
<1> QED BY <1>12, <1>13, <1>14, <1>15, <1>16, <1>17 DEF IInv

-----------------------------------------------------------------------------
(* At the start there are no sources and no packets. *)
LEMMA InitIInv == Init => IInv
<1> SUFFICES ASSUME Init PROVE IInv
  OBVIOUS
<1>1. Idle \in Local
  BY SourcesAssumption DEF Idle, Local, Pcs, Results, Nil
<1>2. Len(heap) = 0 /\ DOMAIN heap = {} /\ DOMAIN queue = {} /\ DOMAIN fed = {}
  BY DEF Init
<1>3. Words
  <2>1. heap \in Seq(Source) /\ queue \in Seq(1 .. Len(heap)) /\ fed \in Seq(SUBSET Hosts)
    BY DEF Init
  <2> QED BY <1>1, <1>2, <2>1 DEF Init, Words
<1>4. \A t \in Threads : thread[t].pc = "idle" /\ thread[t].found = 0 /\ syn # t
  BY SourcesAssumption DEF Init, Idle, Nil
<1>5. \A t \in Threads : Place(t)
  BY <1>2, <1>4 DEF Place, Has, Holds, Links, NotMine, Found, Fresh, Origin, Created, Creating, Nil
<1>6. Owing = 0
  BY <1>4 DEF Owing, Owed, Threads, Created
<1>7. QueueExact /\ NoSourceMine /\ OnePerThread /\ OneOrigin
  BY <1>2 DEF QueueExact, NoSourceMine, OnePerThread, OneOrigin
<1>8. CountsFit
  BY <1>2, <1>4, <1>6 DEF CountsFit, Init
<1> QED BY <1>3, <1>5, <1>7, <1>8 DEF IInv

(* Every step of either thread keeps the inductive invariant. *)
LEMMA NextIInv == IInv /\ [Next]_vars => IInv'
<1> SUFFICES ASSUME IInv, [Next]_vars PROVE IInv'
  OBVIOUS
<1>1. ASSUME NEW t \in Threads, NEW ssrc \in Ssrcs, NEW host \in Hosts, Packet(t, ssrc, host)
      PROVE  IInv'
  BY <1>1, PacketKeeps
<1>2. ASSUME NEW t \in Threads, Step(t) PROVE IInv'
  BY <1>2, GateKeeps, WalkKeeps, LockSourceKeeps, AllocKeeps, LinkKeeps, IdentifyKeeps,
     PoinitKeeps, KnownKeeps, LocalCollisionKeeps, CountReadKeeps, CountStoreKeeps,
     FinishKeeps DEF Step
<1>3. CASE UNCHANGED vars
  <2>1. UNCHANGED <<udp, local_ssrc, heap, queue, syn, members, senders, thread, fed>>
    BY <1>3 DEF vars, shared, counts
  <2>2. Words' /\ \A t \in Threads : Place(t)'
    BY <2>1 DEF IInv, Words, Place, Has, Holds, Links, NotMine, Found, Fresh, Origin
  <2>3. QueueExact' /\ NoSourceMine' /\ OnePerThread' /\ OneOrigin'
    BY <2>1 DEF IInv, QueueExact, NoSourceMine, OnePerThread, OneOrigin
  <2>4. CountsFit'
    BY <2>1 DEF IInv, CountsFit, Owing, Owed
  <2> QED BY <2>2, <2>3, <2>4 DEF IInv
<1> QED BY <1>1, <1>2, <1>3 DEF Next, Exhausted

(* The inductive invariant holds in every state. *)
THEOREM Invariance == Spec => []IInv
<1>1. Init => IInv
  BY InitIInv
<1>2. IInv /\ [Next]_vars => IInv'
  BY NextIInv
<1> QED BY <1>1, <1>2, PTL DEF Spec

(* What no interleaving of the two threads, which search without the mutex and
   create with it, can undo: the mutex is held by who creates and given back
   on each path, every linked source is on the queue exactly once, and a thread
   makes one source at most for an identifier. *)
THEOREM SourcesSafe == Spec => []SourcesOK
<1>1. IInv => SourcesOK
  <2> SUFFICES ASSUME IInv PROVE SourcesOK
    OBVIOUS
  <2>1. TypeOK
    <3>1. \A i \in DOMAIN heap : heap[i] \in Source
      BY DEF IInv, Words
    <3>2. \A i \in DOMAIN heap : /\ heap[i].ssrc \in {None} \cup Ssrcs
                                 /\ heap[i].rtp_from \in {None} \cup Hosts
                                 /\ heap[i].rtcp_from \in {None} \cup Hosts
      BY <3>1 DEF Source
    <3> QED BY <3>2 DEF IInv, Words, TypeOK
  <2>2. LockHeld
    BY DEF IInv, Place, Holds, LockHeld
  <2>3. NoSourceLost
    <3> SUFFICES ASSUME NEW i \in DOMAIN heap,
                        ~ \E t \in Threads : thread[t].found = i /\ thread[t].pc = "link"
                 PROVE  Cardinality({k \in DOMAIN queue : queue[k] = i}) = 1
      BY DEF NoSourceLost
    <3>1. PICK k \in DOMAIN queue : queue[k] = i
      BY DEF IInv, QueueExact
    <3>2. {j \in DOMAIN queue : queue[j] = i} = {k}
      BY <3>1 DEF IInv, QueueExact
    <3> QED BY <3>2, FS_Singleton
  <2> QED BY <2>1, <2>2, <2>3 DEF IInv, SourcesOK
<1> QED BY <1>1, Invariance, PTL

(* Over UDP the packets of two hosts that use one identifier are never mixed in
   a playout buffer, even when both threads create a source for it at once. *)
THEOREM BuffersUnmixed == Spec => []OneHostPerBuffer
<1>1. IInv => OneHostPerBuffer
  <2> SUFFICES ASSUME IInv, udp, NEW i \in DOMAIN fed PROVE Cardinality(fed[i]) <= 1
    BY DEF OneHostPerBuffer
  <2>1. fed[i] \subseteq {heap[i].rtp_from}
    BY DEF IInv, OneOrigin
  <2>2. IsFiniteSet({heap[i].rtp_from}) /\ Cardinality({heap[i].rtp_from}) = 1
    BY FS_Singleton
  <2> QED BY <2>1, <2>2, FS_Subset
<1> QED BY <1>1, Invariance, PTL

(* Although members++ and senders++ of the two threads overwrite each other, the
   counts never exceed the sources there are. *)
THEOREM CountsBounded == Spec => []NotOvercounted
<1>1. IInv => NotOvercounted
  <2> SUFFICES ASSUME IInv PROVE NotOvercounted
    OBVIOUS
  <2>1. Owing \in Nat /\ members \in Nat /\ senders \in Nat /\ Len(heap) \in Nat
    BY DEF IInv, Words, Owing, Owed
  <2> QED BY <2>1 DEF IInv, CountsFit, NotOvercounted
<1> QED BY <1>1, Invariance, PTL
=============================================================================
