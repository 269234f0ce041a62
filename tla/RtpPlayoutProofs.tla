-------------------------- MODULE RtpPlayoutProofs --------------------------
(* Proofs about the threads that share the buffers of an RTP session: for any
   pool, any number of seeks and any deliveries, no slot is lost or shared; and
   where the network keeps the order, what the reader removes is what it has
   read, and the application gets whole frames in their order. *)
EXTENDS RtpPlayout, WellFoundedInduction, SequenceTheorems, TLAPS

-----------------------------------------------------------------------------
(* Numbers.                                                                *)

(* A non-empty set of natural numbers has a least one: the counterexample a search
   through a queue, or the turns of a loop, would meet first. *)
LEMMA LeastNat ==
  ASSUME NEW T \in SUBSET Nat, T # {}
  PROVE  \E m \in T : \A k \in T : m <= k
<1> DEFINE R == OpToRel(<, Nat)
<1>1. IsWellFoundedOn(R, Nat)
  BY NatLessThanWellFounded
<1>2. \A x, y \in Nat : x < y => <<x, y>> \in R
  BY DEF OpToRel
<1> HIDE DEF R
<1>3. PICK m \in T : \A k \in T : ~ (<<k, m>> \in R)
  BY <1>1, WFMin
<1>4. \A x, y \in Nat : ~ (x < y) => y <= x
  OBVIOUS
<1> QED BY <1>2, <1>3, <1>4

-----------------------------------------------------------------------------
RtpPcs == {"select", "bpget", "recvfrom", "check", "update_seq", "poadd", "pktlen"}
Holding == {"recvfrom", "check", "update_seq", "poadd"}

Reading == {"pointer", "copy", "rm_pkt", "bprmv"}
ReaderPcs == {"fill_buffers", "done", "peek", "get_pkt", "clear", "discard", "flush"}
               \cup Reading

Numbers == 0 .. MaxNumber
SlotOrNil == Slots \cup {Nil}

(* What the variables that TypeOK leaves out hold. *)
Values ==
  /\ rtp \in [pc : RtpPcs, slot : SlotOrNil, reset : BOOLEAN]
  /\ reader \in [pc : ReaderPcs, slot : SlotOrNil, base : Nat, len : Nat, ts : Nat,
                 more : BOOLEAN]
  /\ moved \in Nat /\ seen \in Nat /\ seeks \in Nat /\ arrived \in Nat
  /\ net \in Seq(Numbers) /\ sock \in Seq(Numbers)
  /\ played \in Seq(Nat)

(* The reader's slot stays on the playout buffer until bprmv has taken it off: only
   the reader takes slots off. *)
ReaderHas == reader.pc \in Reading => reader.slot \in queued

(* The inductive invariant of the slots. *)
SlotsInv == TypeOK /\ Values /\ SlotsConserved /\ ReaderHas

-----------------------------------------------------------------------------
(* A chunk fits in the vector as long as the pool is smaller than that. *)
LEMMA Multiples ==
  ASSUME NEW s \in Nat \ {0}, NEW c \in Nat \ {0}, NEW k \in 1 .. c
  PROVE  /\ s * k \in Nat /\ s * c \in Nat /\ s * k <= s * c
         /\ s * k < s * c => k + 1 \in 1 .. c /\ s * k + s = s * (k + 1)
<1>1. k \in Nat /\ k <= c /\ c - k \in Nat /\ c \in Nat
  OBVIOUS
<1>2. s * c = s * k + s * (c - k) /\ s * (k + 1) = s * k + s
  BY <1>1
<1>3. \A a, b \in Nat : a * b \in Nat
  OBVIOUS
<1>4. s * (c - k) \in Nat /\ s * k \in Nat
  BY <1>1, <1>3
<1>5. s * k < s * c => k # c
  OBVIOUS
<1> QED BY <1>1, <1>2, <1>4, <1>5

(* The slots that exist have a place in the vector. *)
LEMMA Capacity ==
  ASSUME TypeOK
  PROVE  /\ capacity \in Nat /\ MaxSize \in Nat /\ SlotNum \in Nat \ {0}
         /\ capacity <= MaxSize /\ 0 .. capacity - 1 \subseteq Slots /\ Slots \subseteq Nat
         /\ queued \subseteq Slots /\ free \subseteq Slots
         /\ capacity < MaxSize => /\ capacity + SlotNum \in {SlotNum * k : k \in 1 .. Chunks}
                                  /\ capacity + SlotNum <= MaxSize
<1>1. SlotNum \in Nat \ {0} /\ Chunks \in Nat \ {0}
  BY PlayoutAssumption
<1>2. PICK k \in 1 .. Chunks : capacity = SlotNum * k
  BY DEF TypeOK
<1>3. /\ capacity \in Nat /\ MaxSize \in Nat /\ capacity <= MaxSize
      /\ capacity < MaxSize => k + 1 \in 1 .. Chunks /\ capacity + SlotNum = SlotNum * (k + 1)
  BY <1>1, <1>2, Multiples DEF MaxSize
<1>4. capacity < MaxSize => capacity + SlotNum \in {SlotNum * j : j \in 1 .. Chunks}
  BY <1>3
<1>5. capacity < MaxSize => capacity + SlotNum <= MaxSize
  <2> SUFFICES ASSUME capacity < MaxSize PROVE SlotNum * (k + 1) <= MaxSize
    BY <1>3
  <2> QED BY <1>1, <1>3, Multiples DEF MaxSize
<1>6. 0 .. capacity - 1 \subseteq Slots /\ Slots \subseteq Nat
  BY <1>3 DEF Slots
<1> QED BY <1>1, <1>3, <1>4, <1>5, <1>6 DEF TypeOK

(* A number's timestamp is a number. *)
LEMMA TimestampIsNat == ASSUME NEW n \in Nat PROVE Timestamp(n) \in Nat
BY DEF Timestamp

(* The slot that potail names is the one of the least packet on the buffer. *)
LEMMA Oldest ==
  ASSUME queued \subseteq Slots, pkt \in [Slots -> Nat], queued # {}
  PROVE  potail \in queued /\ \A j \in queued : pkt[potail] <= pkt[j]
<1> DEFINE T == {pkt[i] : i \in queued}
<1>1. T \in SUBSET Nat /\ T # {}
  OBVIOUS
<1>2. PICK m \in T : \A k \in T : m <= k
  BY <1>1, LeastNat
<1>3. PICK i \in queued : \A j \in queued : pkt[i] <= pkt[j]
  BY <1>2
<1> QED BY <1>3 DEF potail

(* bpget gives the RTP thread a slot that nothing else has. *)
LEMMA BpGetKeeps ==
  ASSUME SlotsInv, NEW i \in Slots, RtpBpGet(i)
  PROVE  SlotsInv'
<1> USE DEF SlotsInv
<1>0. /\ rtp.pc = "bpget" /\ rtp' = [rtp EXCEPT !.pc = "recvfrom", !.slot = i]
      /\ UNCHANGED <<pkt, pktlen, queued, source, locked, network, rtpUnchanged>>
      /\ moved' \in Nat
  BY DEF RtpBpGet, Values
<1>1. /\ rtp' \in [pc : RtpPcs, slot : SlotOrNil, reset : BOOLEAN]
      /\ rtp'.pc = "recvfrom" /\ rtp'.slot = i
  BY <1>0 DEF Values, RtpPcs, SlotOrNil
<1>2. Values'
  BY <1>0, <1>1 DEF Values, source, network, rtpUnchanged, history
<1>3. ReaderHas'
  BY <1>0 DEF ReaderHas, rtpUnchanged
<1>4. HeldByRtp = {} /\ HeldByRtp' = {i}
  BY <1>0, <1>1 DEF HeldByRtp
<1>5. /\ free \cup queued = 0 .. capacity - 1 /\ free \cap queued = {}
  BY <1>4 DEF SlotsConserved
<1>6. /\ capacity' \in {SlotNum * k : k \in 1 .. Chunks}
      /\ free' \cup queued \cup {i} = 0 .. capacity' - 1
      /\ free' \cap queued = {} /\ i \notin free' \cup queued
      /\ queued \subseteq 0 .. capacity' - 1
  <2>1. CASE Pool!Get(i)
    BY <1>5, <2>1 DEF Pool!Get, TypeOK
  <2>2. CASE Pool!GrowAndGet(i)
    <3>1. /\ free = {} /\ capacity < MaxSize /\ capacity' = capacity + SlotNum
          /\ i \in capacity .. capacity' - 1 /\ free' = (capacity .. capacity' - 1) \ {i}
      BY <2>2 DEF Pool!GrowAndGet, MaxSize
    <3>2. queued = 0 .. capacity - 1
      BY <1>5, <3>1
    <3>3. capacity' \in {SlotNum * k : k \in 1 .. Chunks}
      BY <3>1, Capacity
    <3>4. capacity \in Nat /\ SlotNum \in Nat
      BY Capacity
    <3> QED BY <3>1, <3>2, <3>3, <3>4
  <2> QED BY <2>1, <2>2 DEF RtpBpGet
<1>7. TypeOK'
  BY <1>0, <1>1, <1>6 DEF TypeOK, source, rtpUnchanged, SlotOrNil, Values
<1>8. SlotsConserved'
  BY <1>0, <1>4, <1>6 DEF SlotsConserved
<1> QED BY <1>2, <1>3, <1>7, <1>8

(* A step that leaves each slot in its place, whatever else the threads do. *)
LEMMA SlotsStay ==
  ASSUME SlotsInv, Values', UNCHANGED <<capacity, free, queued>>,
         pkt' \in [Slots -> Nat], pktlen' \in [Slots -> Nat],
         {locked', run', done_seek', active'} \subseteq BOOLEAN,
         HeldByRtp' = HeldByRtp,
         reader'.pc \in Reading => reader'.slot \in queued
  PROVE  SlotsInv'
<1>1. rtp'.slot \in Slots \cup {Nil} /\ reader'.slot \in Slots \cup {Nil}
  BY DEF Values, SlotOrNil
<1>2. TypeOK'
  BY <1>1 DEF SlotsInv, TypeOK
<1>3. SlotsConserved'
  BY DEF SlotsInv, SlotsConserved
<1> QED BY <1>2, <1>3 DEF SlotsInv, ReaderHas

(* select returns: the RTP thread has no slot yet. *)
LEMMA SelectKeeps == ASSUME SlotsInv, RtpSelect PROVE SlotsInv'
<1>0. /\ rtp.pc = "select" /\ rtp' = [rtp EXCEPT !.pc = "bpget"]
      /\ locked' = (locked /\ ~ Prebuffered)
      /\ UNCHANGED <<pool, buffer, source, network, rtpUnchanged>>
  BY DEF RtpSelect
<1>1. rtp' \in [pc : RtpPcs, slot : SlotOrNil, reset : BOOLEAN] /\ rtp'.pc = "bpget"
  BY <1>0 DEF SlotsInv, Values, RtpPcs
<1>2. Values'
  BY <1>0, <1>1 DEF SlotsInv, Values, buffer, source, network, rtpUnchanged, history
<1>3. HeldByRtp' = HeldByRtp
  BY <1>0, <1>1 DEF HeldByRtp
<1>4. /\ UNCHANGED <<capacity, free, queued, pkt, pktlen, run, done_seek, active, reader>>
      /\ locked' \in BOOLEAN
  BY <1>0 DEF SlotsInv, TypeOK, pool, buffer, source, rtpUnchanged
<1> QED BY <1>2, <1>3, <1>4, SlotsStay DEF SlotsInv, TypeOK, ReaderHas

(* recvfrom writes the slot the thread was given. *)
LEMMA RecvfromKeeps == ASSUME SlotsInv, RtpRecvfrom PROVE SlotsInv'
<1>0. /\ rtp.pc = "recvfrom" /\ rtp' = [rtp EXCEPT !.pc = "check"]
      /\ sock # <<>> /\ sock' = Tail(sock) /\ pkt' = [pkt EXCEPT ![rtp.slot] = Head(sock)]
      /\ UNCHANGED <<pool, pktlen, queued, moved, source, locked, net, rtpUnchanged>>
  BY DEF RtpRecvfrom
<1>1. /\ rtp' \in [pc : RtpPcs, slot : SlotOrNil, reset : BOOLEAN] /\ rtp'.pc = "check"
      /\ rtp'.slot = rtp.slot
  BY <1>0 DEF SlotsInv, Values, RtpPcs
<1>2. sock' \in Seq(Numbers) /\ Head(sock) \in Nat
  <2>1. sock \in Seq(Numbers) /\ sock # <<>>
    BY <1>0 DEF SlotsInv, Values
  <2>2. Tail(sock) \in Seq(Numbers) /\ Head(sock) \in Numbers
    BY <2>1, HeadTailProperties
  <2> QED BY <1>0, <2>2, PlayoutAssumption DEF Numbers
<1>3. Values'
  BY <1>0, <1>1, <1>2 DEF SlotsInv, Values, source, rtpUnchanged, history
<1>4. HeldByRtp' = HeldByRtp
  BY <1>0, <1>1 DEF HeldByRtp
<1>5. pkt' \in [Slots -> Nat]
  BY <1>0, <1>2 DEF SlotsInv, TypeOK
<1>6. UNCHANGED <<capacity, free, queued, pktlen, locked, run, done_seek, active, reader>>
  BY <1>0 DEF pool, source, rtpUnchanged
<1> QED BY <1>3, <1>4, <1>5, <1>6, SlotsStay DEF SlotsInv, TypeOK, ReaderHas

(* A slot that is not used, for a bad header or a duplicate, goes back to the pool. *)
LEMMA GivesBack ==
  ASSUME SlotsInv, rtp.pc \in Holding, BpFree(rtp.slot),
         rtp'.pc = "select", Values',
         UNCHANGED <<queued, pktlen, locked, run, done_seek, active, reader>>
  PROVE  SlotsInv'
<1>1. rtp'.slot \in Slots \cup {Nil} /\ HeldByRtp = {rtp.slot} /\ HeldByRtp' = {}
  BY DEF Values, SlotOrNil, HeldByRtp, Holding
<1>2. capacity' = capacity /\ free' = free \cup {rtp.slot} /\ pkt' = [pkt EXCEPT ![rtp.slot] = 0]
  BY DEF BpFree, Pool!Put
<1>3. SlotsConserved'
  BY <1>1, <1>2 DEF SlotsInv, SlotsConserved
<1>4. free' \subseteq 0 .. capacity' - 1
  BY <1>1, <1>2, <1>3 DEF SlotsConserved
<1>5. pkt' \in [Slots -> Nat]
  BY <1>2 DEF SlotsInv, TypeOK
<1>6. TypeOK'
  BY <1>1, <1>2, <1>4, <1>5 DEF SlotsInv, TypeOK
<1> QED BY <1>3, <1>6 DEF SlotsInv, ReaderHas

(* rtp_hdr_val_chk rejects the packet. *)
LEMMA BadHeaderKeeps == ASSUME SlotsInv, RtpBadHeader PROVE SlotsInv'
<1>0. /\ rtp.pc = "check" /\ rtp' = [rtp EXCEPT !.pc = "select", !.slot = Nil]
      /\ BpFree(rtp.slot)
      /\ UNCHANGED <<pktlen, queued, moved, source, locked, network, rtpUnchanged>>
  BY DEF RtpBadHeader
<1>1. rtp' \in [pc : RtpPcs, slot : SlotOrNil, reset : BOOLEAN] /\ rtp'.pc = "select"
  BY <1>0 DEF SlotsInv, Values, RtpPcs, SlotOrNil
<1>2. Values'
  BY <1>0, <1>1 DEF SlotsInv, Values, source, network, rtpUnchanged, history
<1> QED BY <1>0, <1>1, <1>2, GivesBack DEF Holding, source, rtpUnchanged

(* The checks of a packet: the thread keeps its slot. *)
LEMMA CheckSeekKeeps == ASSUME SlotsInv, RtpCheckSeek PROVE SlotsInv'
<1>0. /\ rtp.pc = "check"
      /\ rtp' = [rtp EXCEPT !.pc = "update_seq", !.reset = seen # 0 /\ done_seek]
      /\ UNCHANGED <<pool, buffer, source, locked, network, rtpUnchanged>>
  BY DEF RtpCheckSeek
<1>1. /\ rtp' \in [pc : RtpPcs, slot : SlotOrNil, reset : BOOLEAN]
      /\ rtp'.pc = "update_seq" /\ rtp'.slot = rtp.slot
  <2> DEFINE b == seen # 0 /\ done_seek
  <2>1. b \in BOOLEAN
    BY DEF SlotsInv, TypeOK
  <2> HIDE DEF b
  <2> QED BY <1>0, <2>1 DEF SlotsInv, Values, RtpPcs
<1>2. Values'
  BY <1>0, <1>1 DEF SlotsInv, Values, buffer, source, network, rtpUnchanged, history
<1>3. HeldByRtp' = HeldByRtp
  BY <1>0, <1>1 DEF HeldByRtp
<1>4. UNCHANGED <<capacity, free, queued, pkt, pktlen, locked, run, done_seek, active, reader>>
  BY <1>0 DEF pool, buffer, source, rtpUnchanged
<1> QED BY <1>2, <1>3, <1>4, SlotsStay DEF SlotsInv, TypeOK, ReaderHas

(* rtp_update_seq looks at the packet: the thread keeps its slot. *)
LEMMA UpdateSeqKeeps == ASSUME SlotsInv, RtpUpdateSeq PROVE SlotsInv'
<1>0. /\ rtp.pc = "update_seq" /\ rtp' = [rtp EXCEPT !.pc = "poadd"]
      /\ active' = (active \/ (seen # 0 /\ pkt[rtp.slot] = seen + 1))
      /\ done_seek' = (done_seek /\ seen = 0) /\ seen' = pkt[rtp.slot]
      /\ UNCHANGED <<pool, buffer, locked, network, rtpUnchanged>>
  BY DEF RtpUpdateSeq
<1>1. /\ rtp' \in [pc : RtpPcs, slot : SlotOrNil, reset : BOOLEAN]
      /\ rtp'.pc = "poadd" /\ rtp'.slot = rtp.slot
  BY <1>0 DEF SlotsInv, Values, RtpPcs
<1>2. HeldByRtp = {rtp.slot} /\ HeldByRtp' = {rtp.slot}
  BY <1>0, <1>1 DEF HeldByRtp
<1>3. rtp.slot \in 0 .. capacity - 1
  BY <1>2 DEF SlotsInv, SlotsConserved
<1>4. seen' \in Nat
  BY <1>0, <1>3, Capacity DEF SlotsInv, TypeOK
<1>5. Values'
  BY <1>0, <1>1, <1>4 DEF SlotsInv, Values, buffer, network, rtpUnchanged, history
<1>6. UNCHANGED <<capacity, free, queued, pkt, pktlen, locked, run, reader>>
  BY <1>0 DEF pool, buffer, rtpUnchanged
<1>7. active' \in BOOLEAN /\ done_seek' \in BOOLEAN
  BY <1>0 DEF SlotsInv, TypeOK
<1> QED BY <1>2, <1>5, <1>6, <1>7, SlotsStay DEF SlotsInv, TypeOK, ReaderHas

(* poadd takes the slot over, or refuses a duplicate. *)
LEMMA PoaddKeeps == ASSUME SlotsInv, RtpPoadd PROVE SlotsInv'
<1>0. /\ rtp.pc = "poadd"
      /\ UNCHANGED <<pktlen, moved, source, locked, network, rtpUnchanged>>
  BY DEF RtpPoadd
<1>1. CASE /\ BpFree(rtp.slot) /\ UNCHANGED queued
           /\ rtp' = [rtp EXCEPT !.pc = "select", !.slot = Nil, !.reset = FALSE]
  <2>1. rtp' \in [pc : RtpPcs, slot : SlotOrNil, reset : BOOLEAN] /\ rtp'.pc = "select"
    BY <1>1 DEF SlotsInv, Values, RtpPcs, SlotOrNil
  <2>2. Values'
    BY <1>0, <2>1 DEF SlotsInv, Values, source, network, rtpUnchanged, history
  <2> QED BY <1>0, <1>1, <2>1, <2>2, GivesBack DEF Holding, source, rtpUnchanged
<1>2. CASE /\ queued' = queued \cup {rtp.slot} /\ rtp' = [rtp EXCEPT !.pc = "pktlen"]
           /\ UNCHANGED <<pool, pkt>>
  <2>1. /\ rtp' \in [pc : RtpPcs, slot : SlotOrNil, reset : BOOLEAN] /\ rtp'.pc = "pktlen"
        /\ rtp'.slot = rtp.slot
    BY <1>2 DEF SlotsInv, Values, RtpPcs
  <2>2. Values'
    BY <1>0, <2>1 DEF SlotsInv, Values, source, network, rtpUnchanged, history
  <2>3. HeldByRtp = {rtp.slot} /\ HeldByRtp' = {}
    BY <1>0, <2>1 DEF HeldByRtp
  <2>4. UNCHANGED <<capacity, free, pktlen, locked, run, done_seek, active, reader>>
    BY <1>0, <1>2 DEF pool, source, rtpUnchanged
  <2>5. SlotsConserved'
    BY <1>2, <2>3, <2>4 DEF SlotsInv, SlotsConserved
  <2>6. queued' \subseteq 0 .. capacity' - 1
    BY <2>5 DEF SlotsConserved
  <2>7. TypeOK'
    BY <1>2, <2>1, <2>4, <2>6 DEF SlotsInv, TypeOK
  <2> QED BY <1>2, <2>2, <2>4, <2>5, <2>7 DEF SlotsInv, ReaderHas
<1> QED BY <1>1, <1>2 DEF RtpPoadd

(* The length is stored in a word of its own. *)
LEMMA PktlenKeeps == ASSUME SlotsInv, RtpPktlen PROVE SlotsInv'
<1>0. /\ rtp.pc = "pktlen"
      /\ rtp' = [rtp EXCEPT !.pc = "select", !.slot = Nil, !.reset = FALSE]
      /\ pktlen' = [pktlen EXCEPT ![rtp.slot] = pkt[rtp.slot]]
      /\ UNCHANGED <<pool, pkt, queued, moved, source, locked, network, rtpUnchanged>>
  BY DEF RtpPktlen
<1>1. rtp' \in [pc : RtpPcs, slot : SlotOrNil, reset : BOOLEAN] /\ rtp'.pc = "select"
  BY <1>0 DEF SlotsInv, Values, RtpPcs, SlotOrNil
<1>2. Values'
  BY <1>0, <1>1 DEF SlotsInv, Values, source, network, rtpUnchanged, history
<1>3. HeldByRtp' = HeldByRtp
  BY <1>0, <1>1 DEF HeldByRtp
<1>4. pktlen' \in [Slots -> Nat]
  <2>1. \A i \in Slots : pkt[i] \in Nat
    BY DEF SlotsInv, TypeOK
  <2> QED BY <1>0, <2>1 DEF SlotsInv, TypeOK
<1>5. UNCHANGED <<capacity, free, queued, pkt, locked, run, done_seek, active, reader>>
  BY <1>0 DEF pool, source, rtpUnchanged
<1> QED BY <1>2, <1>3, <1>4, <1>5, SlotsStay DEF SlotsInv, TypeOK, ReaderHas

-----------------------------------------------------------------------------
(* A step of the reader that does not touch the slots. *)
LEMMA ReaderMoves ==
  ASSUME SlotsInv,
         reader' \in [pc : ReaderPcs, slot : SlotOrNil, base : Nat, len : Nat, ts : Nat,
                      more : BOOLEAN],
         reader'.pc \in Reading => reader'.slot \in queued,
         UNCHANGED <<pool, buffer, seen, active, locked, run, rtp, net>>,
         done_seek' \in BOOLEAN, seeks' \in Nat, arrived' \in Nat,
         sock' \in Seq(Numbers), played' \in Seq(Nat)
  PROVE  SlotsInv'
<1>1. Values'
  BY DEF SlotsInv, Values, buffer
<1>2. HeldByRtp' = HeldByRtp
  BY DEF HeldByRtp
<1>3. UNCHANGED <<capacity, free, queued, pkt, pktlen, locked, run, active>>
  BY DEF pool, buffer
<1> QED BY <1>1, <1>2, <1>3, SlotsStay DEF SlotsInv, TypeOK

(* The steps in which the reader only looks. *)
LEMMA LooksKeep ==
  ASSUME SlotsInv,
         ReaderFillBuffers \/ ReaderPeek \/ ReaderGetPkt \/ ReaderPointer \/ ReaderRmPkt
           \/ SeekSelect
  PROVE  SlotsInv'
<1>0. UNCHANGED <<pool, buffer, source, sock, played, fence, seeks, readerUnchanged>>
  BY DEF ReaderFillBuffers, ReaderPeek, ReaderGetPkt, ReaderPointer, ReaderRmPkt, SeekSelect
<1> DEFINE Rec == [pc : ReaderPcs, slot : SlotOrNil, base : Nat, len : Nat, ts : Nat,
                   more : BOOLEAN]
<1>1. SUFFICES reader' \in Rec /\ (reader'.pc \in Reading => reader'.slot \in queued)
  <2>1. UNCHANGED <<pool, buffer, seen, active, locked, run, rtp, net>>
    BY <1>0 DEF source, readerUnchanged
  <2>2. /\ done_seek' \in BOOLEAN /\ seeks' \in Nat /\ arrived' \in Nat
        /\ sock' \in Seq(Numbers) /\ played' \in Seq(Nat)
    BY <1>0 DEF SlotsInv, Values, TypeOK, source, readerUnchanged
  <2> QED BY <1>1, <2>1, <2>2, ReaderMoves
<1>2. reader \in Rec
  BY DEF SlotsInv, Values
<1>3. /\ pkt \in [Slots -> Nat] /\ pktlen \in [Slots -> Nat] /\ queued \subseteq Slots
      /\ moved \in Nat
  BY Capacity DEF SlotsInv, TypeOK, Values
<1>4. potail \in SlotOrNil /\ (queued # {} => potail \in queued)
  BY <1>3, Oldest DEF potail, SlotOrNil
<1>5. queued = {} => potail = Nil
  BY DEF potail
<1>6. Nil \notin queued
  BY Capacity DEF SlotsInv, Nil
<1>7. reader.pc \in Reading => reader.slot \in queued
  BY DEF SlotsInv, ReaderHas
<1>8. CASE ReaderFillBuffers
  BY <1>2, <1>8 DEF ReaderFillBuffers, ReaderPcs, Reading
<1>9. CASE ReaderPeek
  <2>1. CASE potail = Nil
    BY <1>2, <1>9, <2>1 DEF ReaderPeek, ReaderPcs, Reading
  <2>2. CASE potail # Nil
    <3> DEFINE ts == Timestamp(pkt[potail])
    <3>1. ts \in Nat
      BY <1>3, <1>4, <1>5, <2>2, TimestampIsNat
    <3>2. reader' = [reader EXCEPT !.pc = "get_pkt", !.more = FALSE, !.ts = ts]
      BY <1>9, <2>2 DEF ReaderPeek
    <3> HIDE DEF ts
    <3> QED BY <1>2, <3>1, <3>2 DEF ReaderPcs, Reading
  <2> QED BY <2>1, <2>2
<1>10. CASE ReaderGetPkt
  BY <1>2, <1>4, <1>5, <1>6, <1>10 DEF ReaderGetPkt, ReaderPcs, Reading
<1>11. CASE ReaderPointer
  <2>1. reader.slot \in queued /\ pktlen[reader.slot] \in Nat
    BY <1>3, <1>7, <1>11 DEF ReaderPointer, Reading
  <2> QED BY <1>2, <1>3, <1>11, <2>1 DEF ReaderPointer, ReaderPcs, Reading
<1>12. CASE ReaderRmPkt
  BY <1>2, <1>4, <1>7, <1>12 DEF ReaderRmPkt, ReaderPcs, Reading, Removable
<1>13. CASE SeekSelect
  BY <1>2, <1>13 DEF SeekSelect, ReaderPcs, Reading
<1> QED BY <1>8, <1>9, <1>10, <1>11, <1>12, <1>13

(* The parser copies a packet out, or leaves it for the next frame. *)
LEMMA CopyKeeps == ASSUME SlotsInv, ReaderCopy PROVE SlotsInv'
<1>0. /\ reader.pc = "copy"
      /\ UNCHANGED <<pool, buffer, source, sock, fence, seeks, readerUnchanged>>
  BY DEF ReaderCopy
<1>1. reader.slot \in queued /\ pkt[reader.slot] \in Nat
  BY <1>0, Capacity DEF SlotsInv, ReaderHas, Reading, TypeOK
<1>2. /\ reader' \in [pc : ReaderPcs, slot : SlotOrNil, base : Nat, len : Nat, ts : Nat,
                      more : BOOLEAN]
      /\ reader'.slot = reader.slot
  BY DEF ReaderCopy, SlotsInv, Values, ReaderPcs, Reading
<1>3. played' \in Seq(Nat)
  <2>1. played \in Seq(Nat)
    BY DEF SlotsInv, Values
  <2>2. Append(played, pkt[reader.slot]) \in Seq(Nat)
    BY <1>1, <2>1, AppendProperties
  <2> QED BY <2>1, <2>2 DEF ReaderCopy
<1>4. UNCHANGED <<pool, buffer, seen, active, locked, run, rtp, net>>
  BY <1>0 DEF source, readerUnchanged
<1>5. /\ done_seek' \in BOOLEAN /\ seeks' \in Nat /\ arrived' \in Nat /\ sock' \in Seq(Numbers)
  BY <1>0 DEF SlotsInv, Values, TypeOK, source, readerUnchanged
<1> QED BY <1>1, <1>2, <1>3, <1>4, <1>5, ReaderMoves

(* A seek marks the source; socket_clear takes a packet off the socket. *)
LEMMA SeekStepsKeep == ASSUME SlotsInv, SeekMark \/ SeekDiscard PROVE SlotsInv'
<1>1. /\ reader' \in [pc : ReaderPcs, slot : SlotOrNil, base : Nat, len : Nat, ts : Nat,
                      more : BOOLEAN]
      /\ reader'.pc = "clear"
  BY DEF SeekMark, SeekDiscard, SlotsInv, Values, ReaderPcs
<1>2. sock' \in Seq(Numbers)
  <2>1. sock \in Seq(Numbers)
    BY DEF SlotsInv, Values
  <2>2. sock # <<>> => Tail(sock) \in Seq(Numbers)
    BY <2>1, HeadTailProperties
  <2> QED BY <2>1, <2>2 DEF SeekMark, SeekDiscard
<1>3. UNCHANGED <<pool, buffer, seen, active, locked, run, rtp, net>>
  BY DEF SeekMark, SeekDiscard, source, readerUnchanged
<1>4. done_seek' \in BOOLEAN /\ arrived' \in Nat /\ played' \in Seq(Nat)
  BY DEF SeekMark, SeekDiscard, SlotsInv, Values, TypeOK, source, readerUnchanged
<1>5. seeks' \in Nat
  <2>1. seeks \in Nat /\ seeks + 1 \in Nat
    BY DEF SlotsInv, Values
  <2> QED BY <2>1 DEF SeekMark, SeekDiscard
<1> QED BY <1>1, <1>2, <1>3, <1>4, <1>5, ReaderMoves DEF Reading

(* Slots that are taken off the playout buffer go back to the pool. *)
LEMMA TakesOff ==
  ASSUME SlotsInv, NEW S \in SUBSET queued, queued' = queued \ S, Pool!Put(S),
         reader' \in [pc : ReaderPcs, slot : SlotOrNil, base : Nat, len : Nat, ts : Nat,
                      more : BOOLEAN],
         reader'.pc \notin Reading, pkt' \in [Slots -> Nat],
         UNCHANGED <<pktlen, moved, source, sock, played, fence, seeks, readerUnchanged>>
  PROVE  SlotsInv'
<1>1. capacity' = capacity /\ free' = free \cup S
  BY DEF Pool!Put
<1>2. /\ UNCHANGED <<pktlen, moved, done_seek, seen, active, sock, played, fence, seeks>>
      /\ UNCHANGED <<locked, run, rtp, arrived, net>>
  BY DEF source, readerUnchanged
<1>3. Values'
  BY <1>2 DEF SlotsInv, Values
<1>4. HeldByRtp' = HeldByRtp
  BY <1>2 DEF HeldByRtp
<1>5. SlotsConserved'
  BY <1>1, <1>4 DEF SlotsInv, SlotsConserved
<1>6. free' \subseteq 0 .. capacity' - 1 /\ queued' \subseteq 0 .. capacity' - 1
  BY <1>5 DEF SlotsConserved
<1>7. TypeOK'
  BY <1>1, <1>2, <1>3, <1>6 DEF SlotsInv, TypeOK, Values, SlotOrNil
<1> QED BY <1>3, <1>5, <1>7 DEF SlotsInv, ReaderHas

(* bprmv takes one slot off, a flush all of them. *)
LEMMA RemovalsKeep == ASSUME SlotsInv, ReaderBpRmv \/ SeekFlush PROVE SlotsInv'
<1>1. CASE ReaderBpRmv
  <2>1. reader.slot \in queued
    BY <1>1 DEF ReaderBpRmv, SlotsInv, ReaderHas, Reading
  <2>2. /\ reader' \in [pc : ReaderPcs, slot : SlotOrNil, base : Nat, len : Nat, ts : Nat,
                        more : BOOLEAN]
        /\ reader'.pc \notin Reading
    BY <1>1 DEF ReaderBpRmv, SlotsInv, Values, ReaderPcs, Reading, SlotOrNil
  <2>3. pkt' \in [Slots -> Nat]
    BY <1>1 DEF ReaderBpRmv, SlotsInv, TypeOK
  <2>4. /\ Pool!Put({reader.slot}) /\ queued' = queued \ {reader.slot}
        /\ UNCHANGED <<pktlen, moved, source, sock, played, fence, seeks, readerUnchanged>>
    BY <1>1 DEF ReaderBpRmv
  <2> QED BY <2>1, <2>2, <2>3, <2>4, TakesOff
<1>2. CASE SeekFlush
  <2>1. /\ reader' \in [pc : ReaderPcs, slot : SlotOrNil, base : Nat, len : Nat, ts : Nat,
                        more : BOOLEAN]
        /\ reader'.pc \notin Reading
    BY <1>2 DEF SeekFlush, SlotsInv, Values, ReaderPcs, Reading
  <2>2. pkt' \in [Slots -> Nat] /\ queued' = queued \ queued
    BY <1>2 DEF SeekFlush, SlotsInv, TypeOK
  <2>3. /\ Pool!Put(queued)
        /\ UNCHANGED <<pktlen, moved, source, sock, played, fence, seeks, readerUnchanged>>
    BY <1>2 DEF SeekFlush
  <2> QED BY <2>1, <2>2, <2>3, TakesOff
<1> QED BY <1>1, <1>2

(* The network and the RTCP thread leave the slots alone. *)
LEMMA OthersKeep == ASSUME SlotsInv, Arrive \/ Bye PROVE SlotsInv'
<1>1. net' \in Seq(Numbers) /\ sock' \in Seq(Numbers) /\ arrived' \in Nat
  <2>1. CASE Arrive
    <3>1. net \in Seq(Numbers) /\ net # <<>> /\ sock \in Seq(Numbers)
      BY <2>1 DEF Arrive, SlotsInv, Values
    <3>2. Head(net) \in Numbers /\ Tail(net) \in Seq(Numbers) /\ Numbers \subseteq Nat
      BY <3>1, HeadTailProperties, PlayoutAssumption DEF Numbers
    <3>3. Append(sock, Head(net)) \in Seq(Numbers)
      BY <3>1, <3>2, AppendProperties
    <3>4. arrived \in Nat /\ Head(net) \in Nat
      BY <3>2 DEF SlotsInv, Values
    <3> QED BY <2>1, <3>2, <3>3, <3>4 DEF Arrive
  <2>2. CASE Bye
    BY <2>2 DEF Bye, SlotsInv, Values, network, history
  <2> QED BY <2>1, <2>2
<1>2. /\ UNCHANGED <<capacity, free, queued, pkt, pktlen, locked, done_seek, active, rtp>>
      /\ UNCHANGED <<reader, moved, seen, seeks, played>> /\ run' \in BOOLEAN
  BY DEF Arrive, Bye, pool, buffer, source, history, SlotsInv, TypeOK
<1>3. Values'
  BY <1>1, <1>2 DEF SlotsInv, Values
<1>4. HeldByRtp' = HeldByRtp
  BY <1>2 DEF HeldByRtp
<1> QED BY <1>2, <1>3, <1>4, SlotsStay DEF SlotsInv, TypeOK, ReaderHas

(* At the start the pool is one chunk, all of it free. *)
LEMMA InitSlots == Init => SlotsInv
<1> SUFFICES ASSUME Init PROVE SlotsInv
  OBVIOUS
<1>1. capacity = SlotNum /\ free = 0 .. SlotNum - 1
  BY DEF Init, Pool!Init
<1>2. SlotNum = SlotNum * 1 /\ 1 \in 1 .. Chunks
  BY PlayoutAssumption
<1>3. TypeOK
  BY <1>1, <1>2 DEF Init, TypeOK
<1>4. SlotsConserved
  BY <1>1 DEF Init, SlotsConserved, HeldByRtp
<1>5. Values
  <2>1. net \in Seq(Numbers)
    BY PlayoutAssumption DEF Init, Numbers
  <2>2. rtp \in [pc : RtpPcs, slot : SlotOrNil, reset : BOOLEAN]
    BY DEF Init, RtpPcs, SlotOrNil
  <2>3. reader \in [pc : ReaderPcs, slot : SlotOrNil, base : Nat, len : Nat, ts : Nat,
                    more : BOOLEAN]
    BY DEF Init, ReaderPcs, SlotOrNil
  <2> QED BY <2>1, <2>2, <2>3 DEF Init, Values
<1>6. ReaderHas
  BY DEF Init, ReaderHas, Reading
<1> QED BY <1>3, <1>4, <1>5, <1>6 DEF SlotsInv

(* Every step of every thread keeps the slots where they should be. *)
LEMMA NextSlots == ASSUME SlotsInv, [Next]_vars PROVE SlotsInv'
<1>1. CASE RtpStep
  BY <1>1, SelectKeeps, BpGetKeeps, RecvfromKeeps, BadHeaderKeeps, CheckSeekKeeps,
     UpdateSeqKeeps, PoaddKeeps, PktlenKeeps DEF RtpStep
<1>2. CASE ReaderStep
  BY <1>2, LooksKeep, CopyKeeps, RemovalsKeep, SeekStepsKeep DEF ReaderStep
<1>3. CASE SeekMark \/ Arrive \/ Bye
  BY <1>3, SeekStepsKeep, OthersKeep
<1>4. CASE UNCHANGED vars
  BY <1>4 DEF vars, pool, buffer, source, network, history, SlotsInv, TypeOK, Values,
     SlotsConserved, HeldByRtp, ReaderHas
<1> QED BY <1>1, <1>2, <1>3, <1>4 DEF Next, Finished

(* Between the RTP thread, the reader and the pool no slot is lost, freed twice or
   reused while it is queued, and the packet under the parser's hands stays where
   it is, however the threads interleave and whatever the network delivers. *)
THEOREM SlotsSafe == Spec => []SlotsOK
<1>1. SlotsInv => SlotsOK
  BY DEF SlotsInv, SlotsOK, ReaderSlotQueued, ReaderHas, Reading
<1> QED BY <1>1, InitSlots, NextSlots, PTL DEF Spec

(* The threads keep the rules of the pool: what they give back they had, so that the
   pool they share does what SlotPool promises. *)
THEOREM KeepsPoolRules == Spec => Pool!Spec
<1>1. Init => Pool!Init
  BY DEF Init
<1>2. ASSUME SlotsInv, [Next]_vars PROVE [Pool!Next]_(Pool!vars)
  <2>1. \A S \in SUBSET (queued \cup HeldByRtp) : Pool!Put(S) => Pool!Next
    <3>1. queued \cup HeldByRtp \subseteq Pool!Held
      BY <1>2 DEF SlotsInv, SlotsConserved, Pool!Held
    <3> QED BY <3>1 DEF Pool!Next
  <2>2. CASE \E i \in Slots : RtpBpGet(i)
    BY <2>2 DEF RtpBpGet, Pool!Next, Pool!Get, Slots, MaxSize
  <2>3. CASE RtpBadHeader \/ RtpPoadd
    BY <2>1, <2>3 DEF RtpBadHeader, RtpPoadd, BpFree, HeldByRtp, Pool!vars, pool
  <2>4. CASE ReaderBpRmv \/ SeekFlush
    BY <1>2, <2>1, <2>4 DEF ReaderBpRmv, SeekFlush, SlotsInv, ReaderHas, Reading
  <2>5. CASE RtpSelect \/ RtpRecvfrom \/ RtpCheckSeek \/ RtpUpdateSeq \/ RtpPktlen
    BY <2>5 DEF RtpSelect, RtpRecvfrom, RtpCheckSeek, RtpUpdateSeq, RtpPktlen, pool, Pool!vars
  <2>6. CASE \/ ReaderFillBuffers \/ ReaderPeek \/ ReaderGetPkt \/ ReaderPointer \/ ReaderCopy
             \/ ReaderRmPkt \/ SeekSelect \/ SeekDiscard \/ SeekMark
    BY <2>6 DEF ReaderFillBuffers, ReaderPeek, ReaderGetPkt, ReaderPointer, ReaderCopy,
       ReaderRmPkt, SeekSelect, SeekDiscard, SeekMark, pool, Pool!vars
  <2>7. CASE Arrive \/ Bye \/ UNCHANGED vars
    BY <2>7 DEF Arrive, Bye, vars, pool, Pool!vars
  <2> QED
    BY <1>2, <2>2, <2>3, <2>4, <2>5, <2>6, <2>7 DEF Next, RtpStep, ReaderStep, Finished
<1> QED BY <1>1, <1>2, InitSlots, NextSlots, PTL DEF Spec, Pool!Spec

-----------------------------------------------------------------------------
(* A network that keeps the order: it may lose packets and spoil headers. *)
Rising(s) == \A j, k \in 1 .. Len(s) : j < k /\ s[j] # Bad /\ s[k] # Bad => s[j] < s[k]
InOrderDeliveries == \A d \in Deliveries : Rising(d)

(* What is still to come was sent after n. *)
Above(s, n) == \A k \in 1 .. Len(s) : s[k] # Bad => n < s[k]
Ahead(n) == Above(sock, n) /\ Above(net, n)

LastPlayed == IF played = <<>> THEN 0 ELSE played[Len(played)]

NetworkInv ==
  /\ Rising(sock) /\ Rising(net)
  /\ \A j \in 1 .. Len(sock) : sock[j] # Bad => Above(net, sock[j])
  /\ Ahead(seen)

(* The packet the RTP thread has is newer than all that came before it. *)
HeldInv ==
  /\ rtp.pc \in {"check", "update_seq"} /\ pkt[rtp.slot] # Bad =>
       seen < pkt[rtp.slot] /\ Ahead(pkt[rtp.slot])
  /\ rtp.pc = "update_seq" => pkt[rtp.slot] # Bad
  /\ rtp.pc = "poadd" => /\ pkt[rtp.slot] = seen /\ LastPlayed < seen
                         /\ \A i \in queued : pkt[i] < seen

BufferInv ==
  /\ \A i \in queued : 0 < pkt[i] /\ pkt[i] <= seen
  /\ \A i, j \in queued : pkt[i] = pkt[j] => i = j

(* What is queued comes after what was played; between rtp_get_pkt and rtp_rm_pkt
   the packet played last is still there. *)
PlayedInv ==
  /\ PlayedInOrder /\ LastPlayed <= seen
  /\ reader.pc \notin {"rm_pkt", "bprmv"} => \A i \in queued : LastPlayed < pkt[i]
  /\ reader.pc \in {"rm_pkt", "bprmv"} =>
       /\ played # <<>> /\ pkt[reader.slot] = LastPlayed
       /\ \A i \in queued \ {reader.slot} : LastPlayed < pkt[i]

IsOldest(i) == i \in queued /\ \A j \in queued : pkt[i] <= pkt[j]

(* The packet under the reader's hands is the oldest, and the first of a frame gave
   the frame its timestamp. *)
FrameInv ==
  /\ reader.pc \in Reading => IsOldest(reader.slot)
  /\ reader.pc = "get_pkt" /\ ~ reader.more =>
       \E i \in queued : IsOldest(i) /\ Timestamp(pkt[i]) = reader.ts
  /\ reader.pc \in {"pointer", "copy"} /\ ~ reader.more =>
       Timestamp(pkt[reader.slot]) = reader.ts

(* The inductive invariant of the order. *)
OrderInv == NetworkInv /\ HeldInv /\ BufferInv /\ PlayedInv /\ FrameInv

(* The head of a rising sequence is less than its tail, which rises. *)
LEMMA TailRises ==
  ASSUME NEW s \in Seq(Numbers), s # <<>>, Rising(s)
  PROVE  /\ Rising(Tail(s)) /\ (s[1] # Bad => Above(Tail(s), s[1]))
         /\ \A n \in Nat : Above(s, n) => Above(Tail(s), n)
         /\ Head(s) = s[1] /\ Len(s) \in Nat /\ Len(s) > 0 /\ Len(Tail(s)) = Len(s) - 1
         /\ \A k \in 1 .. Len(s) - 1 : Tail(s)[k] = s[k + 1]
<1>1. /\ Len(s) \in Nat /\ Len(s) > 0 /\ Len(Tail(s)) = Len(s) - 1
      /\ \A k \in 1 .. Len(s) - 1 : Tail(s)[k] = s[k + 1]
  BY HeadTailProperties, EmptySeq
<1>2. Head(s) = s[1]
  OBVIOUS
<1> DEFINE t == Tail(s)
<1> HIDE DEF t
<1>3. Rising(t)
  BY <1>1 DEF Rising, t
<1>4. s[1] # Bad => Above(t, s[1])
  BY <1>1 DEF Rising, Above, t
<1>5. \A n \in Nat : Above(s, n) => Above(t, n)
  BY <1>1 DEF Above, t
<1> QED BY <1>1, <1>2, <1>3, <1>4, <1>5 DEF t

(* A sequence that rises to below x rises to x. *)
LEMMA AppendRises ==
  ASSUME NEW s \in Seq(Numbers), NEW x \in Numbers, Rising(s),
         \A k \in 1 .. Len(s) : s[k] # Bad /\ x # Bad => s[k] < x
  PROVE  Rising(Append(s, x))
<1> DEFINE t == Append(s, x)
<1>1. /\ Len(s) \in Nat /\ Len(t) = Len(s) + 1 /\ t[Len(s) + 1] = x
      /\ \A k \in 1 .. Len(s) : t[k] = s[k]
  BY AppendProperties
<1> HIDE DEF t
<1> QED BY <1>1 DEF Rising, t

(* The least packet on the buffer is in one slot only. *)
LEMMA OldestIsPotail ==
  ASSUME SlotsInv, BufferInv, NEW i, IsOldest(i)
  PROVE  potail = i
<1>1. queued \subseteq Slots /\ pkt \in [Slots -> Nat]
  BY Capacity DEF SlotsInv, TypeOK
<1>2. potail \in queued /\ pkt[potail] <= pkt[i] /\ pkt[i] <= pkt[potail]
  BY <1>1, Oldest DEF IsOldest
<1>3. pkt[potail] = pkt[i]
  BY <1>1, <1>2 DEF IsOldest
<1> QED BY <1>2, <1>3 DEF IsOldest, BufferInv

(* ... and potail names it. *)
LEMMA PotailIsOldest ==
  ASSUME SlotsInv, potail # Nil
  PROVE  IsOldest(potail)
BY Capacity, Oldest DEF SlotsInv, TypeOK, IsOldest, potail

(* A step that changes neither what is queued nor what is to come. *)
LEMMA OrderStays ==
  ASSUME OrderInv, UNCHANGED <<queued, sock, net, seen, played, rtp>>,
         \A i \in queued \cup HeldByRtp : pkt'[i] = pkt[i],
         reader'.pc \in {"rm_pkt", "bprmv"} =>
           /\ played # <<>> /\ pkt'[reader'.slot] = LastPlayed
           /\ \A i \in queued \ {reader'.slot} : LastPlayed < pkt[i],
         reader'.pc \notin {"rm_pkt", "bprmv"} => \A i \in queued : LastPlayed < pkt[i],
         FrameInv'
  PROVE  OrderInv'
<1>1. NetworkInv'
  BY DEF OrderInv, NetworkInv, Rising, Above, Ahead
<1>2. HeldInv'
  BY DEF OrderInv, HeldInv, Above, Ahead, HeldByRtp, LastPlayed
<1>3. BufferInv'
  BY DEF OrderInv, BufferInv
<1>4. PlayedInv'
  BY DEF OrderInv, PlayedInv, LastPlayed, PlayedInOrder
<1> QED BY <1>1, <1>2, <1>3, <1>4 DEF OrderInv

(* What was played last is a number. *)
LEMMA LastIsNat == ASSUME SlotsInv PROVE LastPlayed \in Nat
<1>1. played \in Seq(Nat)
  BY DEF SlotsInv, Values
<1>2. played # <<>> => Len(played) \in 1 .. Len(played)
  BY <1>1, EmptySeq, LenProperties
<1> QED BY <1>1, <1>2, ElementOfSeq DEF LastPlayed

(* A step of the RTP thread that queues nothing. *)
LEMMA RtpOrder ==
  ASSUME SlotsInv, OrderInv, UNCHANGED <<queued, sock, net, seen, played, reader>>,
         \A i \in queued : pkt'[i] = pkt[i], HeldInv'
  PROVE  OrderInv'
<1>1. NetworkInv'
  BY DEF OrderInv, NetworkInv, Rising, Above, Ahead
<1>2. BufferInv'
  BY DEF OrderInv, BufferInv
<1>3. reader.pc \in Reading => reader.slot \in queued
  BY DEF SlotsInv, ReaderHas
<1>4. PlayedInv'
  BY <1>3 DEF OrderInv, PlayedInv, LastPlayed, PlayedInOrder, Reading
<1>5. \A i \in queued : IsOldest(i) => IsOldest(i)'
  BY DEF IsOldest
<1>6. FrameInv'
  BY <1>3, <1>5 DEF OrderInv, FrameInv, Reading
<1> QED BY <1>1, <1>2, <1>4, <1>6 DEF OrderInv

(* Where the RTP thread has no packet. *)
LEMMA IdleOrder ==
  ASSUME SlotsInv, OrderInv, RtpSelect \/ RtpPktlen \/ \E i \in Slots : RtpBpGet(i)
  PROVE  OrderInv'
<1>1. rtp'.pc \in {"bpget", "recvfrom", "select"}
  BY DEF RtpSelect, RtpPktlen, RtpBpGet, SlotsInv, Values
<1>2. UNCHANGED <<queued, sock, net, seen, played, reader, pkt>>
  BY DEF RtpSelect, RtpPktlen, RtpBpGet, buffer, source, network, rtpUnchanged, history
<1>3. HeldInv'
  BY <1>1 DEF HeldInv
<1> QED BY <1>2, <1>3, RtpOrder

(* The slot the RTP thread has is not queued. *)
LEMMA HeldApart ==
  ASSUME SlotsInv, rtp.pc \in Holding
  PROVE  rtp.slot \in Slots /\ rtp.slot \notin queued
BY Capacity DEF SlotsInv, SlotsConserved, HeldByRtp, Holding

(* The next packet from the socket is newer than all before it. *)
LEMMA RecvfromOrder == ASSUME SlotsInv, OrderInv, RtpRecvfrom PROVE OrderInv'
<1>0. /\ rtp.pc = "recvfrom" /\ sock # <<>> /\ sock' = Tail(sock)
      /\ pkt' = [pkt EXCEPT ![rtp.slot] = Head(sock)]
      /\ UNCHANGED <<queued, seen, net, played, reader>>
      /\ rtp'.pc = "check" /\ rtp'.slot = rtp.slot
  BY DEF RtpRecvfrom, SlotsInv, Values, source, rtpUnchanged, history
<1>1. rtp.slot \in Slots /\ rtp.slot \notin queued
  BY <1>0, HeldApart DEF Holding
<1>2. pkt'[rtp.slot] = Head(sock) /\ \A i \in queued : pkt'[i] = pkt[i]
  BY <1>0, <1>1, Capacity DEF SlotsInv, TypeOK
<1>3. sock \in Seq(Numbers) /\ net \in Seq(Numbers) /\ seen \in Nat /\ Rising(sock)
  BY DEF SlotsInv, Values, OrderInv, NetworkInv
<1>4. /\ Rising(sock') /\ (Head(sock) # Bad => Above(sock', Head(sock)))
      /\ Above(sock, seen) => Above(sock', seen)
      /\ Head(sock) = sock[1] /\ 1 \in 1 .. Len(sock) /\ Len(sock') = Len(sock) - 1
      /\ \A k \in 1 .. Len(sock') : k + 1 \in 1 .. Len(sock) /\ sock'[k] = sock[k + 1]
  BY <1>0, <1>3, TailRises
<1>5. NetworkInv'
  <2>1. Ahead(seen)'
    BY <1>0, <1>4 DEF OrderInv, NetworkInv, Ahead, Above
  <2>2. \A j \in 1 .. Len(sock') : sock'[j] # Bad => Above(net, sock'[j])
    BY <1>4 DEF OrderInv, NetworkInv
  <2>3. (\A j \in 1 .. Len(sock) : sock[j] # Bad => Above(net, sock[j]))'
    BY <1>0, <2>2 DEF Above
  <2>4. Rising(net)'
    BY <1>0 DEF OrderInv, NetworkInv, Rising
  <2>5. Rising(sock)'
    BY <1>4 DEF Rising
  <2> QED BY <2>1, <2>3, <2>4, <2>5 DEF NetworkInv
<1>6. HeldInv'
  <2>1. ASSUME Head(sock) # Bad
        PROVE  seen < Head(sock) /\ Above(sock', Head(sock)) /\ Above(net, Head(sock))
    <3>1. seen < Head(sock)
      BY <1>4, <2>1 DEF OrderInv, NetworkInv, Ahead, Above
    <3>2. Above(net, Head(sock))
      BY <1>4, <2>1 DEF OrderInv, NetworkInv
    <3> QED BY <1>4, <2>1, <3>1, <3>2
  <2> QED BY <1>0, <1>2, <2>1 DEF HeldInv, Ahead
<1>7. BufferInv'
  BY <1>0, <1>2 DEF OrderInv, BufferInv
<1>8. reader.pc \in Reading => reader.slot \in queued
  BY DEF SlotsInv, ReaderHas
<1>9. PlayedInv'
  BY <1>0, <1>2, <1>8 DEF OrderInv, PlayedInv, LastPlayed, PlayedInOrder, Reading
<1>10. FrameInv'
  <2>1. \A i \in queued : IsOldest(i) => IsOldest(i)'
    BY <1>0, <1>2 DEF IsOldest
  <2> QED BY <1>0, <1>2, <1>8, <2>1 DEF OrderInv, FrameInv, Reading
<1> QED BY <1>5, <1>6, <1>7, <1>9, <1>10 DEF OrderInv

(* A bad header is dropped; a good one goes on to rtp_update_seq. *)
LEMMA CheckOrder ==
  ASSUME SlotsInv, OrderInv, RtpBadHeader \/ RtpCheckSeek PROVE OrderInv'
<1>1. rtp.pc = "check" /\ UNCHANGED <<queued, sock, net, seen, played, reader>>
  BY DEF RtpBadHeader, RtpCheckSeek, buffer, source, network, rtpUnchanged, history
<1>2. CASE RtpBadHeader
  <2>1. pkt' = [pkt EXCEPT ![rtp.slot] = 0] /\ rtp'.pc = "select"
    BY <1>2 DEF RtpBadHeader, BpFree, SlotsInv, Values
  <2>2. \A i \in queued : pkt'[i] = pkt[i]
    BY <1>1, <2>1, HeldApart, Capacity DEF SlotsInv, TypeOK, Holding
  <2>3. HeldInv'
    BY <2>1 DEF HeldInv
  <2> QED BY <1>1, <2>2, <2>3, RtpOrder
<1>3. CASE RtpCheckSeek
  <2>1. /\ pkt[rtp.slot] # Bad /\ pkt' = pkt
        /\ rtp'.pc = "update_seq" /\ rtp'.slot = rtp.slot
    BY <1>3 DEF RtpCheckSeek, buffer, SlotsInv, Values
  <2>2. HeldInv'
    BY <1>1, <2>1 DEF OrderInv, HeldInv, Ahead, Above
  <2> QED BY <1>1, <2>1, <2>2, RtpOrder
<1> QED BY <1>2, <1>3

(* rtp_update_seq has then seen the packet, and none that is still to come. *)
LEMMA UpdateSeqOrder == ASSUME SlotsInv, OrderInv, RtpUpdateSeq PROVE OrderInv'
<1>0. /\ rtp.pc = "update_seq" /\ seen' = pkt[rtp.slot]
      /\ UNCHANGED <<queued, pkt, sock, net, played, reader>>
      /\ rtp'.pc = "poadd" /\ rtp'.slot = rtp.slot
  BY DEF RtpUpdateSeq, buffer, network, rtpUnchanged, history, SlotsInv, Values
<1>1. /\ seen < seen' /\ Above(sock, seen') /\ Above(net, seen')
  BY <1>0 DEF OrderInv, HeldInv, Ahead
<1>2. rtp.slot \in Slots /\ seen' \in Nat /\ seen \in Nat
  BY <1>0, HeldApart DEF Holding, SlotsInv, TypeOK, Values
<1>3. NetworkInv'
  <2>1. Above(sock', seen') /\ Above(net', seen')
    BY <1>0, <1>1 DEF Above
  <2>2. /\ Rising(sock) /\ Rising(net)
        /\ \A j \in 1 .. Len(sock) : sock[j] # Bad => Above(net, sock[j])
    BY DEF OrderInv, NetworkInv
  <2>3. Rising(sock)' /\ Rising(net)'
    BY <1>0, <2>2 DEF Rising
  <2>4. (\A j \in 1 .. Len(sock) : sock[j] # Bad => Above(net, sock[j]))'
    BY <1>0, <2>2 DEF Above
  <2>5. Ahead(seen)'
    BY <2>1 DEF Ahead, Above
  <2> QED BY <2>3, <2>4, <2>5 DEF NetworkInv
<1>4. queued \subseteq Slots /\ pkt \in [Slots -> Nat] /\ LastPlayed \in Nat
  BY Capacity, LastIsNat DEF SlotsInv, TypeOK
<1>5. BufferInv' /\ \A i \in queued : pkt[i] < seen'
  BY <1>0, <1>1, <1>2, <1>4 DEF OrderInv, BufferInv
<1>6. LastPlayed' = LastPlayed /\ LastPlayed <= seen /\ LastPlayed < seen'
  <2>1. LastPlayed' = LastPlayed /\ LastPlayed <= seen
    BY <1>0 DEF LastPlayed, OrderInv, PlayedInv
  <2> QED BY <1>1, <1>2, <1>4, <2>1
<1>7. HeldInv'
  BY <1>0, <1>5, <1>6 DEF HeldInv
<1>8. PlayedInv'
  BY <1>0, <1>2, <1>4, <1>6 DEF OrderInv, PlayedInv, PlayedInOrder
<1>9. FrameInv'
  BY <1>0 DEF OrderInv, FrameInv, IsOldest
<1> QED BY <1>3, <1>5, <1>7, <1>8, <1>9 DEF OrderInv

(* poadd puts the newest packet behind all the others: the oldest stays the oldest. *)
LEMMA PoaddOrder == ASSUME SlotsInv, OrderInv, RtpPoadd PROVE OrderInv'
<1>0. rtp.pc = "poadd" /\ UNCHANGED <<sock, net, seen, played, reader>>
  BY DEF RtpPoadd, source, network, rtpUnchanged, history
<1>1. /\ rtp.slot \in Slots /\ rtp.slot \notin queued
      /\ pkt \in [Slots -> Nat] /\ queued \subseteq Slots
  BY <1>0, HeldApart, Capacity DEF Holding, SlotsInv, TypeOK
<1>2. /\ pkt[rtp.slot] = seen /\ LastPlayed < seen /\ LastPlayed \in Nat
      /\ \A i \in queued : pkt[i] < pkt[rtp.slot]
  BY <1>0, <1>1, LastIsNat DEF OrderInv, HeldInv
<1>3. CASE UNCHANGED queued /\ BpFree(rtp.slot) /\ \E i \in queued : pkt[i] = pkt[rtp.slot]
  BY <1>1, <1>2, <1>3
<1>4. CASE /\ queued' = queued \cup {rtp.slot} /\ UNCHANGED pkt
           /\ rtp' = [rtp EXCEPT !.pc = "pktlen"]
  <2>1. rtp'.pc = "pktlen"
    BY <1>4 DEF SlotsInv, Values
  <2>2. HeldInv'
    BY <2>1 DEF HeldInv
  <2>3. NetworkInv'
    BY <1>0 DEF OrderInv, NetworkInv, Rising, Ahead, Above
  <2>4. BufferInv'
    <3>1. 0 < pkt[rtp.slot] /\ pkt[rtp.slot] <= seen
      BY <1>1, <1>2
    <3> QED BY <1>0, <1>1, <1>2, <1>4, <3>1 DEF OrderInv, BufferInv
  <2>5. reader.pc \in Reading => reader.slot \in queued
    BY DEF SlotsInv, ReaderHas
  <2>6. PlayedInv'
    BY <1>0, <1>2, <1>4, <2>5 DEF OrderInv, PlayedInv, LastPlayed, PlayedInOrder, Reading
  <2>7. \A i \in queued : IsOldest(i) => IsOldest(i)'
    BY <1>1, <1>2, <1>4 DEF IsOldest
  <2>8. FrameInv'
    BY <1>0, <1>4, <2>5, <2>7 DEF OrderInv, FrameInv, Reading
  <2> QED BY <2>2, <2>3, <2>4, <2>6, <2>8 DEF OrderInv
<1> QED BY <1>3, <1>4 DEF RtpPoadd, pool

-----------------------------------------------------------------------------
(* The steps in which the reader only looks. *)
LEMMA LooksOrder ==
  ASSUME SlotsInv, OrderInv,
         ReaderFillBuffers \/ ReaderPeek \/ ReaderGetPkt \/ ReaderPointer \/ ReaderRmPkt
           \/ SeekSelect \/ SeekMark
  PROVE  OrderInv'
<1>0. UNCHANGED <<queued, pkt, sock, net, seen, played, rtp>>
  BY DEF ReaderFillBuffers, ReaderPeek, ReaderGetPkt, ReaderPointer, ReaderRmPkt, SeekSelect,
     SeekMark, buffer, source, readerUnchanged
<1>1. \A i : IsOldest(i)' <=> IsOldest(i)
  BY <1>0 DEF IsOldest
<1>2. reader \in [pc : ReaderPcs, slot : SlotOrNil, base : Nat, len : Nat, ts : Nat,
                  more : BOOLEAN]
  BY DEF SlotsInv, Values
<1> SUFFICES /\ reader'.pc \in {"rm_pkt", "bprmv"} =>
                  reader.pc \in {"rm_pkt", "bprmv"} /\ reader'.slot = reader.slot
             /\ reader'.pc \notin {"rm_pkt", "bprmv"} => reader.pc \notin {"rm_pkt", "bprmv"}
             /\ FrameInv'
  <2>1. PlayedInv
    BY DEF OrderInv
  <2> QED BY <1>0, <2>1, OrderStays DEF PlayedInv
<1>3. CASE ReaderFillBuffers \/ SeekSelect \/ SeekMark
  <2>1. /\ reader.pc \in {"fill_buffers", "clear"}
        /\ reader'.pc \in {"done", "peek", "flush", "discard", "clear"}
    BY <1>2, <1>3 DEF ReaderFillBuffers, SeekSelect, SeekMark
  <2> QED BY <2>1 DEF FrameInv, Reading
<1>4. CASE ReaderPeek
  <2>1. CASE potail = Nil
    <3>1. reader.pc = "peek" /\ reader'.pc = "fill_buffers"
      BY <1>2, <1>4, <2>1 DEF ReaderPeek
    <3> QED BY <3>1 DEF FrameInv, Reading
  <2>2. CASE potail # Nil
    <3> DEFINE ts == Timestamp(pkt[potail])
    <3>1. IsOldest(potail) /\ ts = Timestamp(pkt[potail])
      BY <2>2, PotailIsOldest
    <3>2. reader.pc = "peek" /\ reader' = [reader EXCEPT !.pc = "get_pkt", !.more = FALSE, !.ts = ts]
      BY <1>4, <2>2 DEF ReaderPeek
    <3> HIDE DEF ts
    <3>3. reader'.pc = "get_pkt" /\ reader'.ts = ts
      BY <1>2, <3>2
    <3>4. \E i \in queued' : IsOldest(i)' /\ Timestamp(pkt'[i]) = reader'.ts
      <4>1. \E i \in queued : IsOldest(i) /\ Timestamp(pkt[i]) = ts
        BY <3>1 DEF IsOldest
      <4> QED BY <1>0, <1>1, <3>3, <4>1
    <3> QED BY <3>2, <3>3, <3>4 DEF FrameInv, Reading
  <2> QED BY <2>1, <2>2
<1>5. CASE ReaderGetPkt
  <2>1. CASE potail = Nil
    <3>1. reader.pc = "get_pkt" /\ reader'.pc = "fill_buffers"
      BY <1>2, <1>5, <2>1 DEF ReaderGetPkt
    <3> QED BY <3>1 DEF FrameInv, Reading
  <2>2. CASE potail # Nil
    <3>1. /\ reader.pc = "get_pkt" /\ reader'.pc = "pointer" /\ reader'.slot = potail
          /\ reader'.more = reader.more /\ reader'.ts = reader.ts
      BY <1>2, <1>5, <2>2 DEF ReaderGetPkt
    <3>2. IsOldest(reader'.slot) /\ IsOldest(potail)
      BY <2>2, <3>1, PotailIsOldest
    <3>3. ~ reader.more => Timestamp(pkt[potail]) = reader.ts
      BY <3>1, OldestIsPotail DEF OrderInv, FrameInv
    <3>4. reader'.slot \in queued' /\ \A j \in queued' : pkt'[reader'.slot] <= pkt'[j]
      BY <1>0, <3>2 DEF IsOldest
    <3> QED BY <1>0, <3>1, <3>3, <3>4 DEF FrameInv, IsOldest, Reading
  <2> QED BY <2>1, <2>2
<1>6. CASE ReaderPointer
  <2>1. /\ reader.pc = "pointer" /\ reader'.pc = "copy" /\ reader'.slot = reader.slot
        /\ reader'.more = reader.more /\ reader'.ts = reader.ts
    BY <1>2, <1>6 DEF ReaderPointer
  <2> QED BY <1>0, <2>1 DEF OrderInv, FrameInv, IsOldest, Reading
<1>7. CASE ReaderRmPkt
  <2>1. reader.pc = "rm_pkt" /\ reader'.pc = "bprmv" /\ reader'.slot = potail
    BY <1>2, <1>7 DEF ReaderRmPkt, Removable
  <2>2. potail = reader.slot /\ IsOldest(reader.slot)
    BY <2>1, OldestIsPotail DEF OrderInv, FrameInv, Reading
  <2> QED BY <1>0, <2>1, <2>2 DEF FrameInv, IsOldest, Reading
<1> QED BY <1>3, <1>4, <1>5, <1>6, <1>7

(* The packet that is copied is newer than what was played, older than what is queued. *)
LEMMA CopyOrder ==
  ASSUME SlotsInv, OrderInv, ReaderCopy
  PROVE  /\ OrderInv'
         /\ played' # played => Timestamp(played'[Len(played')]) = reader.ts
<1>0. reader.pc = "copy" /\ UNCHANGED <<queued, pkt, sock, net, seen, rtp>>
  BY DEF ReaderCopy, buffer, source, readerUnchanged
<1>1. reader \in [pc : ReaderPcs, slot : SlotOrNil, base : Nat, len : Nat, ts : Nat,
                  more : BOOLEAN]
  BY DEF SlotsInv, Values
<1>2. /\ reader.slot \in queued /\ \A j \in queued : pkt[reader.slot] <= pkt[j]
      /\ \A j \in queued : LastPlayed < pkt[j]
  BY <1>0 DEF OrderInv, FrameInv, PlayedInv, Reading, IsOldest
<1>3. CASE /\ reader.more => SameFrame
           /\ played' = Append(played, pkt[reader.slot])
           /\ reader' = [reader EXCEPT !.pc = "rm_pkt"]
  <2> DEFINE n == pkt[reader.slot]
  <2>1. queued \subseteq Slots /\ pkt \in [Slots -> Nat]
    BY Capacity DEF SlotsInv, TypeOK
  <2>2. n \in Nat /\ played \in Seq(Nat)
    BY <1>2, <2>1 DEF SlotsInv, Values
  <2>3. /\ Len(played) \in Nat /\ Len(played') = Len(played) + 1 /\ played'[Len(played) + 1] = n
        /\ \A k \in 1 .. Len(played) : played'[k] = played[k] /\ played[k] \in Nat
        /\ played = <<>> <=> Len(played) = 0
    BY <1>3, <2>2, AppendProperties, LenProperties, EmptySeq, ElementOfSeq
  <2>4. n = pkt[reader.slot]
    OBVIOUS
  <2> HIDE DEF n
  <2>5. played' # <<>> /\ LastPlayed' = n /\ played' # played
    BY <2>3 DEF LastPlayed
  <2>6. LastPlayed < n
    BY <1>2, <2>4
  <2>7. PlayedInOrder'
    <3>1. PlayedInOrder
      BY DEF OrderInv, PlayedInv
    <3>2. ASSUME NEW k \in 1 .. Len(played') - 1 PROVE played'[k] < played'[k + 1]
      <4>1. CASE k < Len(played)
        BY <2>3, <3>1, <4>1 DEF PlayedInOrder
      <4>2. CASE k = Len(played)
        BY <2>3, <2>6, <4>2 DEF LastPlayed
      <4> QED BY <2>3, <4>1, <4>2
    <3> QED BY <3>2 DEF PlayedInOrder
  <2>8. reader'.pc = "rm_pkt" /\ reader'.slot = reader.slot
    BY <1>1, <1>3
  <2>9. \A i \in queued \ {reader.slot} : n < pkt[i]
    <3>1. ASSUME NEW i \in queued, i # reader.slot PROVE n < pkt[i]
      <4>1. n <= pkt[i] /\ n # pkt[i] /\ pkt[i] \in Nat
        BY <1>2, <2>1, <2>4, <3>1 DEF OrderInv, BufferInv
      <4> QED BY <2>2, <4>1
    <3> QED BY <3>1
  <2>10. n <= seen
    BY <1>2, <2>4 DEF OrderInv, BufferInv
  <2>11. PlayedInv'
    BY <1>0, <2>4, <2>5, <2>7, <2>8, <2>9, <2>10 DEF PlayedInv
  <2>12. FrameInv'
    BY <1>0, <1>2, <2>8 DEF FrameInv, IsOldest, Reading
  <2>13. NetworkInv'
    BY <1>0 DEF OrderInv, NetworkInv, Rising, Ahead, Above
  <2>14. HeldInv'
    BY <1>0, <1>2, <2>4, <2>5 DEF OrderInv, HeldInv, Ahead, Above
  <2>15. BufferInv'
    BY <1>0 DEF OrderInv, BufferInv
  <2>16. Timestamp(n) = reader.ts
    BY <1>0, <1>1, <1>3, <2>4 DEF OrderInv, FrameInv, SameFrame
  <2>17. OrderInv'
    BY <2>11, <2>12, <2>13, <2>14, <2>15 DEF OrderInv
  <2> QED BY <2>3, <2>16, <2>17
<1>4. CASE reader' = [reader EXCEPT !.pc = "fill_buffers"] /\ UNCHANGED played
  <2>1. reader'.pc = "fill_buffers"
    BY <1>1, <1>4
  <2>2. FrameInv'
    BY <2>1 DEF FrameInv, Reading
  <2> QED BY <1>0, <1>2, <1>4, <2>1, <2>2, OrderStays
<1> QED BY <1>3, <1>4 DEF ReaderCopy

(* bprmv takes off the packet that was copied, a flush all of them. *)
LEMMA RemovalsOrder == ASSUME SlotsInv, OrderInv, ReaderBpRmv \/ SeekFlush PROVE OrderInv'
<1>0. UNCHANGED <<sock, net, seen, played, rtp>>
  BY DEF ReaderBpRmv, SeekFlush, buffer, source, readerUnchanged
<1>1. reader \in [pc : ReaderPcs, slot : SlotOrNil, base : Nat, len : Nat, ts : Nat,
                  more : BOOLEAN]
  BY DEF SlotsInv, Values
<1>2. queued \subseteq Slots /\ pkt \in [Slots -> Nat]
  BY Capacity DEF SlotsInv, TypeOK
<1>3. /\ queued' \subseteq queued /\ \A i \in queued' \cup HeldByRtp : pkt'[i] = pkt[i]
      /\ reader'.pc \in {"get_pkt", "fill_buffers"} /\ (reader'.pc = "get_pkt" => reader'.more)
      /\ \A i \in queued' : LastPlayed < pkt[i]
  <2>1. CASE ReaderBpRmv
    <3>1. /\ reader.pc = "bprmv" /\ queued' = queued \ {reader.slot}
          /\ pkt' = [pkt EXCEPT ![reader.slot] = 0]
          /\ reader'.pc = "get_pkt" /\ reader'.more = TRUE
      BY <1>1, <2>1 DEF ReaderBpRmv
    <3>2. reader.slot \in queued /\ reader.slot \notin HeldByRtp
      BY <3>1 DEF SlotsInv, ReaderHas, Reading, SlotsConserved
    <3>3. \A i \in queued \ {reader.slot} : LastPlayed < pkt[i]
      BY <3>1 DEF OrderInv, PlayedInv
    <3>4. HeldByRtp \subseteq Slots
      BY Capacity DEF SlotsInv, SlotsConserved
    <3> QED BY <1>2, <3>1, <3>2, <3>3, <3>4
  <2>2. CASE SeekFlush
    BY <1>1, <2>2 DEF SeekFlush
  <2> QED BY <2>1, <2>2
<1>4. NetworkInv'
  BY <1>0 DEF OrderInv, NetworkInv, Rising, Ahead, Above
<1>5. HeldInv'
  BY <1>0, <1>3 DEF OrderInv, HeldInv, Ahead, Above, LastPlayed, HeldByRtp
<1>6. BufferInv'
  BY <1>0, <1>3 DEF OrderInv, BufferInv
<1>7. PlayedInv'
  BY <1>0, <1>3 DEF OrderInv, PlayedInv, PlayedInOrder, LastPlayed
<1>8. FrameInv'
  BY <1>3 DEF FrameInv, Reading
<1> QED BY <1>4, <1>5, <1>6, <1>7, <1>8 DEF OrderInv

(* What a seek discards, and what arrives, is newer than what there is. *)
LEMMA SocketOrder ==
  ASSUME SlotsInv, OrderInv, SeekDiscard \/ Arrive \/ Bye
  PROVE  OrderInv'
<1>0. UNCHANGED <<queued, pkt, seen, played, rtp>>
  BY DEF SeekDiscard, Arrive, Bye, buffer, source, readerUnchanged, history
<1>1. /\ reader' = reader \/ (reader.pc = "discard" /\ reader'.pc = "clear")
  BY DEF SeekDiscard, Arrive, Bye, SlotsInv, Values
<1>2. BufferInv' /\ PlayedInv' /\ FrameInv'
  <2>1. BufferInv'
    BY <1>0 DEF OrderInv, BufferInv
  <2>2. PlayedInv'
    BY <1>0, <1>1 DEF OrderInv, PlayedInv, PlayedInOrder, LastPlayed
  <2>3. FrameInv'
    BY <1>0, <1>1 DEF OrderInv, FrameInv, IsOldest, Reading
  <2> QED BY <2>1, <2>2, <2>3
<1>3. sock \in Seq(Numbers) /\ net \in Seq(Numbers) /\ Numbers \subseteq Nat
  BY PlayoutAssumption DEF SlotsInv, Values, Numbers
<1>4. /\ seen \in Nat
      /\ rtp.pc \in {"check", "update_seq"} => pkt[rtp.slot] \in Nat
  BY HeldApart DEF SlotsInv, Values, TypeOK, Holding
<1>5. SUFFICES /\ Rising(sock') /\ Rising(net')
               /\ \A j \in 1 .. Len(sock') : sock'[j] # Bad => Above(net', sock'[j])
               /\ \A n \in Nat : Ahead(n) => Above(sock', n) /\ Above(net', n)
  <2>1. HeldInv'
    <3>1. HeldInv
      BY DEF OrderInv
    <3>2. \A n \in Nat : Ahead(n) => Ahead(n)'
      BY <1>5 DEF Ahead, Above
    <3>3. UNCHANGED <<LastPlayed, pkt, queued, seen, rtp>>
      BY <1>0 DEF LastPlayed
    <3>4. ASSUME rtp'.pc \in {"check", "update_seq"}, pkt'[rtp'.slot] # Bad
          PROVE  seen' < pkt'[rtp'.slot] /\ Ahead(pkt[rtp.slot])'
      <4>1. seen < pkt[rtp.slot] /\ Ahead(pkt[rtp.slot]) /\ pkt[rtp.slot] \in Nat
        BY <1>4, <3>1, <3>3, <3>4 DEF HeldInv
      <4>2. Above(sock', pkt[rtp.slot]) /\ Above(net', pkt[rtp.slot])
        BY <1>5, <4>1
      <4> QED BY <3>3, <4>1, <4>2 DEF Ahead, Above
    <3> QED BY <3>1, <3>3, <3>4 DEF HeldInv
  <2>2. NetworkInv'
    <3>1. Above(sock', seen) /\ Above(net', seen)
      BY <1>4, <1>5 DEF OrderInv, NetworkInv
    <3>2. Ahead(seen)'
      BY <1>0, <3>1 DEF Ahead, Above
    <3>3. (\A j \in 1 .. Len(sock) : sock[j] # Bad => Above(net, sock[j]))'
      BY <1>5 DEF Above
    <3>4. Rising(sock)' /\ Rising(net)'
      BY <1>5 DEF Rising
    <3> QED BY <3>2, <3>3, <3>4 DEF NetworkInv
  <2> QED BY <1>2, <2>1, <2>2 DEF OrderInv
<1>6. /\ Rising(sock) /\ Rising(net)
      /\ \A j \in 1 .. Len(sock) : sock[j] # Bad => Above(net, sock[j])
  BY DEF OrderInv, NetworkInv
<1>7. CASE SeekDiscard
  <2>1. sock # <<>> /\ sock' = Tail(sock) /\ net' = net
    BY <1>7 DEF SeekDiscard, readerUnchanged
  <2>2. /\ Rising(sock') /\ \A n \in Nat : Above(sock, n) => Above(sock', n)
        /\ Len(sock) \in Nat /\ Len(sock) > 0 /\ Len(sock') = Len(sock) - 1
        /\ \A k \in 1 .. Len(sock) - 1 : sock'[k] = sock[k + 1]
    BY <1>3, <1>6, <2>1, TailRises
  <2>3. \A j \in 1 .. Len(sock') : j + 1 \in 1 .. Len(sock) /\ sock'[j] = sock[j + 1]
    BY <2>2
  <2>4. \A j \in 1 .. Len(sock') : sock'[j] # Bad => Above(net', sock'[j])
    BY <1>6, <2>1, <2>3
  <2> QED BY <1>6, <2>1, <2>2, <2>4 DEF Ahead
<1>8. CASE Arrive
  <2>1. net # <<>> /\ sock' = Append(sock, Head(net)) /\ net' = Tail(net)
    BY <1>8 DEF Arrive
  <2>2. /\ Rising(net') /\ (net[1] # Bad => Above(net', net[1]))
        /\ \A n \in Nat : Above(net, n) => Above(net', n)
        /\ Head(net) = net[1] /\ 1 \in 1 .. Len(net)
    BY <1>3, <1>6, <2>1, TailRises
  <2>3. Head(net) \in Numbers
    BY <1>3, <2>1, HeadTailProperties
  <2>4. /\ Len(sock) \in Nat /\ Len(sock') = Len(sock) + 1 /\ sock'[Len(sock) + 1] = net[1]
        /\ \A k \in 1 .. Len(sock) : sock'[k] = sock[k] /\ sock[k] \in Nat
    <3>1. \A k \in 1 .. Len(sock) : sock[k] \in Nat
      BY <1>3, ElementOfSeq
    <3> QED BY <1>3, <2>1, <2>2, <2>3, <3>1, AppendProperties, LenProperties
  <2>5. Rising(sock')
    <3>1. \A k \in 1 .. Len(sock) : sock[k] # Bad /\ Head(net) # Bad => sock[k] < Head(net)
      BY <1>6, <2>2 DEF Above
    <3> QED BY <1>3, <1>6, <2>1, <2>3, <3>1, AppendRises
  <2>6. ASSUME NEW j \in 1 .. Len(sock'), sock'[j] # Bad PROVE Above(net', sock'[j])
    <3>1. CASE j \in 1 .. Len(sock)
      BY <1>6, <2>2, <2>4, <2>6, <3>1
    <3>2. CASE j = Len(sock) + 1
      BY <2>2, <2>4, <2>6, <3>2
    <3> QED BY <2>4, <3>1, <3>2
  <2>7. ASSUME NEW n \in Nat, Ahead(n) PROVE Above(sock', n) /\ Above(net', n)
    <3>1. Above(sock, n) /\ Above(net, n)
      BY <2>7 DEF Ahead
    <3>2. Above(sock', n)
      BY <2>2, <2>4, <3>1 DEF Above
    <3> QED BY <2>2, <3>1, <3>2
  <2> QED BY <2>2, <2>5, <2>6, <2>7
<1>9. CASE Bye
  <2>1. sock' = sock /\ net' = net
    BY <1>9 DEF Bye, network
  <2> QED BY <1>6, <2>1 DEF Ahead
<1> QED BY <1>7, <1>8, <1>9

(* Nothing has been sent, queued or played at the start. *)
LEMMA InitOrder == InOrderDeliveries /\ Init => OrderInv
<1> SUFFICES ASSUME InOrderDeliveries, Init PROVE OrderInv
  OBVIOUS
<1>1. net \in Seq(Numbers) /\ Rising(net) /\ Numbers \subseteq Nat
  BY PlayoutAssumption DEF Init, InOrderDeliveries, Numbers
<1>2. sock = <<>> /\ queued = {} /\ played = <<>> /\ seen = 0
  BY DEF Init
<1>3. Above(net, 0)
  <2>1. \A k \in 1 .. Len(net) : net[k] \in Nat
    BY <1>1, ElementOfSeq
  <2> QED BY <2>1 DEF Above, Bad
<1>4. NetworkInv
  BY <1>1, <1>2, <1>3 DEF NetworkInv, Rising, Above, Ahead
<1>5. HeldInv /\ BufferInv
  BY <1>2 DEF Init, HeldInv, BufferInv
<1>6. PlayedInv
  BY <1>2 DEF Init, PlayedInv, PlayedInOrder, LastPlayed
<1>7. FrameInv
  BY DEF Init, FrameInv, Reading
<1> QED BY <1>4, <1>5, <1>6, <1>7 DEF OrderInv

(* Every step keeps the order, and plays nothing but a packet of the frame that was
   announced. *)
LEMMA NextOrder ==
  ASSUME SlotsInv, OrderInv, [Next]_vars
  PROVE  /\ OrderInv'
         /\ played' # played => Timestamp(played'[Len(played')]) = reader.ts
<1>1. CASE RtpStep
  <2>1. OrderInv'
    BY <1>1, IdleOrder, RecvfromOrder, CheckOrder, UpdateSeqOrder, PoaddOrder DEF RtpStep
  <2>2. played' = played
    BY <1>1 DEF RtpStep, RtpSelect, RtpBpGet, RtpRecvfrom, RtpBadHeader, RtpCheckSeek,
       RtpUpdateSeq, RtpPoadd, RtpPktlen, rtpUnchanged, history
  <2> QED BY <2>1, <2>2
<1>2. CASE ReaderCopy
  BY <1>2, CopyOrder
<1>3. CASE \/ ReaderFillBuffers \/ ReaderPeek \/ ReaderGetPkt \/ ReaderPointer \/ ReaderRmPkt
           \/ SeekSelect \/ SeekMark
  <2>1. played' = played
    BY <1>3 DEF ReaderFillBuffers, ReaderPeek, ReaderGetPkt, ReaderPointer, ReaderRmPkt,
       SeekSelect, SeekMark
  <2> QED BY <1>3, <2>1, LooksOrder
<1>4. CASE ReaderBpRmv \/ SeekFlush
  <2>1. played' = played
    BY <1>4 DEF ReaderBpRmv, SeekFlush
  <2> QED BY <1>4, <2>1, RemovalsOrder
<1>5. CASE SeekDiscard \/ Arrive \/ Bye
  <2>1. played' = played
    BY <1>5 DEF SeekDiscard, Arrive, Bye, history
  <2> QED BY <1>5, <2>1, SocketOrder
<1>6. CASE UNCHANGED vars
  <2>1. UNCHANGED <<queued, pkt, sock, net, seen, played, rtp, reader>>
    BY <1>6 DEF vars, buffer, source, network, history
  <2>2. FrameInv'
    BY <2>1 DEF OrderInv, FrameInv, IsOldest, Reading
  <2> QED BY <2>1, <2>2, OrderStays DEF OrderInv, PlayedInv
<1> QED BY <1>1, <1>2, <1>3, <1>4, <1>5, <1>6 DEF Next, ReaderStep, Finished

(* rtp_rm_pkt removes the packet that rtp_get_pkt returned and the parser has copied,
   although each reads potail anew: whatever the network loses, as long as it does
   not reorder. *)
THEOREM RemovesRead == InOrderDeliveries => (Spec => []RemovesWhatItRead)
<1>1. SlotsInv /\ OrderInv => RemovesWhatItRead
  BY DEF SlotsInv, ReaderHas, Reading, OrderInv, PlayedInv, LastPlayed, RemovesWhatItRead
<1>2. InOrderDeliveries /\ Init => SlotsInv /\ OrderInv
  BY InitSlots, InitOrder
<1>3. SlotsInv /\ OrderInv /\ [Next]_vars => (SlotsInv /\ OrderInv)'
  BY NextSlots, NextOrder
<1> QED BY <1>1, <1>2, <1>3, PTL DEF Spec

(* Under the same condition the application gets the stream in the order it was
   sent, nothing twice, in whole frames, before and after any number of seeks. *)
THEOREM FramesSafe == InOrderDeliveries => (Spec => FramesInOrder)
<1>1. SlotsInv /\ OrderInv => PlayedInOrder
  BY DEF OrderInv, PlayedInv
<1>2. InOrderDeliveries /\ Init => SlotsInv /\ OrderInv
  BY InitSlots, InitOrder
<1>3. SlotsInv /\ OrderInv /\ [Next]_vars => (SlotsInv /\ OrderInv)'
  BY NextSlots, NextOrder
<1>4. SlotsInv /\ OrderInv /\ [Next]_vars
        => [played' # played => Timestamp(played'[Len(played')]) = reader.ts]_vars
  BY NextOrder
<1> QED BY <1>1, <1>2, <1>3, <1>4, PTL DEF Spec, FramesInOrder, FrameUniform
=============================================================================
