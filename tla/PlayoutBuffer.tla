--------------------------- MODULE PlayoutBuffer ---------------------------
(***************************************************************************)
(* The playout buffer as a queue in sequence order: poadd's search for the *)
(* place of a packet, with the cycle counts rtp_update_seq gives it, over  *)
(* the list of PlayoutList.tla; the application that plays the tail; and   *)
(* the flush of a seek.                                                    *)
(*                                                                         *)
(* A packet is identified by its true number, in the order sent; the code  *)
(* sees only that number's low 16 bits.  A free slot stands for bpget; the *)
(* steps inside rtp_recv and between threads are in RtpPlayout.tla.        *)
(***************************************************************************)
EXTENDS PlayoutList, RtpSequence, FiniteSets

CONSTANT Deliveries   \* sequences of true numbers the network may deliver

ASSUME DeliveriesAssumption == /\ \A d \in Deliveries : d \in Seq(Nat \ {0})
                               /\ IsFiniteSet(Slots)

VARIABLES pkt,        \* true number of the packet in each slot, 0 when cleared
          pocycles,   \* po->cycles
          stats,      \* stm_src->ssrc_stats
          known,      \* has rtp_ssrc_check created the source?
          done_seek,
          net         \* what is still to be delivered

vars == <<listVars, pkt, pocycles, stats, known, done_seek, net>>

SEQ_MAX_JUMP == 61440     \* 0xF000
SEQ_MAX_NUMBER == 4096    \* 0x1000

Init ==
  /\ ListInit
  /\ pkt = [i \in Slots |-> 0]
  /\ pocycles = 0
  /\ stats = ZeroStats
  /\ known = FALSE
  /\ done_seek = FALSE
  /\ net \in Deliveries

(* The sequence number of packet n extended by a cycle count. *)
Extended(n, cycles) == (SeqOf(n) + cycles) % Word

-----------------------------------------------------------------------------
(* Does the sequence number wrap between slot i and the next, older one?  At
   the end of the list poadd looks in front of the pool's memory; what it
   reads there is not used, because the search ends. *)
Wraps(i) == next[i] # Nil /\ SeqOf(pkt[next[i]]) - SeqOf(pkt[i]) >= SEQ_MAX_JUMP

(* Faulty variant of Search; no specification uses it. *)
SearchIgnoresCycles(cseq) ==
  LET turn[k \in 0 .. Cardinality(Slots)] ==
        IF k = 0 THEN pohead
        ELSE LET i == turn[k - 1] IN
             IF i = Nil \/ SeqOf(pkt[i]) <= cseq % RTP_SEQ_MOD THEN i ELSE next[i]
  IN [at |-> turn[Cardinality(Slots)], cycles |-> pocycles]

(* A turn of the loop of poadd, which goes past a packet that extends to more
   than cseq. *)
Turn(cseq, t) ==
  IF t.at = Nil \/ Extended(pkt[t.at], t.cycles) <= cseq THEN t
  ELSE [at |-> next[t.at],
        cycles |-> IF Wraps(t.at) THEN (t.cycles - SEQ_MAX_NUMBER) % Word ELSE t.cycles]

(* The search of poadd, from the head. *)
Search(cseq) ==
  LET turn[k \in 0 .. Cardinality(Slots)] ==
        IF k = 0 THEN [at |-> pohead, cycles |-> pocycles] ELSE Turn(cseq, turn[k - 1])
  IN  turn[Cardinality(Slots)]

(* poadd, followed by what rtp_recv does with its result: a duplicate goes
   back to the pool, which clears the slot. *)
PoAdd(i, n, cycles) ==
  LET cseq == Extended(n, cycles)
      stop == Search(cseq)
  IN  \/ /\ stop.at # Nil
         /\ Extended(pkt[stop.at], stop.cycles) = cseq
         /\ UNCHANGED <<listVars, pkt, pocycles>>
      \/ /\ stop.at # Nil => Extended(pkt[stop.at], stop.cycles) # cseq
         /\ Insert(i, stop.at)
         /\ pkt' = [pkt EXCEPT ![i] = n]
         /\ pocycles' = IF stop.at = pohead THEN cycles ELSE pocycles

(* The source's statistics before rtp_update_seq looks at the packet. *)
Prepared(seq) ==
  IF ~ known THEN FirstPacket(stats, seq)
  ELSE IF done_seek THEN SeekReset(stats, seq) ELSE stats

(* rtp_recv takes the next packet from the network into a free slot. *)
Receive(i) ==
  /\ net # <<>>
  /\ net' = Tail(net)
  /\ stats' = UpdateSeq(Prepared(SeqOf(Head(net))), SeqOf(Head(net)))
  /\ PoAdd(i, Head(net), stats'.cycles)
  /\ known' = TRUE
  /\ done_seek' = (done_seek /\ ~ known)

(* The application plays the tail and removes it: rtp_get_pkt, rtp_rm_pkt. *)
PlayPkt ==
  /\ potail # Nil
  /\ Remove(potail)
  /\ pkt' = [pkt EXCEPT ![potail] = 0]
  /\ UNCHANGED <<pocycles, stats, known, done_seek, net>>

(* rtsp_seek on a source that exists: done_seek, then rtp_rm_all_pkts, which
   reads the socket empty and leaves the slots' contents as they are. *)
Seek ==
  /\ known
  /\ done_seek' = TRUE
  /\ RemoveAll
  /\ \E k \in 1 .. Len(net) + 1 : net' = SubSeq(net, k, Len(net))
  /\ UNCHANGED <<pkt, pocycles, stats, known>>

Done == net = <<>> /\ order = <<>> /\ UNCHANGED vars

Next ==
  \/ \E i \in Slots \ Queued : Receive(i)
  \/ PlayPkt
  \/ Seek
  \/ Done

Spec == Init /\ [][Next]_vars

-----------------------------------------------------------------------------
(* The cycle counters stay uint32_t values and the contents packet numbers. *)
TypeOK ==
  /\ ListTypeOK
  /\ pkt \in [Slots -> Nat]
  /\ pocycles \in 0 .. Word - 1
  /\ stats.cycles \in 0 .. Word - 1
  /\ stats.max_seq \in 0 .. RTP_SEQ_MOD - 1
  /\ stats.probation \in 0 .. MIN_SEQUENTIAL
  /\ {known, done_seek} \subseteq BOOLEAN

(* Insertions in the middle, removals at either end, of whatever is played or
   comes twice, and flushes keep one list, linked both ways and counted. *)
ListOK == TypeOK /\ DoublyLinked /\ PocountExact

(* poadd.c:33, "the insertion is ordered by the sequence number of the RTP
   packet": from head to tail the buffer holds ever older packets, whatever
   order they arrived in and although the code sees 16 bits of a number. *)
InPlayOrder ==
  \A k \in 1 .. Len(order) - 1 : pkt[order[k]] > pkt[order[k + 1]]

(* The application plays the oldest packet that is waiting, once. *)
Waiting == {pkt[i] : i \in Queued}
AllNumbers == UNION {{d[k] : k \in DOMAIN d} : d \in Deliveries}
Promise == INSTANCE PlayoutOrder WITH Numbers <- AllNumbers, waiting <- Waiting
PlaysOldestFirst == Promise!Spec
=============================================================================
