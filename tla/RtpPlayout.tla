----------------------------- MODULE RtpPlayout -----------------------------
(***************************************************************************)
(* The threads that share the buffers of one RTP session with one source:  *)
(* the RTP thread (rtp() and rtp_recv), the application's reader           *)
(* (rtp_fill_buffers, rtp_fill_buffer, a parser, rtp_rm_pkt, and rtsp_seek *)
(* between two frames, as the programs in example/ do), the RTCP thread    *)
(* that reports the end of the stream, and the network.                    *)
(*                                                                         *)
(* The pool is SlotPool.tla, which BufferPool.tla implements; the playout  *)
(* buffer is the priority queue of PlayoutOrder.tla: the set of its slots. *)
(* Each critical section is a step, and so is each unlocked access to a    *)
(* word that another thread writes.                                        *)
(***************************************************************************)
EXTENDS Integers, Sequences, FiniteSets

CONSTANTS SlotNum, Chunks,   \* as in SlotPool
          Prebuffer,    \* rtp_th->prebuffer_size
          Deliveries,   \* what the network may deliver: sequences of packet
                        \* numbers in sending order, 0 for a bad header
          MaxNumber,    \* the highest of them
          MaxSeeks      \* bound on the seeks

MaxSize == SlotNum * Chunks
Slots == 0 .. MaxSize - 1
Bad == 0
Nil == -1

ASSUME PlayoutAssumption ==
  /\ {SlotNum, Chunks} \subseteq Nat \ {0}
  /\ Prebuffer \in 1 .. MaxSize
  /\ MaxSeeks \in Nat
  /\ MaxNumber \in Nat
  /\ \A d \in Deliveries : d \in Seq(0 .. MaxNumber)

VARIABLES capacity, free,   \* the pool
          pkt,        \* packet in each slot; 0 when cleared
          pktlen,     \* pobuff[i].pktlen: the packet it is the length of
          queued,     \* slots of the playout buffer
          moved,      \* how often bpenlarge has moved bp->bufferpool
          locked,     \* rtp_th->syn, held until the prebuffering is over
          run,        \* rtp_th->run
          done_seek,  \* stm_src->done_seek
          seen,       \* last number rtp_update_seq saw, 0 before the first
          active,     \* is the source on the active queue?
          rtp,        \* the RTP thread: pc and local variables
          reader,     \* the reader: pc and local variables
          net, sock,  \* what is still to be delivered; the socket's buffer
          played,     \* history: the packets copied to the application
          arrived,    \* history: the last packet the network delivered
          fence,      \* history: the last one delivered before a seek
          seeks       \* history: how many seeks there were

pool == <<capacity, free>>
buffer == <<pkt, pktlen, queued, moved>>
source == <<done_seek, seen, active>>
network == <<net, sock>>
history == <<played, arrived, fence, seeks>>
vars == <<pool, buffer, source, locked, run, rtp, reader, network, history>>

Pool == INSTANCE SlotPool
flcount == capacity - Cardinality(free)

(* Faulty variant of potail; no specification uses it. *)
PotailNewest == IF queued = {} THEN Nil
                ELSE CHOOSE i \in queued : \A j \in queued : pkt[i] >= pkt[j]

(* po->potail, the oldest packet. *)
potail == IF queued = {} THEN Nil
          ELSE CHOOSE i \in queued : \A j \in queued : pkt[i] <= pkt[j]

(* Two packets in a row have the same timestamp: they make one frame. *)
Timestamp(n) == (n + 1) \div 2

Init ==
  /\ Pool!Init
  /\ pkt = [i \in Slots |-> 0]
  /\ pktlen = [i \in Slots |-> 0]
  /\ queued = {}
  /\ moved = 0
  /\ locked = TRUE
  /\ run = TRUE
  /\ done_seek = FALSE
  /\ seen = 0
  /\ active = FALSE
  /\ rtp = [pc |-> "select", slot |-> Nil, reset |-> FALSE]
  /\ reader = [pc |-> "fill_buffers", slot |-> Nil, base |-> 0, len |-> 0,
               ts |-> 0, more |-> FALSE]
  /\ net \in Deliveries
  /\ sock = <<>>
  /\ played = <<>>
  /\ arrived = 0
  /\ fence = 0
  /\ seeks = 0

-----------------------------------------------------------------------------
(* The RTP thread.                                                         *)

rtpUnchanged == <<run, reader, history>>

(* bpfree *)
BpFree(i) ==
  /\ Pool!Put({i})
  /\ pkt' = [pkt EXCEPT ![i] = 0]

Prebuffered == flcount >= Prebuffer

(* select returns because the socket is readable; rtp() opens the buffers to
   the reader once enough slots are taken, and calls rtp_recv. *)
RtpSelect ==
  /\ rtp.pc = "select"
  /\ sock # <<>>
  /\ locked' = (locked /\ ~ Prebuffered)
  /\ rtp' = [rtp EXCEPT !.pc = "bpget"]
  /\ UNCHANGED <<pool, buffer, source, network, rtpUnchanged>>

(* bpget; it sleeps while no slot is free and the pool cannot grow. *)
RtpBpGet(i) ==
  /\ rtp.pc = "bpget"
  /\ \/ Pool!Get(i) /\ UNCHANGED moved
     \/ Pool!GrowAndGet(i) /\ moved' = moved + 1
  /\ rtp' = [rtp EXCEPT !.pc = "recvfrom", !.slot = i]
  /\ UNCHANGED <<pkt, pktlen, queued, source, locked, network, rtpUnchanged>>

(* recvfrom fills the slot; it blocks if a seek has emptied the socket since
   select. *)
RtpRecvfrom ==
  /\ rtp.pc = "recvfrom"
  /\ sock # <<>>
  /\ pkt' = [pkt EXCEPT ![rtp.slot] = Head(sock)]
  /\ sock' = Tail(sock)
  /\ rtp' = [rtp EXCEPT !.pc = "check"]
  /\ UNCHANGED <<pool, pktlen, queued, moved, source, locked, net, rtpUnchanged>>

(* rtp_hdr_val_chk fails: the slot goes back. *)
RtpBadHeader ==
  /\ rtp.pc = "check"
  /\ pkt[rtp.slot] = Bad
  /\ BpFree(rtp.slot)
  /\ rtp' = [rtp EXCEPT !.pc = "select", !.slot = Nil]
  /\ UNCHANGED <<pktlen, queued, moved, source, locked, network, rtpUnchanged>>

(* rtp_ssrc_check, and for a known source the first look at done_seek: the
   statistics are reset if it is set. *)
RtpCheckSeek ==
  /\ rtp.pc = "check"
  /\ pkt[rtp.slot] # Bad
  /\ rtp' = [rtp EXCEPT !.pc = "update_seq", !.reset = seen # 0 /\ done_seek]
  /\ UNCHANGED <<pool, buffer, source, locked, network, rtpUnchanged>>

(* rtp_update_seq, which validates the source on its second packet in a row,
   and for a known source the second look at done_seek, which clears it. *)
RtpUpdateSeq ==
  /\ rtp.pc = "update_seq"
  /\ active' = (active \/ (seen # 0 /\ pkt[rtp.slot] = seen + 1))
  /\ seen' = pkt[rtp.slot]
  /\ done_seek' = (done_seek /\ seen = 0)
  /\ rtp' = [rtp EXCEPT !.pc = "poadd"]
  /\ UNCHANGED <<pool, buffer, locked, network, rtpUnchanged>>

(* poadd, and bpfree for a duplicate. *)
RtpPoadd ==
  /\ rtp.pc = "poadd"
  /\ \/ /\ \E i \in queued : pkt[i] = pkt[rtp.slot]
        /\ BpFree(rtp.slot)
        /\ rtp' = [rtp EXCEPT !.pc = "select", !.slot = Nil, !.reset = FALSE]
        /\ UNCHANGED queued
     \/ /\ \A i \in queued : pkt[i] # pkt[rtp.slot]
        /\ queued' = queued \cup {rtp.slot}
        /\ rtp' = [rtp EXCEPT !.pc = "pktlen"]
        /\ UNCHANGED <<pool, pkt>>
  /\ UNCHANGED <<pktlen, moved, source, locked, network, rtpUnchanged>>

(* pobuff[slot].pktlen = n, after poadd has let go of the list. *)
RtpPktlen ==
  /\ rtp.pc = "pktlen"
  /\ pktlen' = [pktlen EXCEPT ![rtp.slot] = pkt[rtp.slot]]
  /\ rtp' = [rtp EXCEPT !.pc = "select", !.slot = Nil, !.reset = FALSE]
  /\ UNCHANGED <<pool, pkt, queued, moved, source, locked, network, rtpUnchanged>>

RtpStep ==
  \/ RtpSelect
  \/ \E i \in Slots : RtpBpGet(i)
  \/ RtpRecvfrom
  \/ RtpBadHeader
  \/ RtpCheckSeek
  \/ RtpUpdateSeq
  \/ RtpPoadd
  \/ RtpPktlen

-----------------------------------------------------------------------------
(* The application's reader.                                               *)

readerUnchanged == <<locked, run, rtp, arrived, net>>

(* Faulty variants of operations of the reader; no specification uses them. *)
EndIgnoredWhileActive ==
  /\ reader.pc = "fill_buffers"
  /\ ~ locked
  /\ \/ ~ run /\ ~ (active /\ ~ done_seek) /\ reader' = [reader EXCEPT !.pc = "done"]
     \/ active /\ ~ done_seek /\ reader' = [reader EXCEPT !.pc = "peek"]
  /\ UNCHANGED <<pool, buffer, source, sock, played, fence, seeks, readerUnchanged>>

PeekNeedsTwo ==
  /\ reader.pc = "peek"
  /\ reader' = IF Cardinality(queued) < 2 THEN [reader EXCEPT !.pc = "fill_buffers"]
               ELSE [reader EXCEPT !.pc = "get_pkt", !.more = FALSE,
                                   !.ts = Timestamp(pkt[potail])]
  /\ UNCHANGED <<pool, buffer, source, sock, played, fence, seeks, readerUnchanged>>

PointerOfRemoved ==
  /\ reader.pc = "pointer"
  /\ Pool!Put({reader.slot})
  /\ queued' = queued \ {reader.slot}
  /\ reader' = [reader EXCEPT !.pc = "copy", !.len = pktlen[reader.slot],
                              !.base = moved]
  /\ UNCHANGED <<pkt, pktlen, moved, source, sock, played, fence, seeks, readerUnchanged>>

SameFrameAlways == TRUE

RemovableNewest == PotailNewest

BpRmvLeaks ==
  /\ reader.pc = "bprmv"
  /\ pkt' = [pkt EXCEPT ![reader.slot] = 0]
  /\ queued' = queued \ {reader.slot}
  /\ reader' = [reader EXCEPT !.pc = "get_pkt", !.slot = Nil, !.more = TRUE]
  /\ UNCHANGED <<pool, pktlen, moved, source, sock, played, fence, seeks, readerUnchanged>>

FlushKeepsQueue ==
  /\ reader.pc = "flush"
  /\ Pool!Put(queued)
  /\ reader' = [reader EXCEPT !.pc = "fill_buffers"]
  /\ UNCHANGED <<buffer, source, sock, played, fence, seeks, readerUnchanged>>

(* rtp_fill_buffers returns once the buffers are open, and says whether the
   stream has ended; otherwise rtp_fill_buffer is called for an active source,
   which returns RTP_BUFF_EMPTY as long as a seek is pending. *)
ReaderFillBuffers ==
  /\ reader.pc = "fill_buffers"
  /\ ~ locked
  /\ \/ ~ run /\ reader' = [reader EXCEPT !.pc = "done"]
     \/ run /\ active /\ ~ done_seek /\ reader' = [reader EXCEPT !.pc = "peek"]
  /\ UNCHANGED <<pool, buffer, source, sock, played, fence, seeks, readerUnchanged>>

(* The frame takes its timestamp from the packet at the tail. *)
ReaderPeek ==
  /\ reader.pc = "peek"
  /\ reader' = IF potail = Nil THEN [reader EXCEPT !.pc = "fill_buffers"]
               ELSE [reader EXCEPT !.pc = "get_pkt", !.more = FALSE,
                                   !.ts = Timestamp(pkt[potail])]
  /\ UNCHANGED <<pool, buffer, source, sock, played, fence, seeks, readerUnchanged>>

(* rtp_get_pkt, called by the parser, under po_mutex. *)
ReaderGetPkt ==
  /\ reader.pc = "get_pkt"
  /\ reader' = IF potail = Nil THEN [reader EXCEPT !.pc = "fill_buffers"]
               ELSE [reader EXCEPT !.pc = "pointer", !.slot = potail]
  /\ UNCHANGED <<pool, buffer, source, sock, played, fence, seeks, readerUnchanged>>

(* The rest of rtp_get_pkt, after po_mutex: the length and the address. *)
ReaderPointer ==
  /\ reader.pc = "pointer"
  /\ reader' = [reader EXCEPT !.pc = "copy", !.len = pktlen[reader.slot],
                              !.base = moved]
  /\ UNCHANGED <<pool, buffer, source, sock, played, fence, seeks, readerUnchanged>>

SameFrame == Timestamp(pkt[reader.slot]) = reader.ts

(* The loop of rtp_def_parser: copy the packet, or leave it for the next frame. *)
ReaderCopy ==
  /\ reader.pc = "copy"
  /\ \/ /\ reader.more => SameFrame
        /\ played' = Append(played, pkt[reader.slot])
        /\ reader' = [reader EXCEPT !.pc = "rm_pkt"]
     \/ /\ reader.more /\ ~ SameFrame
        /\ reader' = [reader EXCEPT !.pc = "fill_buffers"]
        /\ UNCHANGED played
  /\ UNCHANGED <<pool, buffer, source, sock, fence, seeks, readerUnchanged>>

(* rtp_rm_pkt reads potail without the mutex, to pass it to bprmv. *)
Removable == potail

ReaderRmPkt ==
  /\ reader.pc = "rm_pkt"
  /\ reader' = [reader EXCEPT !.pc = "bprmv", !.slot = Removable]
  /\ UNCHANGED <<pool, buffer, source, sock, played, fence, seeks, readerUnchanged>>

(* bprmv *)
ReaderBpRmv ==
  /\ reader.pc = "bprmv"
  /\ Pool!Put({reader.slot})
  /\ pkt' = [pkt EXCEPT ![reader.slot] = 0]
  /\ queued' = queued \ {reader.slot}
  /\ reader' = [reader EXCEPT !.pc = "get_pkt", !.slot = Nil, !.more = TRUE]
  /\ UNCHANGED <<pktlen, moved, source, sock, played, fence, seeks, readerUnchanged>>

(* rtsp_seek, once the server has answered PAUSE: mark the source. *)
SeekMark ==
  /\ reader.pc = "fill_buffers"
  /\ ~ locked /\ active /\ seeks < MaxSeeks
  /\ done_seek' = TRUE
  /\ fence' = arrived
  /\ seeks' = seeks + 1
  /\ reader' = [reader EXCEPT !.pc = "clear"]
  /\ UNCHANGED <<pool, buffer, seen, active, sock, played, readerUnchanged>>

(* socket_clear: select without waiting, then a recvfrom that does wait. *)
SeekSelect ==
  /\ reader.pc = "clear"
  /\ reader' = [reader EXCEPT !.pc = IF sock = <<>> THEN "flush" ELSE "discard"]
  /\ UNCHANGED <<pool, buffer, source, sock, played, fence, seeks, readerUnchanged>>

SeekDiscard ==
  /\ reader.pc = "discard"
  /\ sock # <<>>
  /\ sock' = Tail(sock)
  /\ reader' = [reader EXCEPT !.pc = "clear"]
  /\ UNCHANGED <<pool, buffer, source, played, fence, seeks, readerUnchanged>>

(* The rest of rtp_rm_all_pkts, under both mutexes; the slots keep their
   contents.  rtsp_seek then sends PLAY. *)
SeekFlush ==
  /\ reader.pc = "flush"
  /\ Pool!Put(queued)
  /\ queued' = {}
  /\ reader' = [reader EXCEPT !.pc = "fill_buffers"]
  /\ UNCHANGED <<pkt, pktlen, moved, source, sock, played, fence, seeks, readerUnchanged>>

ReaderStep ==
  \/ ReaderFillBuffers \/ ReaderPeek \/ ReaderGetPkt \/ ReaderPointer
  \/ ReaderCopy \/ ReaderRmPkt \/ ReaderBpRmv
  \/ SeekSelect \/ SeekDiscard \/ SeekFlush

-----------------------------------------------------------------------------
(* The network delivers a packet. *)
Arrive ==
  /\ net # <<>>
  /\ sock' = Append(sock, Head(net))
  /\ net' = Tail(net)
  /\ arrived' = IF Head(net) > arrived THEN Head(net) ELSE arrived
  /\ UNCHANGED <<pool, buffer, source, locked, run, rtp, reader, played, fence, seeks>>

(* rtcp_parse_bye, in the RTCP thread. *)
Bye ==
  /\ net = <<>>
  /\ run
  /\ run' = FALSE
  /\ UNCHANGED <<pool, buffer, source, locked, rtp, reader, network, history>>

(* The reader has left its loop, or a seek is stuck in socket_clear with nothing
   to come (SeekStartsPlaying, below). *)
Finished ==
  /\ reader.pc = "done" \/ (reader.pc = "discard" /\ sock = <<>> /\ net = <<>>)
  /\ UNCHANGED vars

Next == RtpStep \/ ReaderStep \/ SeekMark \/ Arrive \/ Bye \/ Finished

Fairness == WF_vars(RtpStep) /\ WF_vars(ReaderStep)

Spec == Init /\ [][Next]_vars /\ Fairness

(* recvfrom fails, as it does when an ICMP error is pending on the socket:
   rtp_recv returns and nothing remembers the slot. *)
RecvError ==
  /\ rtp.pc = "recvfrom"
  /\ rtp' = [rtp EXCEPT !.pc = "select", !.slot = Nil]
  /\ UNCHANGED <<pool, buffer, source, locked, network, rtpUnchanged>>

ErrorSpec == Init /\ [][Next \/ RecvError]_vars /\ Fairness

-----------------------------------------------------------------------------
TypeOK ==
  /\ capacity \in {SlotNum * k : k \in 1 .. Chunks}
  /\ free \subseteq 0 .. capacity - 1
  /\ queued \subseteq 0 .. capacity - 1
  /\ pkt \in [Slots -> Nat]
  /\ pktlen \in [Slots -> Nat]
  /\ {locked, run, done_seek, active} \subseteq BOOLEAN
  /\ rtp.slot \in Slots \cup {Nil}
  /\ reader.slot \in Slots \cup {Nil}

(* The slot the RTP thread has between bpget and poadd. *)
HeldByRtp ==
  IF rtp.pc \in {"recvfrom", "check", "update_seq", "poadd"} THEN {rtp.slot} ELSE {}

(* Between them the free list, the playout buffer and the RTP thread have every
   slot, each exactly once: nothing that rtp_recv, the parsers and a seek do
   with slots in turn loses one, frees one twice or reuses one that is queued. *)
SlotsConserved ==
  /\ free \cup queued \cup HeldByRtp = 0 .. capacity - 1
  /\ free \cap queued = {}
  /\ (free \cup queued) \cap HeldByRtp = {}

(* rtp_buffer.c:199 lets a parser read a packet without a mutex: the slot it
   reads is not given back, refilled or moved out of the queue under it. *)
ReaderSlotQueued ==
  reader.pc \in {"pointer", "copy", "rm_pkt"} => reader.slot \in queued

(* Each slot is in one place, and the one under the reader's hands is queued. *)
SlotsOK == TypeOK /\ SlotsConserved /\ ReaderSlotQueued

(* rtp_buffer.c:197 and 235: the packet rtp_rm_pkt removes is the one that
   rtp_get_pkt returned and the parser has copied. *)
RemovesWhatItRead ==
  reader.pc = "bprmv" =>
    reader.slot \in queued /\ pkt[reader.slot] = played[Len(played)]

(* The application gets the stream in the order it was sent, nothing twice,
   before and after a seek. *)
PlayedInOrder ==
  \A k \in 1 .. Len(played) - 1 : played[k] < played[k + 1]

(* All the packets of a frame have the timestamp rtp_fill_buffer reported for
   it, which it read from a packet the parser looked up once more. *)
FrameUniform ==
  [][played' # played => Timestamp(played'[Len(played')]) = reader.ts]_vars

(* What the application gets is a sequence of whole frames in their order. *)
FramesInOrder == []PlayedInOrder /\ FrameUniform

(* The RTP thread does not leave a packet on the socket for ever. *)
DataReceived == sock # <<>> ~> (sock = <<>> \/ reader.pc = "done")

(* Once the prebuffering or a seek is over, every packet in the playout buffer is played,
   until the stream is, unless another seek intervenes. *)
Played(n) == \E k \in DOMAIN played : played[k] = n
Playable(n) == ~ locked /\ ~ done_seek /\ \E i \in queued : pkt[i] = n
PlayedEventually ==
  \A n \in 1 .. MaxNumber :
    Playable(n) ~> (Played(n) \/ reader.pc \in {"done", "discard", "flush"})

(* rtp_buffer.c:34-35, "reports if the stream reached the end": after a BYE
   rtp_fill_buffers tells the application so, unless it is held up in a seek
   (SeekStartsPlaying, below). *)
EndReported == ~ run ~> reader.pc \in {"done", "discard"}

-----------------------------------------------------------------------------
(* What comments in the code say and the runs that follow refute.          *)

(* rtp_recv.c:314, "Duplicate packet found... discarded": nothing is played
   twice. *)
PlayedOnce == \A j, k \in DOMAIN played : played[j] = played[k] => j = k

(* rtp_buffer.c:204, "len this is a return parameter for lenght of pkt". *)
LenMatches == reader.pc = "copy" => reader.len = pkt[reader.slot]

(* rtp_buffer.c:199-202: the address rtp_get_pkt returns points to the packet,
   without a lock, because there is only one reader. *)
PointerValid == reader.pc = "copy" => reader.base = moved

(* rtp_buffer.c:60-62: after a seek the reader waits until rtp_recv gets the
   first new packet; it does not play one that arrived before the seek. *)
OnlyNewAfterSeek == [][played' # played => played'[Len(played')] > fence]_vars

(* rtsp.c:637, on rtsp_seek: "Starts playing the given new range of the
   stream".  It gets past the clearing of the socket to send PLAY. *)
SeekStartsPlaying == reader.pc = "clear" ~> reader.pc = "fill_buffers"
=============================================================================
