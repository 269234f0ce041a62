---------------------------- MODULE RtpSequence ----------------------------
(***************************************************************************)
(* The sequence-number bookkeeping of an RTP source: struct rtp_ssrc_stats *)
(* and the functions of src/rtp/rtp_recv.c that maintain it, as operators  *)
(* on a record.  A sequence number on the wire is true number % 65536.     *)
(***************************************************************************)
EXTENDS Integers

CONSTANT Word   \* 2^32, the modulus of a uint32_t; smaller for TLC, whose own
                \* integers have 32 bits

RTP_SEQ_MOD == 65536

ASSUME WordAssumption == Word \in Nat /\ Word >= RTP_SEQ_MOD

MIN_SEQUENTIAL == 2
MAX_DROPOUT == 3000
MAX_MISORDER == 100

(* Faulty variant of SeqOf; no specification uses it. *)
SeqUntruncated(n) == n

(* The seq field of a sender's packet number n. *)
SeqOf(n) == n % RTP_SEQ_MOD

(* A source rtp_ssrc_init has allocated and nothing has updated. *)
ZeroStats ==
  [max_seq |-> 0, cycles |-> 0, base_seq |-> 0, bad_seq |-> 0, probation |-> 0,
   received |-> 0, expected_prior |-> 0, received_prior |-> 0]

(* SSRC_NEW and SSRC_RTPNEW: the first packet starts the probation. *)
FirstPacket(st, seq) ==
  [st EXCEPT !.probation = MIN_SEQUENTIAL, !.max_seq = (seq - 1) % RTP_SEQ_MOD]

(* The part of rtp_init_seq, and of the reset after a seek, that they share. *)
Restarted(st, seq) ==
  [st EXCEPT !.base_seq = (seq - 1) % Word, !.max_seq = seq,
             !.bad_seq = RTP_SEQ_MOD + 1, !.cycles = 0, !.received = 0,
             !.received_prior = 0, !.expected_prior = 1]

(* The first packet after a seek ends any probation. *)
SeekReset(st, seq) == [Restarted(st, seq) EXCEPT !.probation = 0]

-----------------------------------------------------------------------------
(* The cases of rtp_update_seq.                                            *)

UDelta(st, seq) == (seq - st.max_seq) % RTP_SEQ_MOD

(* seq == max_seq + 1 is compared as int: 0 does not follow 65535. *)
Follows(st, seq) == seq = st.max_seq + 1

Received(st) == [st EXCEPT !.received = @ + 1]

(* Faulty variant of Advanced; no specification uses it. *)
AdvancedNoWrap(st, seq) == Received([st EXCEPT !.max_seq = seq])

(* In sequence, with a gap that is still permissible. *)
InOrder(st, seq) == UDelta(st, seq) < MAX_DROPOUT

(* A very large jump. *)
Jumped(st, seq) == /\ ~ InOrder(st, seq)
                   /\ UDelta(st, seq) <= RTP_SEQ_MOD - MAX_MISORDER

(* rtp_init_seq runs, and puts the source on the active queue, when the second
   packet in a row ends the probation or confirms a jump. *)
RunsInitSeq(st, seq) ==
  \/ st.probation = 1 /\ Follows(st, seq)
  \/ st.probation = 0 /\ Jumped(st, seq) /\ seq = st.bad_seq

OnProbation(st, seq) ==
  [st EXCEPT !.probation = IF Follows(st, seq) THEN @ - 1 ELSE MIN_SEQUENTIAL - 1,
             !.max_seq = seq]

InitSeq(st, seq) == Received([Restarted(st, seq) EXCEPT !.probation = 0])

Advanced(st, seq) ==
  Received([st EXCEPT !.cycles = IF seq < st.max_seq THEN (@ + RTP_SEQ_MOD) % Word ELSE @,
                      !.max_seq = seq])

Suspected(st, seq) == [st EXCEPT !.bad_seq = (seq + 1) % RTP_SEQ_MOD]

(* rtp_update_seq *)
UpdateSeq(st, seq) ==
  CASE RunsInitSeq(st, seq) -> InitSeq(st, seq)
    [] st.probation # 0 /\ ~ RunsInitSeq(st, seq) -> OnProbation(st, seq)
    [] st.probation = 0 /\ InOrder(st, seq) -> Advanced(st, seq)
    [] st.probation = 0 /\ Jumped(st, seq) /\ seq # st.bad_seq -> Suspected(st, seq)
    [] OTHER -> Received(st)   \* duplicate or reordered
=============================================================================
