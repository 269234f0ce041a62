--------------------------- MODULE ActiveSources ---------------------------
(***************************************************************************)
(* The sources of one RTP session as the RTP thread validates them: their  *)
(* sequence statistics (RtpSequence.tla), the active queue rtp_init_seq    *)
(* builds and the application iterates over, and the loss the receiver     *)
(* reports tell the sender (RtcpReport.tla).                               *)
(*                                                                         *)
(* Each sender counts its packets with a true number; the network may      *)
(* lose, duplicate and reorder them within Window.                         *)
(***************************************************************************)
EXTENDS RtcpReport, FiniteSets

CONSTANTS Sources,   \* SSRCs that send to the session
          None,      \* the null pointer
          First,     \* true number of a sender's first packet
          Last,      \* and of its last one: bounds the run
          Window,    \* by how much a packet may be early or late
          MaxReceived  \* bound on the packets counted for a source

ASSUME SourcesAssumption == /\ IsFiniteSet(Sources)
                            /\ None \notin Sources
                            /\ {First, Last, Window, MaxReceived} \subseteq Nat
                            /\ Window < First /\ First <= Last
                            /\ Window < MAX_MISORDER

VARIABLES stats, known,     \* per source: ssrc_stats; is it on ssrc_queue?
          done_seek,        \* stm_src->done_seek
          next_active,      \* stm_src->next_active
          active_queue,     \* rtp_sess->active_ssrc_queue
          sent,             \* history: highest true number each sender sent
          base,             \* history: the number statistics restarted from
          top,              \* history: the highest received since then
          told              \* history: top, and how many were received, at the
                            \* last report

vars == <<stats, known, done_seek, next_active, active_queue, sent, base, top,
          told>>

Init ==
  /\ stats = [s \in Sources |-> ZeroStats]
  /\ known = {}
  /\ done_seek = {}
  /\ next_active = [s \in Sources |-> None]
  /\ active_queue = None
  /\ sent = [s \in Sources |-> First]
  /\ base = [s \in Sources |-> 0]
  /\ top = [s \in Sources |-> 0]
  /\ told = [s \in Sources |-> [top |-> 0, got |-> 0]]

-----------------------------------------------------------------------------
(* Faulty variants of the operations below; no specification uses them.    *)
PreparedNoReset(s, seq) == IF s \notin known THEN FirstPacket(stats[s], seq) ELSE stats[s]
EnqueueDropsTail(s) == /\ active_queue' = s
                       /\ UNCHANGED next_active
-----------------------------------------------------------------------------

(* What rtp_recv does to a source's statistics before rtp_update_seq. *)
Prepared(s, seq) ==
  IF s \notin known THEN FirstPacket(stats[s], seq)
  ELSE IF s \in done_seek THEN SeekReset(stats[s], seq)
  ELSE stats[s]

(* The end of rtp_init_seq: the source becomes the head of the active queue. *)
Enqueue(s) ==
  /\ next_active' = [next_active EXCEPT ![s] = active_queue]
  /\ active_queue' = s

(* rtp_recv handles packet n of source s. *)
Handle(s, n) ==
  LET seq == SeqOf(n)
      st == Prepared(s, seq)
      restarts == RunsInitSeq(st, seq) \/ s \in known \cap done_seek
  IN  /\ stats' = [stats EXCEPT ![s] = UpdateSeq(st, seq)]
      /\ IF RunsInitSeq(st, seq) THEN Enqueue(s)
                                 ELSE UNCHANGED <<next_active, active_queue>>
      /\ known' = known \cup {s}
      /\ done_seek' = done_seek \ (known \cap {s})
      /\ base' = IF restarts THEN [base EXCEPT ![s] = n] ELSE base
      /\ top' = IF restarts \/ n > top[s] THEN [top EXCEPT ![s] = n] ELSE top
      /\ told' = IF restarts THEN [told EXCEPT ![s] = [top |-> n - 1, got |-> 0]]
                 ELSE told

(* A packet arrives that is at most Window away from the newest one sent. *)
Receive(s) ==
  \E n \in (sent[s] - Window) .. (sent[s] + Window) :
    /\ stats[s].received < MaxReceived
    /\ First <= n /\ n <= Last
    /\ sent' = [sent EXCEPT ![s] = IF n > @ THEN n ELSE @]
    /\ Handle(s, n)

(* What an iteration with rtp_active_ssrc_queue and rtp_next_active_ssrc has
   visited after k steps in a session that is the last one. *)
Visit[k \in 0 .. Cardinality(Sources)] ==
  IF k = 0 THEN active_queue
  ELSE IF Visit[k - 1] = None THEN None ELSE next_active[Visit[k - 1]]

Visited == {Visit[k] : k \in 0 .. Cardinality(Sources)} \ {None}

(* rtsp_seek marks every active source. *)
Seek ==
  /\ Visited # {}
  /\ done_seek' = done_seek \cup Visited
  /\ UNCHANGED <<stats, known, next_active, active_queue, sent, base, top, told>>

(* rtcp_send_rr: a report block for each source that was heard since the last
   report. *)
Report ==
  /\ \E s \in Sources : Heard(stats[s])
  /\ stats' = [s \in Sources |->
       IF Heard(stats[s]) THEN Reported(stats[s]) ELSE stats[s]]
  /\ told' = [s \in Sources |->
       IF Heard(stats[s]) THEN [top |-> top[s], got |-> stats[s].received]
       ELSE told[s]]
  /\ UNCHANGED <<known, done_seek, next_active, active_queue, sent, base, top>>

Next == (\E s \in Sources : Receive(s)) \/ Seek \/ Report

Spec == Init /\ [][Next]_vars

(* A sender that restarts, from another sequence number far away. *)
Restart(s) ==
  \E n \in {First + 2 * MAX_DROPOUT, First + 2 * MAX_DROPOUT + 1} :
    /\ sent' = [sent EXCEPT ![s] = IF n > @ THEN n ELSE @]
    /\ Handle(s, n)

RestartSpec == Init /\ [][Next \/ \E s \in Sources : Restart(s)]_vars

-----------------------------------------------------------------------------
Active == {s \in known : stats[s].probation = 0}

TypeOK ==
  /\ \A s \in Sources : /\ stats[s].max_seq \in 0 .. RTP_SEQ_MOD - 1
                        /\ stats[s].cycles \in 0 .. Word - 1
                        /\ stats[s].probation \in 0 .. MIN_SEQUENTIAL
  /\ known \subseteq Sources
  /\ done_seek \subseteq known
  /\ next_active \in [Sources -> Sources \cup {None}]
  /\ active_queue \in Sources \cup {None}

(* cycles + max_seq, which RTCP reports as the extended highest sequence
   number and poadd sorts by, advances exactly as the sender's own count does
   from the packet the statistics started at: no wrap is missed, and none is
   counted twice when packets straddle it out of order. *)
ExtendedExact ==
  \A s \in Active :
    stats[s].cycles + stats[s].max_seq - SeqOf(base[s]) = top[s] - base[s]

(* The 16-bit words of the statistics stay in range and encode that count. *)
StatsOK == TypeOK /\ ExtendedExact

(* The application's iteration over the active queue ends, and reaches every
   validated source and no other. *)
ActiveListExact ==
  /\ Visit[Cardinality(Sources)] = None
  /\ Visited = Active

(* Loss as the report block tells it, from counters that wrap, that packets
   reach out of order and twice and that a seek restarts, against the sender's
   own numbers: the total since the statistics started, and the share of the
   packets sent since the last report. *)
LostExact ==
  \A s \in Active : Heard(stats[s]) =>
    Block(stats[s]).lost = (top[s] - base[s] + 1) - stats[s].received

Gone(s) == (top[s] - told[s].top) - (stats[s].received - told[s].got)

FractionExact ==
  \A s \in Active : Heard(stats[s]) /\ Gone(s) >= 0 =>
    Block(stats[s]).fraction =
      IF Gone(s) = 0 THEN 0 ELSE (256 * Gone(s)) \div (top[s] - told[s].top)

(* A report block tells the loss as the sender would, in total and for the
   time since the last one (rtcp_build_rr). *)
ReportExact == LostExact /\ FractionExact

(* rtcp_report.c:73 tests "lost_interval <= 0": an interval with more packets
   than numbers, because some came twice or late, shows no loss. *)
NoLossNoFraction ==
  \A s \in Active : Heard(stats[s]) /\ Gone(s) < 0 => Block(stats[s]).fraction = 0

(* rtp_ssrc_queue.c:51, on rtp_next_active_ssrc: "The next active source or
   NULL if ssrc was the last one", so that a loop over the sources ends. *)
IterationEnds == Visit[Cardinality(Sources)] = None
=============================================================================
