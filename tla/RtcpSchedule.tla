---------------------------- MODULE RtcpSchedule ----------------------------
(***************************************************************************)
(* The RTCP thread of an RTP thread: rtcp(), its queue of events, one      *)
(* receiver report in it per session, and the interval between reports.    *)
(*                                                                         *)
(* Time is counted in seconds. An event is kept with the time it is due    *)
(* in, 0 when it is due or overdue: rtcp_schedule compares events only     *)
(* with a new one, which is never due at once, so how long an event is     *)
(* overdue decides nothing. The thread is fast: a second passes only while *)
(* it sleeps in select.                                                    *)
(***************************************************************************)
EXTENDS Integers, SequencesExt

CONSTANTS N,            \* number of sessions, in the order of their list
          Bandwidth,    \* BANDWIDTH, bytes per second
          Size,         \* avg_rtcp_size, taken as constant
          Draws,        \* results of drand48(), in hundredths
          MaxMembers,   \* bound on the members of a session
          Growing,      \* sessions that get new members
          Limit         \* bound on the history gap

Sessions == 1 .. N

ASSUME ScheduleAssumption == /\ {N, Bandwidth, Size, MaxMembers} \subseteq Nat \ {0}
                             /\ Bandwidth >= 2   \* 3/4 of it are at least a byte
                             /\ Draws \subseteq 0 .. 99 /\ Draws # {}
                             /\ Growing \subseteq Sessions /\ Limit \in Nat

VARIABLES queue,     \* the events: [sess |-> session, due |-> seconds]
          started,   \* sessions rtcp() has scheduled before its loop
          members, senders, initial,  \* sess_stats
          readable,  \* sessions whose RTCP socket has a packet
          quiet,     \* has no packet arrived in this second?
          alive,     \* the thread
          gap        \* history: seconds since the session's last report

stats == <<members, senders, initial>>
vars == <<queue, started, stats, readable, quiet, alive, gap>>

Init ==
  /\ queue = <<>>
  /\ started = 0
  /\ members = [s \in Sessions |-> 1]
  /\ senders = [s \in Sessions |-> 0]
  /\ initial = [s \in Sessions |-> TRUE]
  /\ readable = {}
  /\ quiet = TRUE
  /\ alive = TRUE
  /\ gap = [s \in Sessions |-> 0]

-----------------------------------------------------------------------------
(* Faulty variants of the operations below; no specification uses them.    *)
ScheduleDrops(q, e) ==
  LET notEarlier == {i \in DOMAIN q : q[i].due >= e.due}
  IN  IF q = <<>> THEN <<e>>
      ELSE IF notEarlier = {} THEN q
      ELSE InsertAt(q, Min(notEarlier), e)
ScheduleInFront(q, e) == <<e>> \o q
-----------------------------------------------------------------------------

(* rtcp_interval for m members, n of which send, in hundredths before the
   draw and whole seconds after it. This client never sends. *)
IntervalOf(m, n, first, draw) ==
  LET shared == n > 0 /\ 4 * n < m
      receivers == IF shared THEN m - n ELSE m
      share == IF shared THEN (3 * Bandwidth) \div 4 ELSE Bandwidth
      t == Max({IF first THEN 250 ELSE 500, (100 * Size * receivers) \div share})
  IN  (t * (draw + 50)) \div 12183

Interval(s, draw) == IntervalOf(members[s], senders[s], initial[s], draw)

(* rtcp_schedule: the walk stops at the first event that is not earlier. The
   test whether it has left the head also holds when it stands right after
   the head; the new event then becomes the head. *)
Schedule(q, e) ==
  LET notEarlier == {i \in DOMAIN q : q[i].due >= e.due}
  IN  IF notEarlier = {} THEN Append(q, e)
      ELSE IF Min(notEarlier) <= 2 THEN <<e>> \o q
      ELSE InsertAt(q, Min(notEarlier), e)

(* rtcp_deschedule *)
Descheduled == Tail(queue)

Event(s, draw) == [sess |-> s, due |-> Interval(s, draw)]

-----------------------------------------------------------------------------
(* rtcp(), before its loop: the first report of each session. *)
Start ==
  /\ alive /\ started < N
  /\ started' = started + 1
  /\ \E draw \in Draws : queue' = Schedule(queue, Event(started', draw))
  /\ UNCHANGED <<stats, readable, quiet, alive, gap>>

Sleeping == alive /\ started = N

(* select times out: rtcp_handle_event sends the report at the head and
   schedules the session's next one. *)
HandleEvent ==
  /\ Sleeping /\ readable = {}
  /\ queue[1].due = 0
  /\ LET s == queue[1].sess
     IN  /\ \E draw \in Draws : queue' = Schedule(Descheduled, Event(s, draw))
         /\ initial' = [initial EXCEPT ![s] = FALSE]
         /\ gap' = [gap EXCEPT ![s] = 0]
  /\ UNCHANGED <<started, members, senders, readable, quiet, alive>>

(* select finds sockets readable, and rtcp_recv takes a packet from each,
   perhaps of a new source, perhaps a sender report; no event is handled. *)
Receive ==
  /\ Sleeping /\ readable # {}
  /\ \E new \in SUBSET {s \in readable \cap Growing : members[s] < MaxMembers} :
     \E sr \in SUBSET new :
       /\ members' = [s \in Sessions |-> members[s] + (IF s \in new THEN 1 ELSE 0)]
       /\ senders' = [s \in Sessions |-> senders[s] + (IF s \in sr THEN 1 ELSE 0)]
  /\ readable' = {}
  /\ UNCHANGED <<queue, started, initial, quiet, alive, gap>>

(* rtsp_clean cancels the thread, which frees its events. *)
Cancel ==
  /\ Sleeping
  /\ alive' = FALSE
  /\ queue' = <<>>
  /\ UNCHANGED <<started, stats, readable, quiet, gap>>

Cancelled == ~ alive /\ UNCHANGED vars

(* A server's RTCP packets are seconds apart: one of them a second. *)
Arrive(s) ==
  /\ Sleeping /\ quiet
  /\ readable' = readable \cup {s}
  /\ quiet' = FALSE
  /\ UNCHANGED <<queue, started, stats, alive, gap>>

(* Faulty variant of Tick; no specification uses it. *)
TickBeyond ==
  /\ Sleeping /\ readable = {}
  /\ queue' = [i \in DOMAIN queue |-> [queue[i] EXCEPT !.due = @ - 1]]
  /\ gap' = [s \in Sessions |-> IF gap[s] < Limit THEN gap[s] + 1 ELSE Limit]
  /\ quiet' = TRUE
  /\ UNCHANGED <<started, stats, readable, alive>>

Tick ==
  /\ Sleeping /\ readable = {} /\ queue[1].due > 0
  /\ queue' = [i \in DOMAIN queue |->
                 [queue[i] EXCEPT !.due = IF @ > 0 THEN @ - 1 ELSE 0]]
  /\ gap' = [s \in Sessions |-> IF gap[s] < Limit THEN gap[s] + 1 ELSE Limit]
  /\ quiet' = TRUE
  /\ UNCHANGED <<started, stats, readable, alive>>

Next == \/ Start \/ HandleEvent \/ Receive \/ Cancel \/ Cancelled \/ Tick
        \/ \E s \in Sessions : Arrive(s)

Spec == Init /\ [][Next]_vars
             /\ WF_vars(Start) /\ WF_vars(HandleEvent) /\ WF_vars(Receive)
             /\ WF_vars(Tick)

-----------------------------------------------------------------------------
Longest == Max({IntervalOf(m, n, FALSE, draw) :
                  m \in 1 .. MaxMembers, n \in 0 .. MaxMembers, draw \in Draws})

TypeOK ==
  /\ queue \in Seq([sess : Sessions, due : 0 .. Longest])
  /\ started \in 0 .. N
  /\ members \in [Sessions -> 1 .. MaxMembers]
  /\ senders \in [Sessions -> 0 .. MaxMembers]
  /\ initial \in [Sessions -> BOOLEAN]
  /\ readable \subseteq Sessions
  /\ gap \in [Sessions -> 0 .. Limit]

(* Whatever the order events were inserted and handled in, each session that
   was started has exactly one report pending: none is lost by rtcp_schedule,
   which would end the session's reports silently, and none is doubled. *)
OneReportPending ==
  alive => /\ Len(queue) = started
           /\ {queue[i].sess : i \in DOMAIN queue} = 1 .. started

(* The queue of events has one for each session, and well-formed ones. *)
QueueOK == TypeOK /\ OneReportPending

(* A report is delayed by the others, however they were inserted, by no more
   than the interval of one of them. *)
DelayBounded == \A s \in Sessions : alive => gap[s] <= 2 * Longest

(* While the thread lives, every session reports again and again: the events
   of the other sessions and the packets that arrive cannot starve it. *)
ReportsForever == \A s \in Sessions : []<>(gap[s] = 0) \/ <>(~ alive)

(* rtcp_events.c:133, on rtcp_schedule: "tv When to dispatch it". *)
Dispatched == Sleeping /\ queue[1].due > 0 =>
                \A i \in DOMAIN queue : queue[i].due >= queue[1].due
=============================================================================
