----------------------------- MODULE RtpSources -----------------------------
(***************************************************************************)
(* The queue of sources of one RTP session, which the RTP thread           *)
(* (rtp_recv) and the RTCP thread (rtcp_recv) both search, without the     *)
(* session's mutex syn, and extend, holding it: rtp_ssrc_check and         *)
(* rtp_ssrc_init, with collisions of SSRC identifiers, and the counts of   *)
(* members and senders that both threads keep.                             *)
(*                                                                         *)
(* Memory is not exhausted, and the address of a packet is valid. Nobody   *)
(* sends the client its own packets.                                       *)
(***************************************************************************)
EXTENDS Integers, Sequences, FiniteSets

CONSTANTS Ssrcs,       \* identifiers that remote senders use
          Hosts,       \* hosts they send from
          Announced,   \* the host RTSP named as the source
          Own,         \* an identifier no sender uses
          None,        \* a null address or identifier
          MaxPackets,  \* bound on the packets a thread receives
          Overlap      \* may a thread take a packet before the other is done?

Threads == {"rtp", "rtcp"}
Nil == 0

ASSUME SourcesAssumption == /\ IsFiniteSet(Ssrcs) /\ IsFiniteSet(Hosts)
                            /\ Own \notin Ssrcs
                            /\ None \notin Ssrcs \cup Hosts \cup Threads \cup {Own}
                            /\ Announced \in Hosts
                            /\ MaxPackets \in Nat /\ Overlap \in BOOLEAN

VARIABLES udp,         \* is transport.type UDP? else interleaved or SCTP
          local_ssrc,  \* rtp_sess->local_ssrc
          heap,        \* the rtp_ssrc structures allocated so far
          queue,       \* rtp_sess->ssrc_queue, newest first
          conf_queue,  \* how many conflicts were recorded
          syn,         \* the thread that holds rtp_sess->syn
          members, senders,   \* sess_stats
          thread,      \* per thread: pc, packet and local variables
          fed,         \* history: hosts whose packets a source's buffer got
          crashed      \* history: a null source was dereferenced

shared == <<udp, local_ssrc, heap, queue, conf_queue, syn>>
counts == <<members, senders>>
vars == <<shared, counts, thread, fed, crashed>>

Idle == [pc |-> "idle", ssrc |-> None, host |-> None, sr |-> FALSE,
         found |-> Nil, local |-> FALSE, result |-> "none",
         m |-> 0, n |-> 0, left |-> MaxPackets]

Init ==
  /\ udp \in BOOLEAN
  /\ local_ssrc \in {Own} \cup Ssrcs
  /\ heap = <<>>
  /\ queue = <<>>
  /\ conf_queue = 0
  /\ syn = None
  /\ members = 1
  /\ senders = 0
  /\ thread = [t \in Threads |-> Idle]
  /\ fed = <<>>
  /\ crashed = FALSE

-----------------------------------------------------------------------------
Goto(t, pc) == thread' = [thread EXCEPT ![t].pc = pc]
Return(t, result) ==
  thread' = [thread EXCEPT ![t].pc = "return", ![t].result = result]

FromOf(t) == IF t = "rtp" THEN "rtp_from" ELSE "rtcp_from"

(* The call of rtp_ssrc_check for the next packet on the thread's socket. *)
Packet(t, ssrc, host) ==
  /\ thread[t].pc = "idle" /\ thread[t].left > 0 /\ ~ crashed
  /\ Overlap \/ \A u \in Threads : thread[u].pc = "idle"
  /\ \E sr \in (IF t = "rtcp" THEN BOOLEAN ELSE {TRUE}) :
       thread' = [thread EXCEPT ![t] =
         [Idle EXCEPT !.pc = "gate", !.ssrc = ssrc, !.host = host, !.sr = sr,
                      !.local = (local_ssrc = ssrc), !.left = thread[t].left - 1]]
  /\ UNCHANGED <<shared, counts, fed, crashed>>

(* The mutex is taken and released again before the search. *)
Gate(t) ==
  /\ thread[t].pc = "gate" /\ syn = None
  /\ Goto(t, "walk")
  /\ UNCHANGED <<shared, counts, fed, crashed>>

(* Faulty variant of First; no specification uses it. *)
FirstButLast(ssrc) ==
  LET hits == {i \in 1 .. Len(queue) - 1 : heap[queue[i]].ssrc = ssrc}
  IN  IF hits = {} THEN Nil
      ELSE queue[CHOOSE i \in hits : \A j \in hits : i <= j]

(* The source the loop over the queue stops at. *)
First(ssrc) ==
  LET hits == {i \in DOMAIN queue : heap[queue[i]].ssrc = ssrc}
  IN  IF hits = {} THEN Nil
      ELSE queue[CHOOSE i \in hits : \A j \in hits : i <= j]

(* The search. With a local collision the loop ends at the head at once. *)
Walk(t) ==
  /\ thread[t].pc = "walk"
  /\ LET p == thread[t]
         found == IF p.local THEN (IF queue = <<>> THEN Nil ELSE queue[1])
                  ELSE First(p.ssrc)
     IN  thread' = [thread EXCEPT ![t].found = found,
                      ![t].pc = IF p.local THEN "collision"
                                ELSE IF found = Nil THEN "lock" ELSE "known"]
  /\ UNCHANGED <<shared, counts, fed, crashed>>

(* Faulty variant of LockSource; no specification uses it. *)
LockNothing(t) ==
  /\ thread[t].pc = "lock"
  /\ Goto(t, "alloc")
  /\ UNCHANGED <<shared, counts, fed, crashed>>

LockSource(t) ==
  /\ thread[t].pc = "lock" /\ syn = None
  /\ syn' = t
  /\ Goto(t, "alloc")
  /\ UNCHANGED <<udp, local_ssrc, heap, queue, conf_queue, counts, fed, crashed>>

(* rtp_ssrc_init: next = ssrc_queue is read here, ssrc_queue stored in Link. *)
Alloc(t) ==
  /\ thread[t].pc = "alloc"
  /\ heap' = Append(heap, [ssrc |-> None, rtp_from |-> None, rtcp_from |-> None,
                           rtcp_to |-> FALSE, ready |-> FALSE, by |-> t,
                           next |-> queue])
  /\ fed' = Append(fed, {})
  /\ thread' = [thread EXCEPT ![t].pc = "link", ![t].found = Len(heap')]
  /\ UNCHANGED <<udp, local_ssrc, queue, conf_queue, syn, counts, crashed>>

Link(t) ==
  /\ thread[t].pc = "link"
  /\ queue' = <<thread[t].found>> \o heap[thread[t].found].next
  /\ Goto(t, "identify")
  /\ UNCHANGED <<udp, local_ssrc, heap, conf_queue, syn, counts, fed, crashed>>

(* The source gets its identifier, the address of the packet and, when it is
   the announced one or RTCP's, the address for reports. *)
Identify(t) ==
  /\ thread[t].pc = "identify"
  /\ LET p == thread[t]
     IN  heap' = [heap EXCEPT ![p.found].ssrc = p.ssrc,
                              ![p.found][FromOf(t)] = p.host,
                              ![p.found].rtcp_to =
                                 udp /\ (p.host = Announced \/ t = "rtcp")]
  /\ Goto(t, "poinit")
  /\ UNCHANGED <<udp, local_ssrc, queue, conf_queue, syn, counts, fed, crashed>>

(* Faulty variant of Poinit; no specification uses it. *)
PoinitKeepsLock(t) ==
  /\ thread[t].pc = "poinit"
  /\ heap' = [heap EXCEPT ![thread[t].found].ready = TRUE]
  /\ conf_queue' = conf_queue + (IF thread[t].local THEN 1 ELSE 0)
  /\ syn' = IF thread[t].local THEN syn ELSE None
  /\ Return(t, IF thread[t].local THEN "collision" ELSE "new")
  /\ UNCHANGED <<udp, local_ssrc, queue, counts, fed, crashed>>

(* poinit and the unlock, then, after a collision, the record of it. *)
Poinit(t) ==
  /\ thread[t].pc = "poinit"
  /\ heap' = [heap EXCEPT ![thread[t].found].ready = TRUE]
  /\ conf_queue' = conf_queue + (IF thread[t].local THEN 1 ELSE 0)
  /\ syn' = None
  /\ Return(t, IF thread[t].local THEN "collision" ELSE "new")
  /\ UNCHANGED <<udp, local_ssrc, queue, counts, fed, crashed>>

(* The source is in the queue: the first packet over this protocol sets its
   address, and a later one from elsewhere is a collision. *)
Known(t) ==
  /\ thread[t].pc = "known"
  /\ LET p == thread[t]
         from == heap[p.found][FromOf(t)]
     IN  /\ heap' = [heap EXCEPT
              ![p.found][FromOf(t)] = IF from = None THEN p.host ELSE from,
              ![p.found].rtcp_to = @ \/ (udp /\ t = "rtcp")]
         /\ Return(t, IF from = None THEN "first"
                      ELSE IF udp /\ from # p.host THEN "collision" ELSE "known")
  /\ UNCHANGED <<udp, local_ssrc, queue, conf_queue, syn, counts, fed, crashed>>

(* Faulty variant of LocalCollision; no specification uses it. *)
LocalCollisionNone(t) ==
  /\ thread[t].pc = "collision"
  /\ local_ssrc' = None
  /\ Goto(t, "lock")
  /\ UNCHANGED <<udp, heap, queue, conf_queue, syn, counts, fed, crashed>>

(* The packet has the client's own identifier: over UDP the client takes
   another one and adds a source; the conflicts recorded hold the client's
   own address, so none is ever found again. *)
LocalCollision(t) ==
  /\ thread[t].pc = "collision"
  /\ IF udp /\ thread[t].ssrc = local_ssrc
     THEN /\ local_ssrc' = Own
          /\ Goto(t, "lock")
     ELSE /\ Return(t, "collision")
          /\ UNCHANGED local_ssrc
  /\ UNCHANGED <<udp, heap, queue, conf_queue, syn, counts, fed, crashed>>

-----------------------------------------------------------------------------
(* What the callers do with the answer.                                    *)

Done(t) == thread' = [thread EXCEPT ![t] = [Idle EXCEPT !.left = thread[t].left]]

(* Faulty variants of Counts and Feed; no specification uses them. *)
CountsFirst(t) == thread[t].result \in {"new", "first"}
FeedCollisions(t) ==
  /\ t = "rtp"
  /\ IF thread[t].found = Nil THEN crashed' = TRUE /\ UNCHANGED fed
     ELSE /\ fed' = [fed EXCEPT ![thread[t].found] = @ \cup {thread[t].host}]
          /\ UNCHANGED crashed

(* A new source is counted; members++ and senders++ are not atomic. *)
Counts(t) == thread[t].result = "new"

CountRead(t) ==
  /\ thread[t].pc = "return" /\ Counts(t)
  /\ thread' = [thread EXCEPT ![t].pc = "store", ![t].result = "counted",
                              ![t].m = members, ![t].n = senders]
  /\ UNCHANGED <<shared, counts, fed, crashed>>

CountStore(t) ==
  /\ thread[t].pc = "store"
  /\ members' = thread[t].m + 1
  /\ senders' = IF thread[t].sr THEN thread[t].n + 1 ELSE senders
  /\ Goto(t, "return")
  /\ UNCHANGED <<shared, fed, crashed>>

(* rtp_recv: poadd, or bprmv after a collision. *)
Feed(t) ==
  /\ t = "rtp"
  /\ IF thread[t].found = Nil THEN crashed' = TRUE /\ UNCHANGED fed
     ELSE /\ fed' = IF thread[t].result = "collision" THEN fed
                    ELSE [fed EXCEPT ![thread[t].found] = @ \cup {thread[t].host}]
          /\ UNCHANGED crashed

(* rtcp_recv: the packet is parsed for the source, a collision or not. *)
Parse(t) ==
  /\ t = "rtcp"
  /\ crashed' = (crashed \/ thread[t].found = Nil)
  /\ UNCHANGED fed

Finish(t) ==
  /\ thread[t].pc = "return" /\ ~ Counts(t)
  /\ Feed(t) \/ Parse(t)
  /\ Done(t)
  /\ UNCHANGED <<shared, counts>>

Exhausted == /\ \A t \in Threads : thread[t].pc = "idle"
             /\ crashed \/ \A t \in Threads : thread[t].left = 0
             /\ UNCHANGED vars

Step(t) == \/ Gate(t) \/ Walk(t) \/ LockSource(t) \/ Alloc(t) \/ Link(t)
           \/ Identify(t) \/ Poinit(t) \/ Known(t) \/ LocalCollision(t)
           \/ CountRead(t) \/ CountStore(t) \/ Finish(t)

Next == \/ \E t \in Threads :
             \/ \E ssrc \in Ssrcs, host \in Hosts : Packet(t, ssrc, host)
             \/ Step(t)
        \/ Exhausted

Spec == Init /\ [][Next]_vars

-----------------------------------------------------------------------------
TypeOK ==
  /\ local_ssrc \in {Own} \cup Ssrcs
  /\ queue \in Seq(1 .. Len(heap))
  /\ \A i \in DOMAIN heap : /\ heap[i].ssrc \in {None} \cup Ssrcs
                            /\ heap[i].rtp_from \in {None} \cup Hosts
                            /\ heap[i].rtcp_from \in {None} \cup Hosts
  /\ syn \in {None} \cup Threads
  /\ Len(fed) = Len(heap)

(* The session's mutex is held by the thread that is between the lock and
   the unlock, and by no other: each path through the creation of a source,
   after a search or after a collision, gives it back. *)
LockHeld ==
  \A t \in Threads :
    (syn = t) <=> (thread[t].pc \in {"alloc", "link", "identify", "poinit"})

(* Whoever creates sources at the same time, each source that was linked is
   on the queue, and once: the insertions of the two threads at the head do
   not overwrite each other. *)
NoSourceLost ==
  \A i \in DOMAIN heap :
    \/ Cardinality({k \in DOMAIN queue : queue[k] = i}) = 1
    \/ \E t \in Threads : thread[t].found = i /\ thread[t].pc = "link"

(* However their searches and insertions interleave, the threads create at
   most one source each for an identifier. *)
OnePerThread ==
  \A i, j \in DOMAIN heap :
    i # j /\ heap[i].ssrc = heap[j].ssrc /\ heap[i].ssrc # None
      => heap[i].by # heap[j].by

(* What two threads that search and create without a common lock cannot undo. *)
SourcesOK == TypeOK /\ LockHeld /\ NoSourceLost /\ OnePerThread

(* Over UDP the playout buffer of a source holds packets of one host: an
   identifier that two hosts use does not mix their streams. *)
OneHostPerBuffer == udp => \A i \in DOMAIN fed : Cardinality(fed[i]) <= 1

(* A source that RTP and RTCP both hear of, in either order or at once, is
   not counted twice. *)
NotOvercounted == members <= 1 + Len(heap) /\ senders <= Len(heap)

(* rtp.h:229, "queue of all known SSRCs", and rtp_ssrc_queue.c:204, "creates
   a new synchronization source if it wasn't already known". *)
UniqueSource ==
  \A i, j \in DOMAIN heap :
    heap[i].ssrc = heap[j].ssrc /\ heap[i].ssrc # None => i = j

(* A packet is put into a playout buffer after poinit has set it up. *)
ReadyBeforeUse ==
  \A i \in DOMAIN fed : fed[i] # {} => heap[i].ready

(* No answer of rtp_ssrc_check leaves its caller without a source. *)
NeverNull == ~ crashed
=============================================================================
