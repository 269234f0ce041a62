----------------------------- MODULE RtspFraming -----------------------------
(***************************************************************************)
(* The receiving half of src/rtsp: the thread of rtsp_state_machine.c      *)
(* reads the server's connection into in_buffer, however TCP cuts the      *)
(* stream, finds the messages in it and hands each on: a reply to the      *)
(* state machine, an interleaved packet ("$") to the socket pair of the    *)
(* medium whose channel it names, which the RTP or the RTCP thread reads.  *)
(* One RTP thread serves every medium and sleeps in bpget when the pool of *)
(* one is full; a full socket pair makes the RTSP thread sleep in send.    *)
(*                                                                         *)
(* A byte is its code.  Two elements stand for several bytes: a status     *)
(* line, and a header line that gives the length of the body.  All other   *)
(* header lines are left out.                                              *)
(***************************************************************************)
EXTENDS Integers, Sequences, FiniteSets, SequencesExt, FiniteSetsExt

CONSTANTS Entries,       \* rtsp_th->interleaved, a sequence of [rtp, rtcp]
          Packets,       \* interleaved packets the server may send: [ch, data]
          Replies,       \* its replies: [status, body (its length), crlf]
          Beyond,        \* what may follow the last byte of a malloc'd buffer
          SockSize,      \* datagrams a socket pair holds
          PoolSize,      \* slots of a session's buffer pool
          ReadsWhileWaiting, \* does the application read frames in rtsp_wait?
          MaxSent        \* bound: messages the server sends, one reply apart

Octet == 0 .. 255

(* Channels and bytes are octets, a packet's length is written in two of them. *)
ASSUME FramingAssumption ==
  /\ Entries \in Seq([rtp : Octet, rtcp : Octet])
  /\ \A p \in Packets : /\ p.ch \in Octet /\ p.data \in Seq(Octet)
                        /\ Len(p.data) \div 256 \in Octet
  /\ \A r \in Replies : /\ r.status \in {200, 404} /\ r.body \in Nat
                        /\ r.crlf \in BOOLEAN
  /\ Beyond \subseteq Seq(Nat)
  /\ SockSize \in Nat /\ PoolSize \in Nat

VARIABLES net,        \* bytes sent by the server, not yet received
          buffer,     \* in_buffer.data[0 .. in_buffer.size - 1]
          terminated, \* is data[size] known to be '\0'?
          pc,         \* where the RTSP thread is: "select", "handle" or "forward"
          open,       \* the connection
          sock,       \* datagrams waiting in each socket pair
          held,       \* slots of each session's pool in use
          rtpIn,      \* the session the RTP thread is receiving for, 0: none
          report,     \* has the client's RTCP thread written a report to the pair?
          waiting,    \* is the application in rtsp_wait?
          sent, handled, \* history: the messages of each side, as bytes
          routed      \* history: the packets given to each socket pair

vars == <<net, buffer, terminated, pc, open, sock, held, rtpIn, report,
          waiting, sent, handled, routed>>

NUL == 0
NL == 10
CR == 13
Dollar == 36
Text == 120
Good == 200             \* "RTSP/1.0 200 OK"
Bad == 404             \* "RTSP/1.0 404 Not Found"
Length(n) == 1000 + n   \* "Content-Length: n"

Ids == 1 .. Len(Entries)
Fds == Ids \X {"rtp", "rtcp"}

-----------------------------------------------------------------------------
(* The messages of the server. *)

ReplyBytes(r) ==
  LET eol == IF r.crlf THEN <<CR, NL>> ELSE <<NL>>
      length == IF r.body = 0 THEN <<>> ELSE <<Length(r.body)>> \o eol
  IN  <<r.status>> \o eol \o length \o eol \o [i \in 1 .. r.body |-> Text]

PacketBytes(p) ==
  <<Dollar, p.ch, Len(p.data) \div 256, Len(p.data) % 256>> \o p.data

ReplyMessages == {ReplyBytes(r) : r \in Replies}
Messages == ReplyMessages \cup {PacketBytes(p) : p \in Packets}

-----------------------------------------------------------------------------
(* Finding the first message of in_buffer. *)

(* The bytes the string functions of C see: those before the first '\0',   *)
(* which lies in garbage g when nothing terminates the buffer.             *)
Visible(s, g) ==
  LET all == s \o g
      nuls == {i \in DOMAIN all : all[i] = NUL}
  IN  IF nuls = {} THEN all ELSE SubSeq(all, 1, Min(nuls) - 1)

(* The header ends with an empty line: two newlines with nothing, or a     *)
(* carriage return, between them.                                          *)
HeadEnds(t) ==
  {i \in DOMAIN t :
     /\ t[i] = NL
     /\ \/ i > 1 /\ t[i - 1] = NL
        \/ i > 2 /\ t[i - 1] = CR /\ t[i - 2] = NL}

(* seek for first valid char after the empty line *)
BodyStart(t) ==
  Min({i \in Min(HeadEnds(t)) + 1 .. Len(t) : t[i] \notin {NL, CR}}
        \cup {Len(t) + 1})

(* The first Content-Length of the buffer, wherever it is. *)
body_exists(t) ==
  LET lengths == {i \in DOMAIN t : t[i] >= Length(0)}
  IN  IF lengths = {} THEN 0 ELSE t[Min(lengths)] - Length(0)

(* Faulty variant of TextSize; no specification uses it. *)
TextSizeNoBody(t) == IF HeadEnds(t) = {} THEN 0 ELSE BodyStart(t) - 1

(* The size of the reply at the front of t, or 0 if it is not all there. *)
TextSize(t) ==
  IF HeadEnds(t) = {} THEN 0
  ELSE LET head == BodyStart(t) - 1
           body == body_exists(t)
       IN  IF Len(t) - head < body THEN 0 ELSE head + body

IsPacket(s) == Entries # <<>> /\ s[1] = Dollar

(* Faulty variant of PacketSize; no specification uses it. *)
PacketSizeShort(s) ==
  LET size == s[3] * 256 + s[4] IN IF size <= Len(s) THEN size ELSE 0

PacketSize(s) ==
  LET size == s[3] * 256 + s[4] + 4 IN IF size <= Len(s) THEN size ELSE 0

(* first_pkt_size, or 0 while the first message is not complete. *)
full_msg_rcvd(s, g) ==
  IF IsPacket(s) /\ Len(s) > 4 THEN PacketSize(s) ELSE TextSize(Visible(s, g))

-----------------------------------------------------------------------------
(* Where an interleaved packet goes. *)

Serves(i, ch) == ch \in {Entries[i].rtp, Entries[i].rtcp}

(* Faulty variant of Route; no specification uses it. *)
RouteRtpFirst(ch) ==
  LET ids == {i \in Ids : Serves(i, ch)}
  IN  IF ids = {} THEN {} ELSE {<<Min(ids), "rtp">>}

(* The socket of the first entry with the channel; none for an unknown one. *)
Route(ch) ==
  LET ids == {i \in Ids : Serves(i, ch)}
  IN  IF ids = {} THEN {}
      ELSE {<<Min(ids), IF Entries[Min(ids)].rtcp = ch THEN "rtcp" ELSE "rtp">>}
-----------------------------------------------------------------------------
Init ==
  /\ net = <<>> /\ buffer = <<>> /\ terminated = TRUE
  /\ pc = "select" /\ open = TRUE
  /\ sock = [f \in Fds |-> 0] /\ held = [i \in Ids |-> 0] /\ rtpIn = 0
  /\ report = [i \in Ids |-> FALSE] /\ waiting = FALSE
  /\ sent = <<>> /\ handled = <<>>
  /\ routed = [f \in Fds |-> <<>>]

others == <<sock, held, rtpIn, report>>

(* The application asks for something and waits; requests are answered one *)
(* at a time.                                                              *)
RepliesIn(ms) == {k \in DOMAIN ms : ms[k][1] # Dollar}
Asked == Cardinality(RepliesIn(sent))
Request ==
  /\ open /\ ~waiting /\ Len(sent) < MaxSent
  /\ waiting' = TRUE
  /\ UNCHANGED <<net, buffer, terminated, pc, open, sent, handled, routed, others>>

ServerSends(m) ==
  /\ sent' = Append(sent, m)
  /\ net' = net \o m
  /\ UNCHANGED <<buffer, terminated, pc, open, waiting, handled, routed, others>>

(* Replies the application has seen: those handled. *)
Answers == Cardinality(RepliesIn(handled))

Reply == /\ open /\ waiting /\ Asked = Answers /\ Len(sent) <= MaxSent
         /\ \E m \in ReplyMessages : ServerSends(m)

Stream == /\ open /\ Len(sent) < MaxSent
          /\ \E p \in Packets : ServerSends(PacketBytes(p))

(* rtsp_recv: any number of the bytes that have arrived. *)
Receive(n) ==
  /\ open /\ pc = "select" /\ n \in 1 .. Len(net)
  /\ buffer' = buffer \o SubSeq(net, 1, n)
  /\ net' = SubSeq(net, n + 1, Len(net))
  /\ terminated' = TRUE
  /\ pc' = "handle"
  /\ UNCHANGED <<open, waiting, sent, handled, routed, others>>

Garbage == IF terminated THEN {<<>>} ELSE Beyond

(* Faulty variant of remove_pkt; no specification uses it. *)
remove_pktKeepsLast(size) == buffer' = SubSeq(buffer, size, Len(buffer))

(* A size past the end of the buffer makes it ask for too much memory and  *)
(* leave the buffer as it is.                                              *)
remove_pkt(size) ==
  buffer' = IF size > Len(buffer) THEN buffer
            ELSE SubSeq(buffer, size + 1, Len(buffer))

(* Faulty variant of Sent; no specification uses it. *)
SentAtOnce(fds) == sock' = [f \in Fds |-> IF f \in fds THEN sock[f] + 1 ELSE sock[f]]

(* send: the thread sleeps here while a socket pair is full. *)
Sent(fds) ==
  /\ \A f \in fds : sock[f] < SockSize
  /\ sock' = [f \in Fds |-> IF f \in fds THEN sock[f] + 1 ELSE sock[f]]

(* The first message is passed to the socket pair of its channel. *)
HandlePacket(size) ==
  LET fds == Route(buffer[2])
  IN  /\ Sent(fds)
      /\ routed' = [f \in Fds |-> IF f \in fds
                                  THEN Append(routed[f], SubSeq(buffer, 5, size))
                                  ELSE routed[f]]
      /\ remove_pkt(size)
      /\ terminated' = (size = Len(buffer))
      /\ UNCHANGED <<pc, open, waiting>>

(* Faulty variant of HandleReply; no specification uses it. *)
HandleReplySilently(size) ==
  /\ buffer[1] = Good /\ waiting
  /\ remove_pkt(size)
  /\ terminated' = (size = Len(buffer))
  /\ UNCHANGED <<waiting, pc, open, sock, routed>>

(* A good reply to the request that is waited for wakes the application. *)
HandleReply(size) ==
  /\ buffer[1] = Good /\ waiting
  /\ waiting' = FALSE
  /\ remove_pkt(size)
  /\ terminated' = (size = Len(buffer))
  /\ UNCHANGED <<pc, open, sock, routed>>

(* One that is no reply, is unexpected or reports an error: rtsp_reinit. *)
HandleError ==
  /\ buffer[1] # Good \/ ~waiting
  /\ waiting' = FALSE /\ open' = FALSE
  /\ buffer' = <<>> /\ terminated' = TRUE
  /\ pc' = "forward"
  /\ UNCHANGED <<sock, routed>>

(* handle_rtsp_pkt, for the message that full_msg_rcvd found. *)
Handle ==
  /\ open /\ pc = "handle" /\ buffer # <<>>
  /\ \E g \in Garbage :
       LET size == full_msg_rcvd(buffer, g)
       IN  /\ size > 0
           /\ handled' = Append(handled, SubSeq(buffer \o g, 1, size))
           /\ IF IsPacket(buffer) THEN HandlePacket(size)
              ELSE HandleReply(size) \/ HandleError
  /\ UNCHANGED <<net, sent, held, rtpIn, report>>

(* No complete message is left: the loop goes on to the RTCP sockets. *)
Handled ==
  /\ open /\ pc = "handle"
  /\ buffer # <<>> => \E g \in Garbage : full_msg_rcvd(buffer, g) = 0
  /\ pc' = "forward"
  /\ UNCHANGED <<net, buffer, terminated, open, waiting, sent, handled, routed, others>>

(* Reports of the RTCP thread go out on the channel of their medium. *)
Forward ==
  /\ open
  /\ pc = "forward" \/ (pc = "select" /\ \E i \in Ids : report[i])
  /\ report' = [i \in Ids |-> FALSE]
  /\ pc' = "select"
  /\ UNCHANGED <<net, buffer, terminated, open, waiting, sent, handled, routed,
                 sock, held, rtpIn>>

-----------------------------------------------------------------------------
(* The other threads. *)

(* Faulty variant of RtpReady; no specification uses it. *)
RtpReadyFirst(i) ==
  /\ i = 1 /\ rtpIn = 0 /\ sock[<<i, "rtp">>] > 0
  /\ rtpIn' = i
  /\ UNCHANGED <<net, buffer, terminated, pc, open, sock, held, report,
                 waiting, sent, handled, routed>>

(* rtp_thread finds the socket of session i readable and calls rtp_recv... *)
RtpReady(i) ==
  /\ rtpIn = 0 /\ sock[<<i, "rtp">>] > 0
  /\ rtpIn' = i
  /\ UNCHANGED <<net, buffer, terminated, pc, open, sock, held, report,
                 waiting, sent, handled, routed>>

(* ... which sleeps until the session's pool has a slot for the packet. *)
RtpStore ==
  /\ rtpIn # 0 /\ held[rtpIn] < PoolSize
  /\ held' = [held EXCEPT ![rtpIn] = @ + 1]
  /\ sock' = [sock EXCEPT ![<<rtpIn, "rtp">>] = @ - 1]
  /\ rtpIn' = 0
  /\ UNCHANGED <<net, buffer, terminated, pc, open, report, waiting, sent,
                 handled, routed>>

(* The RTCP thread reads its packet and writes a report. *)
Rtcp(i) ==
  /\ sock[<<i, "rtcp">>] > 0
  /\ sock' = [sock EXCEPT ![<<i, "rtcp">>] = @ - 1]
  /\ report' = [report EXCEPT ![i] = TRUE]
  /\ UNCHANGED <<net, buffer, terminated, pc, open, held, rtpIn, waiting, sent,
                 handled, routed>>

(* The application takes a frame of session i, which frees its slot. *)
ReadFrame(i) ==
  /\ held[i] > 0
  /\ waiting => ReadsWhileWaiting
  /\ held' = [held EXCEPT ![i] = @ - 1]
  /\ UNCHANGED <<net, buffer, terminated, pc, open, sock, rtpIn, report,
                 waiting, sent, handled, routed>>

Next ==
  \/ Request \/ Reply \/ Stream
  \/ \E n \in 1 .. Len(net) : Receive(n)
  \/ Handle \/ Handled \/ Forward
  \/ \E i \in Ids : RtpReady(i) \/ Rtcp(i) \/ ReadFrame(i)
  \/ RtpStore

(* The threads run, the server answers, the application reads every medium. *)
Spec ==
  /\ Init /\ [][Next]_vars
  /\ WF_vars(\E n \in 1 .. Len(net) : Receive(n))
  /\ WF_vars(Handle) /\ WF_vars(Handled) /\ WF_vars(Forward)
  /\ WF_vars(Reply) /\ WF_vars(RtpStore)
  /\ \A i \in Ids : WF_vars(RtpReady(i)) /\ WF_vars(Rtcp(i)) /\ WF_vars(ReadFrame(i))
-----------------------------------------------------------------------------
TypeOK ==
  /\ pc \in {"select", "handle", "forward"}
  /\ sock \in [Fds -> 0 .. SockSize]
  /\ held \in [Ids -> 0 .. PoolSize]
  /\ rtpIn \in {0} \cup Ids
  /\ buffer \in Seq(Nat) /\ net \in Seq(Nat)

(* The bytes sent are either handled, in the buffer or on their way: a     *)
(* message removed with the wrong size shifts all that follows             *)
(* (remove_pkt, rtsp_internals.c:221).                                     *)
NoByteLost ==
  open => FlattenSeq(sent) = FlattenSeq(handled) \o buffer \o net

(* A socket pair is given the packets the server sent on its channel, all  *)
(* of each and in their order, and nothing else (handle_rtsp_pkt,          *)
(* rtsp_handlers.c:221).                                                   *)
IsOn(m, ch) == m[1] = Dollar /\ m[2] = ch
DataOn(ms, ch) ==
  LET data[k \in 0 .. Len(ms)] ==
        IF k = 0 THEN <<>>
        ELSE IF IsOn(ms[k], ch) THEN Append(data[k - 1], SubSeq(ms[k], 5, Len(ms[k])))
        ELSE data[k - 1]
  IN  data[Len(ms)]
RightSocket ==
  \A f \in Fds :
    LET ch == IF f[2] = "rtp" THEN Entries[f[1]].rtp ELSE Entries[f[1]].rtcp
    IN  IsPrefix(routed[f], DataOn(sent, ch))

(* Every byte of the stream goes to the one it is for. *)
BytesOK == TypeOK /\ NoByteLost /\ RightSocket

(* However the stream is cut, the messages are handled whole, once each    *)
(* and in order, and every one is in the end (full_msg_rcvd,               *)
(* rtsp_internals.c:166).                                                  *)
Channel == INSTANCE MessageChannel WITH
  queue <- SubSeq(sent, Len(handled) + 1, Len(sent)), delivered <- handled
ChannelSpec == Channel!Spec

(* A request is answered although packets come before the reply and their  *)
(* sockets may be full (the send of rtsp_handlers.c:238).                  *)
Answered == waiting ~> ~waiting

(* No medium's packets wait for ever because the RTP thread is asleep for  *)
(* another (bpget at rtp_recv.c:186).                                      *)
AllServed ==
  \A i \in Ids : sock[<<i, "rtp">>] = SockSize ~> sock[<<i, "rtp">>] < SockSize

(* Nobody waits for ever, although three threads send to each other through
   queues that are bounded. *)
Served == Answered /\ AllServed
=============================================================================
