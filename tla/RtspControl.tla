---------------------------- MODULE RtspControl ----------------------------
(***************************************************************************)
(* The RTSP controller: the application's thread in rtsp_open, rtsp_play,  *)
(* rtsp_pause (rtsp_stop is the same), rtsp_seek, rtsp_close, rtsp_wait    *)
(* and rtsp_uninit; the RTSP thread in rtsp(), the state machine, its      *)
(* handlers, rtsp_reinit and rtsp_clean; and a server at the other end of  *)
(* one TCP connection.                                                     *)
(*                                                                         *)
(* comm_mutex covers the application's calls and rtsp_unbusy, and nothing  *)
(* else: the RTSP thread changes everything the calls look at without it.  *)
(* A handler is one step up to rtsp_unbusy; rtsp_reinit is cut wherever    *)
(* the application can tell.  A message is its CSeq, session and status.   *)
(***************************************************************************)
EXTENDS Integers, Sequences, FiniteSets

CONSTANTS Descriptions, \* what DESCRIBE may yield: the number of media of each
                        \* session; <<>> when set_rtsp_sessions fails
          Codes,        \* status codes of the server: 200, 302 and errors
          Faults,       \* what else a server does, of "stray" and "dies"
          MaxCalls,     \* bound on the application's commands
          Patient,      \* does the application let the RTSP thread get back to
                        \* its loop before rtsp_uninit and another rtsp_open?
          Reopens       \* may it open again once a stream was set up?

OK == 200
Found == 302            \* RTSP_FOUND: the only redirection that is followed
Reinitialized == -1     \* response_id for RTSP_Reinitialized
NoId == -2              \* no response_id
None == "none"
Eof == [cseq |-> -1, sess |-> 0, code |-> 0, desc |-> <<>>]
Commands == {"open", "play", "pause", "close"}
Methods == {"DESCRIBE", "SETUP", "PLAY", "PAUSE", "TEARDOWN"}

ASSUME RtspAssumption ==
  /\ Descriptions \subseteq Seq(Nat \ {0}) /\ Descriptions # {}
  /\ Codes \subseteq {OK} \cup 300 .. 599
  /\ Faults \subseteq {"stray", "dies"}
  /\ MaxCalls \in Nat
  /\ {Patient, Reopens} \subseteq BOOLEAN

VARIABLES
  comm_mutex,   \* None, "app" or "rtsp"
  busy, status, response_id,    \* of rtsp_thread
  wait_for,     \* the reply expected: method, CSeq and session
  active,       \* nmst_is_active: the connection is open
  rtsp_queue,   \* the sessions: number of media and last CSeq
  curr,         \* static_sess and static_med of get_curr_sess
  rtp,          \* rtp_th: "new", with its threads "running", or "freed"
  apc, cmd, seeking, reply, calls,  \* the application
  rpc, fin, last_id,                \* the RTSP thread
  toServer, toClient, server,       \* the connection and the server
  outcome       \* history: what became of the last command

connection == <<active, toServer, toClient, server>>
sessions == <<rtsp_queue, curr, rtp>>
application == <<apc, cmd, seeking, reply, calls>>
thread == <<rpc, fin, last_id>>
vars == <<comm_mutex, busy, status, response_id, wait_for, connection, sessions,
          application, thread, outcome>>

NoWait == [res |-> None, cseq |-> 0, sess |-> 0]
NULL == [sess |-> 0, med |-> 0]
First == [sess |-> 1, med |-> 1]
Idle == [setup |-> {}, playing |-> {}]

AllSessions == DOMAIN rtsp_queue
AllMedia == UNION {{[sess |-> s, med |-> m] : m \in 1 .. rtsp_queue[s].media} :
                     s \in AllSessions}

(* rtsp_init: calloc, and the thread is started. *)
Init ==
  /\ comm_mutex = None /\ busy = FALSE /\ status = "INIT" /\ response_id = 0
  /\ wait_for = NoWait /\ active = FALSE
  /\ rtsp_queue = <<>> /\ curr = NULL /\ rtp = "new"
  /\ apc = "idle" /\ cmd = None /\ seeking = FALSE /\ reply = NoId /\ calls = 0
  /\ rpc = "loop" /\ fin = "run" /\ last_id = NoId
  /\ toServer = <<>> /\ toClient = <<>> /\ server = Idle
  /\ outcome = None

-----------------------------------------------------------------------------
(* What both threads use.                                                  *)

(* Variants: the last session is passed over; the last medium is overrun. *)
NextSessionShort(at) ==
  IF at.sess + 1 < Len(rtsp_queue) THEN [sess |-> at.sess + 1, med |-> 1] ELSE NULL
NextMediumOverrun(at) ==
  IF at.med <= rtsp_queue[at.sess].media THEN [at EXCEPT !.med = @ + 1] ELSE NULL

(* get_curr_sess(GCS_NXT_SESS) and get_curr_sess(GCS_NXT_MED). *)
NextSession(at) ==
  IF at.sess < Len(rtsp_queue) THEN [sess |-> at.sess + 1, med |-> 1] ELSE NULL
NextMedium(at) ==
  IF at.med < rtsp_queue[at.sess].media THEN [at EXCEPT !.med = @ + 1]
  ELSE NextSession(at)

(* nmst_write: on a socket that is closed send returns -1, which the callers'
   "if (!nmst_write(...))" takes for success. *)
Transmit(r) == toServer' = IF active THEN Append(toServer, r) ELSE toServer

(* send_setup_request, send_play_request, send_pause_request and
   send_teardown_request, about the session and medium `at' of `queue'. *)
Ask(res, queue, at) ==
  LET n == queue[at.sess].CSeq + 1 IN
  /\ rtsp_queue' = [queue EXCEPT ![at.sess].CSeq = n]
  /\ wait_for' = [res |-> res, cseq |-> n, sess |-> at.sess]
  /\ Transmit([res |-> res, cseq |-> n, at |-> at])

(* send_get_request: it leaves the CSeq that is waited for alone. *)
Describe ==
  /\ wait_for' = [wait_for EXCEPT !.res = "DESCRIBE"]
  /\ Transmit([res |-> "DESCRIBE", cseq |-> 1, at |-> NULL])

-----------------------------------------------------------------------------
(* The application.                                                        *)

Crash == apc' = "crashed"
Running == apc # "crashed"

(* The sessions are freed, but rtsp_queue still points to them. *)
Dangling == rpc = "clean" /\ AllSessions # {}

(* The application may be anywhere from its next call to within one. *)
InCall == apc \in {"locate", "connect", "describe", "send"}

Allowed(c) ==
  CASE c = "open" -> status = "INIT"
    [] c = "play" -> status # "INIT"
    [] c = "pause" -> status = "PLAYING"
    [] c = "close" -> status # "INIT"

(* The head of every call, up to the test of the state. *)
Begin(c) ==
  /\ comm_mutex = None
  /\ cmd' = c /\ reply' = NoId
  /\ IF Allowed(c)
       THEN /\ comm_mutex' = "app" /\ busy' = TRUE /\ outcome' = None
            /\ apc' = IF c = "open" THEN "connect" ELSE "locate"
       ELSE /\ busy' = FALSE /\ apc' = "idle"
            /\ UNCHANGED <<comm_mutex, outcome>>
  /\ UNCHANGED <<status, response_id, wait_for, connection, sessions, thread>>

(* A command.  An application that cannot open a stream may try again. *)
Call(c) ==
  /\ apc = "idle" /\ calls < MaxCalls
  /\ c = "open" => (Reopens \/ rtp = "new") /\ (Patient => rpc = "loop")
  /\ calls' = calls + 1 /\ seeking' = FALSE
  /\ Begin(c)

(* rtsp_seek: a pause first. *)
Seek ==
  /\ apc = "idle" /\ calls < MaxCalls
  /\ calls' = calls + 1 /\ seeking' = TRUE
  /\ Begin("pause")

(* A call that fails after the test of the state. *)
Failed ==
  /\ apc' = "idle" /\ busy' = FALSE /\ comm_mutex' = None
  /\ UNCHANGED <<wait_for, rtsp_queue, toServer>>

(* sock_connect of rtsp_open. *)
Connect ==
  /\ apc = "connect"
  /\ \/ /\ active' = TRUE /\ toServer' = <<>> /\ toClient' = <<>> /\ server' = Idle
        /\ apc' = "describe"
        /\ UNCHANGED <<busy, comm_mutex, wait_for, rtsp_queue>>
     \/ /\ Failed /\ active' = FALSE
        /\ UNCHANGED <<toClient, server>>
  /\ UNCHANGED <<status, response_id, curr, rtp, cmd, seeking, reply, calls, thread, outcome>>

(* A call that sent its request: unlock and return. *)
Sent == apc' = "wait" /\ comm_mutex' = None /\ UNCHANGED busy

(* rtsp_open goes on to send_get_request, which reads urlname: NULL by then, if the
   RTSP thread found the connection closed. *)
OpenDescribe ==
  /\ apc = "describe"
  /\ IF active
       THEN Sent /\ Describe /\ UNCHANGED rtsp_queue
       ELSE Crash /\ UNCHANGED <<comm_mutex, busy, wait_for, rtsp_queue, toServer>>
  /\ UNCHANGED <<status, response_id, active, toClient, server, curr, rtp, cmd, seeking,
                 reply, calls, thread, outcome>>

(* get_curr_sess(GCS_INIT, ...) reads through rtsp_queue. *)
Locate ==
  /\ apc = "locate"
  /\ \/ AllSessions # {} /\ curr' = First /\ apc' = "send"
     \/ (AllSessions = {} \/ Dangling) /\ Crash /\ UNCHANGED curr
  /\ UNCHANGED <<comm_mutex, busy, status, response_id, wait_for, connection, rtsp_queue,
                 rtp, cmd, seeking, reply, calls, thread, outcome>>

RequestOf(c) ==
  CASE c = "play" -> "PLAY" [] c = "pause" -> "PAUSE" [] c = "close" -> "TEARDOWN"

(* The request is made of what static_sess points to, and sent; a licence
   that is not accepted or no memory make the call fail. *)
Send ==
  /\ apc = "send"
  /\ \/ AllSessions # {} /\ Ask(RequestOf(cmd), rtsp_queue, curr) /\ Sent
     \/ AllSessions # {} /\ Failed
     \/ /\ AllSessions = {} \/ Dangling
        /\ Crash /\ UNCHANGED <<comm_mutex, busy, wait_for, rtsp_queue, toServer>>
  /\ UNCHANGED <<status, response_id, active, toClient, server, curr, rtp, cmd, seeking,
                 reply, calls, thread, outcome>>

(* rtsp_wait: pthread_cond_wait while busy; a spurious wake-up changes nothing. *)
Wait ==
  /\ apc = "wait" /\ comm_mutex = None
  /\ apc' = IF busy THEN "asleep" ELSE "woken"
  /\ UNCHANGED <<comm_mutex, busy, status, response_id, wait_for, connection, sessions,
                 cmd, seeking, reply, calls, thread, outcome>>

(* get_RTSP_Error; its NULL for any other code, a redirection for one, is dereferenced. *)
Known == {0, Reinitialized, OK, 400, 403, 404, 406, 415, 451} \cup 453 .. 457
           \cup {461, 500, 501, 503, 505, 551}

(* The rest of rtsp_wait reads response_id without the mutex. *)
WaitReturns ==
  /\ apc = "woken"
  /\ reply' = response_id
  /\ apc' = CASE response_id \notin Known -> "crashed"
              [] seeking /\ response_id = OK -> "flush"
              [] OTHER -> "idle"
  /\ UNCHANGED <<comm_mutex, busy, status, response_id, wait_for, connection, sessions,
                 cmd, seeking, calls, thread, outcome>>

(* rtsp_seek empties the sources of rtp_th (RtpPlayout.tla has the details), which
   may be gone, and calls rtsp_play. *)
SeekPlay ==
  /\ apc = "flush" /\ seeking' = FALSE /\ UNCHANGED calls
  /\ \/ Begin("play")
     \/ /\ rtp = "freed" /\ Crash
        /\ UNCHANGED <<comm_mutex, busy, status, response_id, wait_for, connection,
                       sessions, cmd, reply, thread, outcome>>

(* Variant: the last reply is read even if none is expected. *)
LastReplyAlways == active

(* rtsp_clean's test for a last reply from the server. *)
LastReply == wait_for.res # None /\ active

(* rtsp_uninit cancels the RTSP thread, wherever it is, and joins it.  rtsp_clean
   reads what the server still has to say, if a reply is expected. *)
Uninit ==
  /\ apc = "idle" \/ (apc = "wait" /\ cmd = "close")
  /\ fin = "run"
  /\ Patient => rpc = "loop"
  /\ IF Dangling THEN Crash /\ UNCHANGED thread    \* frees the sessions twice
     ELSE /\ apc' = "join" /\ last_id' = NoId
          /\ IF LastReply
               THEN rpc' = "last" /\ fin' = "cancelled"
               ELSE rpc' = "reinit" /\ fin' = "final"
  /\ UNCHANGED <<comm_mutex, busy, status, response_id, wait_for, connection, sessions,
                 cmd, seeking, reply, calls, outcome>>

Joined ==
  /\ apc = "join" /\ rpc = "dead"
  /\ apc' = "done"
  /\ UNCHANGED <<comm_mutex, busy, status, response_id, wait_for, connection, sessions,
                 cmd, seeking, reply, calls, thread, outcome>>

-----------------------------------------------------------------------------
(* The RTSP thread.                                                        *)

Decided(o) == outcome' = IF outcome = None THEN o ELSE outcome

(* Where the thread goes once a message is dealt with. *)
Back ==
  /\ rpc' = CASE fin = "run" -> "loop" [] fin = "cancelled" -> "reinit" [] fin = "final" -> "dead"
  /\ fin' = IF fin = "cancelled" THEN "final" ELSE fin
  /\ last_id' = NoId

Readable == Running /\ rpc \in {"loop", "last"} /\ active /\ toClient # <<>>
Message == Head(toClient)

(* A handler returned 1, or the server died: the main loop calls rtsp_reinit, as
   rtsp_clean does in any case. *)
Drop ==
  /\ rpc' = "reinit"
  /\ fin' = IF fin = "cancelled" THEN "final" ELSE fin
  /\ Decided(IF Message = Eof THEN "died" ELSE "lost")
  /\ UNCHANGED last_id

(* Variant: any reply will do. *)
ExpectedAnyCSeq(m) == wait_for.res # None

(* The opcode check_response yields for the message is the one expected. *)
Expected(m) ==
  /\ wait_for.res # None
  /\ m.cseq = IF wait_for.res = "DESCRIBE" THEN 1 ELSE wait_for.cseq
  /\ wait_for.res \notin {"DESCRIBE", "SETUP"} => m.sess = wait_for.sess

(* The events the state machine has a case for. *)
Handled(ev) ==
  CASE status = "INIT" -> ev \in {"DESCRIBE", "SETUP"}
    [] status = "READY" -> ev \in {"PLAY", "TEARDOWN"}
    [] status = "PLAYING" -> ev \in {"PAUSE", "TEARDOWN"}

Valid(m) == m # Eof /\ Expected(m) /\ Handled(wait_for.res)

(* rtsp_recv returned 0, or the message has no place in the protocol. *)
RtspUnexpected ==
  /\ Readable /\ ~ Valid(Message)
  /\ toClient' = Tail(toClient)
  /\ Drop
  /\ UNCHANGED <<comm_mutex, busy, status, response_id, wait_for, active, toServer, server,
                 sessions, application>>

(* check_status on an error. *)
RtspRefused ==
  /\ Readable /\ Valid(Message) /\ Message.code \notin {OK, Found}
  /\ response_id' = Message.code
  /\ toClient' = Tail(toClient)
  /\ Drop
  /\ UNCHANGED <<comm_mutex, busy, status, wait_for, active, toServer, server, sessions,
                 application>>

(* check_status on a redirection to a location calls rtsp_open in this thread, then
   fails all the same.  rtsp_open clears busy when it fails, and signals nobody. *)
RtspRedirected ==
  /\ Readable /\ Valid(Message) /\ Message.code = Found
  /\ comm_mutex = None
  /\ response_id' = Found
  /\ \/ /\ status = "INIT" /\ busy' = TRUE
        /\ wait_for' = [wait_for EXCEPT !.res = "DESCRIBE"]
        /\ toServer' = <<[res |-> "DESCRIBE", cseq |-> 1, at |-> NULL]>>
        /\ UNCHANGED active
     \/ /\ status = "INIT" /\ busy' = FALSE /\ active' = FALSE
        /\ toServer' = <<>> /\ UNCHANGED wait_for
     \/ /\ status # "INIT" /\ busy' = FALSE
        /\ UNCHANGED <<active, toServer, wait_for>>
  /\ toClient' = IF status = "INIT" THEN <<>> ELSE Tail(toClient)
  /\ server' = IF status = "INIT" THEN Idle ELSE server
  /\ Drop
  /\ UNCHANGED <<comm_mutex, status, sessions, application>>

(* A reply that check_status and the handler for `ev' accept. *)
Accept(ev) ==
  /\ Readable /\ Valid(Message) /\ Message.code = OK /\ wait_for.res = ev
  /\ response_id' = OK
  /\ toClient' = Tail(toClient)
  /\ UNCHANGED <<comm_mutex, busy, active, server, application>>

(* Variant: rtsp_unbusy between two requests of one command. *)
ContinueUnbusy(res, queue, at) ==
  /\ Ask(res, queue, at) /\ rpc' = "lock" /\ UNCHANGED <<fin, last_id, outcome>>

(* A handler goes on with the next request, or fails to. *)
Continue(res, queue, at) ==
  \/ Ask(res, queue, at) /\ Back /\ UNCHANGED outcome
  \/ Drop /\ rtsp_queue' = queue /\ wait_for' = NoWait /\ UNCHANGED toServer

(* Variant: the state is not updated. *)
CompleteSameState(s) ==
  /\ wait_for' = NoWait /\ curr' = NULL
  /\ Decided("ok")
  /\ rpc' = "lock" /\ UNCHANGED <<status, fin, last_id, rtsp_queue, toServer>>

(* The command is complete: the new state, then rtsp_unbusy. *)
Complete(s) ==
  /\ status' = s /\ wait_for' = NoWait /\ curr' = NULL
  /\ Decided("ok")
  /\ rpc' = "lock" /\ UNCHANGED <<fin, last_id, rtsp_queue, toServer>>

(* handle_get_response: the sessions of the description, and the first SETUP. *)
RtspDescribed ==
  /\ Accept("DESCRIBE") /\ UNCHANGED <<status, rtp>>
  /\ IF DOMAIN Message.desc = {}
       THEN Drop /\ UNCHANGED <<rtsp_queue, wait_for, curr, toServer>>
       ELSE /\ curr' = First
            /\ Continue("SETUP",
                 [s \in DOMAIN Message.desc |-> [media |-> Message.desc[s], CSeq |-> 1]], First)

(* init_state on RTSP_SETUP_RESPONSE: the next medium, or the threads. *)
RtspSetUp ==
  /\ Accept("SETUP")
  /\ LET next == NextMedium(curr) IN
     IF next # NULL
       THEN Continue("SETUP", rtsp_queue, next) /\ curr' = next /\ UNCHANGED <<status, rtp>>
       ELSE Complete("READY") /\ rtp' = "running"

(* ready_state on RTSP_PLAY_RESPONSE: the next session. *)
RtspPlayed ==
  /\ Accept("PLAY") /\ UNCHANGED rtp
  /\ LET next == NextSession(curr) IN
     IF next # NULL
       THEN Continue("PLAY", rtsp_queue, next) /\ curr' = next /\ UNCHANGED status
       ELSE Complete("PLAYING")

(* playing_state on RTSP_PAUSE_RESPONSE. *)
RtspPaused ==
  /\ Accept("PAUSE") /\ UNCHANGED rtp
  /\ LET next == NextSession(curr) IN
     IF next # NULL
       THEN Continue("PAUSE", rtsp_queue, next) /\ curr' = next /\ UNCHANGED status
       ELSE Complete("READY")

(* RTSP_CLOSE_RESPONSE in both states: rtsp_reinit, and response_id put back after it. *)
RtspClosed ==
  /\ Accept("TEARDOWN")
  /\ status' = "INIT" /\ wait_for' = NoWait
  /\ last_id' = OK
  /\ Decided("ok")
  /\ rpc' = "reinit" /\ UNCHANGED <<fin, sessions, toServer>>

(* Variant: the threads are cancelled only for a container. *)
CancelsContainerOnly == Len(rtsp_queue) = 1 /\ rtp = "running"

(* The test of rtsp_reinit for threads to cancel. *)
Cancels == AllSessions # {} /\ rtp = "running"

(* rtsp_reinit cancels and joins the RTCP and the RTP thread, whose rtp_clean frees
   rtp_th, and frees the sessions. *)
Reinit ==
  /\ Running /\ rpc = "reinit" /\ rpc' = "clean"
  /\ rtp' = IF Cancels THEN "freed" ELSE rtp
  /\ UNCHANGED <<comm_mutex, busy, status, response_id, wait_for, connection, rtsp_queue,
                 curr, application, fin, last_id, outcome>>

(* clean_rtsp_th, to rtsp_unbusy. *)
Clean ==
  /\ Running /\ rpc = "clean" /\ rpc' = "clean_lock"
  /\ active' = FALSE /\ toServer' = <<>> /\ toClient' = <<>>
  /\ status' = "INIT" /\ wait_for' = NoWait /\ rtsp_queue' = <<>>
  /\ Decided("lost")
  /\ UNCHANGED <<comm_mutex, busy, response_id, server, curr, rtp, application, fin, last_id>>

(* rtsp_unbusy: a thread cancelled inside keeps the mutex. *)
UnbusyLock ==
  /\ Running /\ rpc \in {"lock", "clean_lock"} /\ comm_mutex = None
  /\ comm_mutex' = "rtsp"
  /\ rpc' = IF rpc = "lock" THEN "unlock" ELSE "clean_unlock"
  /\ UNCHANGED <<busy, status, response_id, wait_for, connection, sessions, application, fin,
                 last_id, outcome>>

(* Variant: nobody is signalled. *)
WokenNever == UNCHANGED apc

(* pthread_cond_signal. *)
Woken == apc' = IF apc = "asleep" THEN "wait" ELSE apc

Unbusy ==
  /\ Running /\ rpc \in {"unlock", "clean_unlock"}
  /\ comm_mutex' = None /\ busy' = FALSE
  /\ Woken
  /\ IF rpc = "unlock" THEN Back ELSE rpc' = "clean_id" /\ UNCHANGED <<fin, last_id>>
  /\ UNCHANGED <<status, response_id, wait_for, connection, sessions, cmd, seeking, reply,
                 calls, outcome>>

(* The end of clean_rtsp_th. *)
CleanId ==
  /\ Running /\ rpc = "clean_id"
  /\ response_id' = IF response_id \in {0, OK} THEN Reinitialized ELSE response_id
  /\ IF last_id = NoId THEN Back ELSE rpc' = "restore" /\ UNCHANGED <<fin, last_id>>
  /\ UNCHANGED <<comm_mutex, busy, status, wait_for, connection, sessions, application,
                 outcome>>

(* Back in the handler of RTSP_CLOSE_RESPONSE. *)
Restore ==
  /\ Running /\ rpc = "restore" /\ rpc' = "lock"
  /\ response_id' = last_id
  /\ curr' = NULL
  /\ UNCHANGED <<comm_mutex, busy, status, wait_for, connection, rtsp_queue, rtp, application,
                 fin, last_id, outcome>>

-----------------------------------------------------------------------------
(* The server: it answers one request after the other, may say what nobody asked
   for, and may close the connection.                                      *)

Served(r) ==
  CASE r.res = "SETUP" -> [server EXCEPT !.setup = @ \cup {r.at}]
    [] r.res = "PLAY" -> [server EXCEPT !.playing = @ \cup {r.at.sess}]
    [] r.res = "PAUSE" -> [server EXCEPT !.playing = @ \ {r.at.sess}]
    [] r.res = "TEARDOWN" ->
         [setup |-> {x \in server.setup : x.sess # r.at.sess},
          playing |-> server.playing \ {r.at.sess}]
    [] OTHER -> server

Alive == Running /\ active /\ \A k \in DOMAIN toClient : toClient[k] # Eof

Reply(r, code, desc) == [cseq |-> r.cseq, sess |-> r.at.sess, code |-> code, desc |-> desc]

ServerReplies ==
  /\ Alive /\ toServer # <<>>
  /\ \E code \in Codes,
        desc \in IF Head(toServer).res = "DESCRIBE" THEN Descriptions ELSE {<<>>} :
       /\ toClient' = Append(toClient, Reply(Head(toServer), code, desc))
       /\ server' = IF code = OK THEN Served(Head(toServer)) ELSE server
  /\ toServer' = Tail(toServer)
  /\ UNCHANGED <<comm_mutex, busy, status, response_id, wait_for, active, sessions,
                 application, thread, outcome>>

ServerStray ==
  /\ "stray" \in Faults /\ Alive /\ toClient = <<>>
  /\ toClient' = <<[cseq |-> 0, sess |-> 0, code |-> OK, desc |-> <<>>]>>
  /\ UNCHANGED <<comm_mutex, busy, status, response_id, wait_for, active, toServer, server,
                 sessions, application, thread, outcome>>

ServerDies ==
  /\ "dies" \in Faults /\ Alive
  /\ toServer' = <<>> /\ toClient' = Append(toClient, Eof)
  /\ UNCHANGED <<comm_mutex, busy, status, response_id, wait_for, active, server, sessions,
                 application, thread, outcome>>

-----------------------------------------------------------------------------

AppStep ==
  \/ Connect \/ OpenDescribe \/ Locate \/ Send \/ Wait \/ WaitReturns \/ SeekPlay
  \/ Joined
RtspStep ==
  \/ RtspUnexpected \/ RtspRefused \/ RtspRedirected
  \/ RtspDescribed \/ RtspSetUp \/ RtspPlayed \/ RtspPaused \/ RtspClosed
  \/ Reinit \/ Clean \/ UnbusyLock \/ Unbusy \/ CleanId \/ Restore
ServerStep == ServerReplies \/ ServerStray \/ ServerDies
Over == apc \in {"done", "crashed"}

Next ==
  \/ \E c \in Commands : Call(c)
  \/ Seek \/ Uninit \/ AppStep \/ RtspStep \/ ServerStep

(* The threads are scheduled; the server answers or closes the connection. *)
Spec ==
  /\ Init /\ [][Next]_vars
  /\ WF_vars(AppStep) /\ WF_vars(RtspStep) /\ WF_vars(ServerReplies)

-----------------------------------------------------------------------------

TypeOK ==
  /\ comm_mutex \in {None, "app", "rtsp"}
  /\ {busy, active, seeking} \subseteq BOOLEAN
  /\ status \in {"INIT", "READY", "PLAYING"}
  /\ response_id \in {0, Reinitialized} \cup Codes
  /\ wait_for \in [res : Methods \cup {None}, cseq : Nat, sess : 0 .. Len(rtsp_queue)]
  /\ curr \in AllMedia \cup {NULL} \/ AllSessions = {}
  /\ apc \in {"idle", "connect", "describe", "locate", "send", "wait", "asleep", "woken",
              "flush", "join", "done", "crashed"}
  /\ rpc \in {"loop", "last", "reinit", "clean", "clean_lock", "clean_unlock", "clean_id",
              "restore", "lock", "unlock", "dead"}

(* rtsp.c:231, "Waits for the main loop to handle the last given command": once
   rtsp_wait has returned, no reply is awaited on the connection and the command was
   carried out or has failed. *)
WaitMeansDone ==
  apc = "woken" => outcome # None /\ (active /\ rpc = "loop" => wait_for.res = None)

(* wait_for holds one expectation: there is one request at a time between the client
   and the server, over all sessions and media of a command. *)
InFlight == Len(toServer) + Cardinality({k \in DOMAIN toClient :
                                           toClient[k] # Eof /\ toClient[k].cseq # 0})
OneOutstanding == InFlight <= IF wait_for.res = None THEN 0 ELSE 1

(* Between commands client and server agree: every medium is set up once the client
   is READY, and every session plays, or none does, as its state says. *)
InStep ==
  rpc = "loop" /\ ~ busy /\ active =>
    CASE status = "INIT" -> apc \in {"connect", "describe"}
      [] status = "READY" -> server = [setup |-> AllMedia, playing |-> {}]
      [] status = "PLAYING" -> server = [setup |-> AllMedia, playing |-> AllSessions]

(* 200 from rtsp_wait means that the command had its effect, or that the connection
   is gone. *)
Target(c) == CASE c = "open" -> "READY" [] c = "play" -> "PLAYING"
               [] c = "pause" -> "READY" [] OTHER -> "INIT"
ReplyTruthful == apc = "idle" /\ reply = OK /\ active => status = Target(cmd)

(* One request is under way at a time, and when none is, client and server have
   the same idea of the stream. *)
RequestsOK == TypeOK /\ OneOutstanding /\ InStep

(* rtsp_wait returns when its command is over, with what became of it. *)
WaitTruthful == WaitMeansDone /\ ReplyTruthful

(* The RTP and RTCP threads run exactly while there is a stream to receive. *)
ThreadsMatchStatus == rpc = "loop" => (rtp = "running" <=> status # "INIT")

(* rtsp_wait returns, whatever the server answers. *)
WaitEnds == apc \in {"wait", "asleep"} ~> apc \notin {"wait", "asleep"}

(* rtsp.c:709-711: rtsp_uninit shuts the controller down and returns. *)
UninitEnds == apc = "join" ~> Over

(* rtsp.c:234-236: what rtsp_wait returns is RTSP_Reinitialized, never the reply to an
   earlier request, if the server went down before the command was carried out. *)
LossReported == [][reply' = OK /\ reply # OK => outcome # "died"]_vars

(* rtsp.h:68-70: TEARDOWN is sent for each medium.  handle_teardown_response's
   callers stop after the first session. *)
TornDown == cmd = "close" /\ outcome = "ok" => server.setup = {}

(* A call finds the session its test of the state promised. *)
NeverCrashes == Running

=============================================================================
