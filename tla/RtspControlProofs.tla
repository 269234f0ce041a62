------------------------- MODULE RtspControlProofs -------------------------
(* Proofs about the RTSP controller, for every description, status code and
   fault of the server and every number of commands: when the threads run, of
   every application; the talk with the server and the truth of rtsp_wait, of
   an application that is Patient. *)
EXTENDS RtspControl, FiniteSetTheorems, SequenceTheorems, TLAPS

(* A command other than DESCRIBE is about a session. *)
AsksOfSessions == wait_for.res \notin {None, "DESCRIBE"} => AllSessions # {}

(* What is waited for is a record, so that setting res has an effect. *)
WaitForRecord == "res" \in DOMAIN wait_for

(* Threads are cancelled with the sessions they belong to, so the test of rtsp_reinit
   for a session does not keep it from cancelling them. *)
ThreadsHaveSessions == rtp = "running" => AllSessions # {}

(* The RTSP thread until it is cancelled: the threads run as the status says, except
   between the decision to tear down and the join. *)
RunsByStatus ==
  fin = "run" =>
    /\ rpc \in {"loop", "lock", "unlock"} => (rtp = "running" <=> status # "INIT")
    /\ rpc \in {"clean_lock", "clean_unlock", "clean_id", "restore"} =>
         rtp # "running" /\ status = "INIT"
    /\ rpc \notin {"last", "dead"}

(* The inductive invariant. *)
IInv ==
  /\ WaitForRecord
  /\ AsksOfSessions
  /\ ThreadsHaveSessions
  /\ rpc = "clean" => rtp # "running"
  /\ RunsByStatus
  /\ fin \in {"run", "cancelled", "final"}
  /\ fin # "run" => rpc # "loop"

-----------------------------------------------------------------------------
(* The sessions: a request changes the CSeq of one and the number of none. *)
LEMMA AskKeeps ==
  ASSUME NEW res, NEW queue, NEW at, Ask(res, queue, at), DOMAIN queue # {}
  PROVE  /\ AllSessions' # {}
         /\ wait_for'.res = res /\ "res" \in DOMAIN wait_for'
BY DEF Ask, AllSessions

(* Where a thread goes after a message, in the invariant's terms. *)
LEMMA BackGoes ==
  ASSUME Back, fin \in {"run", "cancelled", "final"}
  PROVE  /\ fin' \in {"run", "cancelled", "final"}
         /\ fin' = "run" <=> fin = "run"
         /\ fin = "run" => rpc' = "loop"
         /\ fin # "run" => rpc' \in {"reinit", "dead"}
BY DEF Back

(* Where it goes after a handler that gave up. *)
LEMMA DropGoes ==
  ASSUME Drop, fin \in {"run", "cancelled", "final"}
  PROVE  /\ fin' \in {"run", "cancelled", "final"}
         /\ fin' = "run" <=> fin = "run"
         /\ rpc' = "reinit"
BY DEF Drop

-----------------------------------------------------------------------------
(* The invariant holds before the first call. *)
THEOREM InitIInv == Init => IInv
BY DEF Init, IInv, WaitForRecord, AsksOfSessions, ThreadsHaveSessions, RunsByStatus, NoWait, AllSessions

(* The steps of the application. *)
LEMMA AppKeeps ==
  ASSUME IInv, AppStep \/ Seek \/ Uninit \/ \E c \in Commands : Call(c)
  PROVE  IInv'
<1> USE DEF IInv, WaitForRecord, AsksOfSessions, ThreadsHaveSessions, RunsByStatus, AllSessions
<1>1. CASE \E c \in Commands : Call(c)
  BY <1>1 DEF Call, Begin, connection, sessions, thread
<1>2. CASE Seek
  BY <1>2 DEF Seek, Begin, connection, sessions, thread
<1>3. CASE Uninit
  BY <1>3 DEF Uninit, Dangling, Crash, connection, sessions, thread
<1>4. CASE Connect
  BY <1>4 DEF Connect, Failed, thread
<1>5. CASE OpenDescribe
  BY <1>5 DEF OpenDescribe, Describe, Transmit, Sent, Crash, thread
<1>6. CASE Locate
  BY <1>6 DEF Locate, Crash, connection, thread
<1>7. CASE Send
  <2>1. ASSUME AllSessions # {}, Ask(RequestOf(cmd), rtsp_queue, curr)
        PROVE  AllSessions' # {} /\ "res" \in DOMAIN wait_for'
    BY <2>1, AskKeeps
  <2>2. CASE UNCHANGED <<wait_for, rtsp_queue>>
    BY <1>7, <2>2 DEF Send, thread
  <2>3. CASE AllSessions # {} /\ Ask(RequestOf(cmd), rtsp_queue, curr)
    BY <1>7, <2>1, <2>3 DEF Send, thread
  <2> QED BY <1>7, <2>2, <2>3 DEF Send, Failed
<1>8. CASE Wait
  BY <1>8 DEF Wait, connection, sessions, thread
<1>9. CASE WaitReturns
  BY <1>9 DEF WaitReturns, connection, sessions, thread
<1>10. CASE SeekPlay
  BY <1>10 DEF SeekPlay, Begin, Crash, connection, sessions, thread
<1>11. CASE Joined
  BY <1>11 DEF Joined, connection, sessions, thread
<1> QED BY <1>1, <1>2, <1>3, <1>4, <1>5, <1>6, <1>7, <1>8, <1>9, <1>10, <1>11 DEF AppStep

(* The handlers of a reply that is not accepted: the session is dropped. *)
LEMMA RejectKeeps ==
  ASSUME IInv, RtspUnexpected \/ RtspRefused \/ RtspRedirected
  PROVE  IInv'
<1> USE DEF IInv, WaitForRecord, AsksOfSessions, ThreadsHaveSessions, RunsByStatus, AllSessions
<1>1. CASE RtspUnexpected
  BY <1>1, DropGoes DEF RtspUnexpected, sessions
<1>2. CASE RtspRefused
  BY <1>2, DropGoes DEF RtspRefused, sessions
<1>3. CASE RtspRedirected
  <2>1. wait_for' = wait_for \/ wait_for' = [wait_for EXCEPT !.res = "DESCRIBE"]
    BY <1>3 DEF RtspRedirected
  <2> QED BY <1>3, <2>1, DropGoes DEF RtspRedirected, sessions
<1> QED BY <1>1, <1>2, <1>3

(* A handler that sends the next request of a command, or fails to. *)
LEMMA ContinueKeeps ==
  ASSUME IInv, NEW res, NEW queue, NEW at,
         Continue(res, queue, at), DOMAIN queue # {},
         rpc \in {"loop", "last"}, UNCHANGED <<status, rtp>>
  PROVE  IInv'
<1> USE DEF IInv, WaitForRecord, AsksOfSessions, ThreadsHaveSessions, RunsByStatus
<1>1. CASE Ask(res, queue, at) /\ Back
  BY <1>1, AskKeeps, BackGoes
<1>2. CASE Drop /\ rtsp_queue' = queue /\ wait_for' = NoWait
  BY <1>2, DropGoes DEF AllSessions, NoWait
<1> QED BY <1>1, <1>2 DEF Continue

(* A handler that ends a command in state s, which is one with a stream. *)
LEMMA CompleteKeeps ==
  ASSUME IInv, NEW s, Complete(s), s # "INIT",
         fin = "run" => rtp' = "running",
         rtp' = "running" => AllSessions # {}
  PROVE  IInv'
BY DEF Complete, NoWait, IInv, WaitForRecord, AsksOfSessions, ThreadsHaveSessions,
       RunsByStatus, AllSessions

(* A reply to PLAY or PAUSE is accepted while the threads run. *)
LEMMA AcceptedWhileRunning ==
  ASSUME IInv, NEW ev \in {"PLAY", "PAUSE", "TEARDOWN"}, Accept(ev), fin = "run"
  PROVE  rtp = "running"
<1>1. rpc = "loop"
  BY DEF Accept, Readable, IInv, RunsByStatus
<1>2. status # "INIT"
  BY DEF Accept, Valid, Handled
<1> QED BY <1>1, <1>2 DEF IInv, RunsByStatus

(* The handlers of an accepted reply. *)
LEMMA AcceptKeeps ==
  ASSUME IInv,
         RtspDescribed \/ RtspSetUp \/ RtspPlayed \/ RtspPaused \/ RtspClosed
  PROVE  IInv'
<1>1. CASE RtspDescribed
  <2>1. rpc \in {"loop", "last"} /\ UNCHANGED <<status, rtp>>
    BY <1>1 DEF RtspDescribed, Accept, Readable
  <2>2. CASE DOMAIN Message.desc = {}
    BY <1>1, <2>1, <2>2, DropGoes
       DEF RtspDescribed, IInv, WaitForRecord, AsksOfSessions, ThreadsHaveSessions,
           RunsByStatus, AllSessions
  <2>3. CASE DOMAIN Message.desc # {}
    <3> DEFINE queue == [s \in DOMAIN Message.desc |-> [media |-> Message.desc[s], CSeq |-> 1]]
    <3>1. DOMAIN queue # {}
      BY <2>3
    <3>2. Continue("SETUP", queue, First)
      BY <1>1, <2>3 DEF RtspDescribed
    <3> QED BY <2>1, <3>1, <3>2, ContinueKeeps
  <2> QED BY <2>2, <2>3
<1>2. CASE RtspSetUp
  <2>1. rpc \in {"loop", "last"} /\ AllSessions # {}
    BY <1>2 DEF RtspSetUp, Accept, Readable, IInv, AsksOfSessions, None
  <2>2. CASE NextMedium(curr) # NULL
    BY <1>2, <2>1, <2>2, ContinueKeeps DEF RtspSetUp, AllSessions
  <2>3. CASE NextMedium(curr) = NULL
    BY <1>2, <2>1, <2>3, CompleteKeeps DEF RtspSetUp
  <2> QED BY <2>2, <2>3
<1>3. CASE RtspPlayed
  <2>1. rpc \in {"loop", "last"} /\ AllSessions # {} /\ UNCHANGED rtp
    BY <1>3 DEF RtspPlayed, Accept, Readable, IInv, AsksOfSessions, None
  <2>2. CASE NextSession(curr) # NULL
    BY <1>3, <2>1, <2>2, ContinueKeeps DEF RtspPlayed, AllSessions
  <2>3. CASE NextSession(curr) = NULL
    <3>1. fin = "run" => rtp' = "running"
      BY <1>3, <2>1, AcceptedWhileRunning DEF RtspPlayed
    <3> QED BY <1>3, <2>1, <2>3, <3>1, CompleteKeeps DEF RtspPlayed
  <2> QED BY <2>2, <2>3
<1>4. CASE RtspPaused
  <2>1. rpc \in {"loop", "last"} /\ AllSessions # {} /\ UNCHANGED rtp
    BY <1>4 DEF RtspPaused, Accept, Readable, IInv, AsksOfSessions, None
  <2>2. CASE NextSession(curr) # NULL
    BY <1>4, <2>1, <2>2, ContinueKeeps DEF RtspPaused, AllSessions
  <2>3. CASE NextSession(curr) = NULL
    <3>1. fin = "run" => rtp' = "running"
      BY <1>4, <2>1, AcceptedWhileRunning DEF RtspPaused
    <3> QED BY <1>4, <2>1, <2>3, <3>1, CompleteKeeps DEF RtspPaused
  <2> QED BY <2>2, <2>3
<1>5. CASE RtspClosed
  BY <1>5 DEF RtspClosed, NoWait, sessions, IInv, WaitForRecord, AsksOfSessions,
              ThreadsHaveSessions, RunsByStatus, AllSessions
<1> QED BY <1>1, <1>2, <1>3, <1>4, <1>5

-----------------------------------------------------------------------------
(* Tear-down: rtsp_reinit, clean_rtsp_th and rtsp_unbusy. *)
LEMMA TearDownKeeps ==
  ASSUME IInv,
         Reinit \/ Clean \/ UnbusyLock \/ Unbusy \/ CleanId \/ Restore
  PROVE  IInv'
<1> USE DEF IInv, WaitForRecord, AsksOfSessions, ThreadsHaveSessions, RunsByStatus,
            AllSessions
<1>1. CASE Reinit
  BY <1>1 DEF Reinit, Cancels
<1>2. CASE Clean
  BY <1>2 DEF Clean, NoWait
<1>3. CASE UnbusyLock
  BY <1>3 DEF UnbusyLock, sessions
<1>4. CASE Unbusy
  BY <1>4, BackGoes DEF Unbusy, sessions
<1>5. CASE CleanId
  BY <1>5, BackGoes DEF CleanId, sessions
<1>6. CASE Restore
  BY <1>6 DEF Restore
<1> QED BY <1>1, <1>2, <1>3, <1>4, <1>5, <1>6

(* The server changes nothing of the client. *)
LEMMA ServerKeeps ==
  ASSUME IInv, ServerStep
  PROVE  IInv'
BY DEF ServerStep, ServerReplies, ServerStray, ServerDies, sessions, thread,
       IInv, WaitForRecord, AsksOfSessions, ThreadsHaveSessions, RunsByStatus, AllSessions

(* The invariant is inductive. *)
THEOREM NextIInv == IInv /\ [Next]_vars => IInv'
<1> SUFFICES ASSUME IInv, [Next]_vars PROVE IInv'
  OBVIOUS
<1>1. CASE AppStep \/ Seek \/ Uninit \/ \E c \in Commands : Call(c)
  BY <1>1, AppKeeps
<1>2. CASE RtspStep
  BY <1>2, RejectKeeps, AcceptKeeps, TearDownKeeps DEF RtspStep
<1>3. CASE ServerStep
  BY <1>3, ServerKeeps
<1>4. CASE UNCHANGED vars
  BY <1>4 DEF vars, sessions, thread, IInv, WaitForRecord, AsksOfSessions,
              ThreadsHaveSessions, RunsByStatus, AllSessions
<1> QED BY <1>1, <1>2, <1>3, <1>4 DEF Next

(* rtsp.c and rtsp_state_machine.c: whatever the server answers and however the calls
   fall, the RTP and RTCP threads run exactly while the controller is READY or PLAYING,
   as seen whenever the RTSP thread is back in its loop; none is left behind by a refused
   request, a lost connection or a TEARDOWN. *)
THEOREM ThreadsFollowStatus == Spec => []ThreadsMatchStatus
<1>1. Init => IInv
  BY InitIInv
<1>2. IInv /\ [Next]_vars => IInv'
  BY NextIInv
<1>3. IInv => ThreadsMatchStatus
  BY DEF IInv, RunsByStatus, ThreadsMatchStatus
<1> QED BY <1>1, <1>2, <1>3, PTL DEF Spec

-----------------------------------------------------------------------------
(* The talk between client and server, and what rtsp_wait returns, for an
   application that is Patient. *)
InCalls == {"locate", "connect", "describe", "send"}
Resting == {"idle", "woken", "flush"}
Waiting == {"wait", "asleep"}
Tearing == {"clean_lock", "clean_unlock", "clean_id", "restore"}

(* What travels between client and server. *)
Medium == [sess : Nat, med : Nat]
Request == [res : Methods, cseq : Nat, at : Medium]
Messages == [cseq : Int, sess : Nat, code : Nat, desc : Seq(Nat \ {0})]
IsReply(m) == m # Eof /\ m.cseq # 0
Replies == {k \in DOMAIN toClient : IsReply(toClient[k])}
Nothing == toServer = <<>> /\ Replies = {}

Typed ==
  /\ TypeOK
  /\ rtsp_queue \in Seq([media : Nat \ {0}, CSeq : Nat])
  /\ curr \in Medium
  /\ toServer \in Seq(Request) /\ toClient \in Seq(Messages)
  /\ server \in [setup : SUBSET Medium, playing : SUBSET Nat]
  /\ cmd \in Commands \cup {None}
  /\ fin \in {"run", "cancelled", "final"}
  /\ last_id \in {NoId} \cup ({OK} \cap Codes)

(* The CSeq of the request that is waited for. *)
AwaitedCSeq == IF wait_for.res = "DESCRIBE" THEN 1 ELSE wait_for.cseq

(* One request or one reply is under way at most, and it is what is waited for. *)
Exchange ==
  /\ Len(toServer) <= 1
  /\ \A j, k \in Replies : j = k
  /\ toServer # <<>> => Replies = {}
  /\ wait_for.res = None => Nothing
  /\ ~ active => toServer = <<>> /\ toClient = <<>>
  /\ toServer # <<>> =>
       toServer[1] = [res |-> wait_for.res, cseq |-> AwaitedCSeq,
                      at |-> IF wait_for.res = "DESCRIBE" THEN NULL ELSE curr]
  /\ \A k \in Replies : /\ toClient[k].cseq = AwaitedCSeq /\ toClient[k].code \in Codes
                        /\ wait_for.res = "DESCRIBE" => toClient[k].desc \in Descriptions
  /\ wait_for.res \notin {None, "DESCRIBE"} =>
       /\ curr \in AllMedia /\ wait_for.sess = curr.sess /\ wait_for.cseq > 0

(* The client waits while something is under way, and is told once. *)
Turns ==
  /\ ~ Nothing => busy /\ apc \notin InCalls \cup Resting
  /\ apc \in InCalls => /\ busy /\ comm_mutex = "app"
                        /\ rpc \in {"loop", "reinit", "clean", "clean_lock"}
  /\ rpc \in {"unlock", "clean_unlock"} => comm_mutex = "rtsp"
  /\ apc \in Resting => ~ busy
  /\ rpc = "loop" /\ ~ (busy /\ apc \notin InCalls) => wait_for.res = None
  /\ rpc \in {"lock", "unlock"} => wait_for.res = None
  /\ rpc \in {"lock", "unlock"} /\ active => busy /\ apc \notin InCalls \cup Resting
  /\ rpc \in {"lock", "unlock"} \cup Tearing => outcome # None
  /\ apc \in {"wait", "asleep", "woken"} /\ ~ busy => outcome # None

Places ==
  /\ rpc \in Tearing => ~ active /\ status = "INIT" /\ rtsp_queue = <<>> /\ wait_for.res = None
  /\ rpc = "restore" => last_id # NoId
  /\ rpc \in {"lock", "unlock"} /\ active => status # "INIT"
  /\ status # "INIT" => active /\ rtsp_queue # <<>>
  /\ apc \in {"connect", "describe"} => cmd = "open" /\ status = "INIT"
  /\ apc = "connect" => ~ active /\ rpc = "loop"
  /\ apc \in {"locate", "send"} => cmd \in {"play", "pause", "close"}
  /\ apc \in {"locate", "send"} /\ rpc # "clean_lock" => Allowed(cmd)
  /\ apc = "send" /\ rtsp_queue # <<>> => curr = First
  /\ fin = "run" => rpc \notin {"last", "dead"}
  /\ rpc = "loop" => fin = "run"
  /\ apc \in InCalls \cup Resting \cup Waiting => fin = "run"
  /\ apc \in InCalls \cup {"idle", "flush"} => wait_for.res = None
  /\ apc \in {"wait", "asleep", "woken"} /\ ~ busy /\ wait_for.res # None =>
       response_id = Found

RequestsOf(c) ==
  CASE c = "open" -> {"DESCRIBE", "SETUP"} [] c = "play" -> {"PLAY"}
    [] c = "pause" -> {"PAUSE"} [] OTHER -> {"TEARDOWN"}

Truth ==
  /\ rpc = "loop" /\ apc \in Waiting /\ wait_for.res # None => wait_for.res \in RequestsOf(cmd)
  /\ rpc \in {"lock", "unlock"} /\ active /\ apc \in Waiting => status = Target(cmd)
  /\ apc \in {"wait", "asleep", "woken"} /\ ~ busy /\ active /\ response_id = OK
       => status = Target(cmd)
  /\ ReplyTruthful
  /\ apc \in InCalls => reply = NoId

Before(at) == {x \in AllMedia : x.sess < at.sess \/ (x.sess = at.sess /\ x.med < at.med)}
Answered == \E k \in Replies : toClient[k].code = OK

SetUp ==
  wait_for.res = "SETUP" =>
    /\ server.playing = {}
    /\ toServer # <<>> => server.setup = Before(curr)
    /\ Answered => server.setup = Before(curr) \cup {curr}

Playing ==
  status = "READY" =>
    /\ wait_for.res = None => server.playing = {}
    /\ wait_for.res = "PLAY" =>
         /\ toServer # <<>> => server.playing = 1 .. curr.sess - 1
         /\ Answered => server.playing = 1 .. curr.sess

Pausing ==
  status = "PLAYING" =>
    /\ wait_for.res = None => server.playing = AllSessions
    /\ wait_for.res = "PAUSE" =>
         /\ toServer # <<>> => server.playing = curr.sess .. Len(rtsp_queue)
         /\ Answered => server.playing = curr.sess + 1 .. Len(rtsp_queue)

Sync ==
  rpc \in {"loop", "lock", "unlock"} /\ active /\ fin = "run" =>
    /\ status = "INIT" =>
         /\ wait_for.res \in {None, "DESCRIBE", "SETUP"}
         /\ wait_for.res # "SETUP" => server = Idle
         /\ rpc = "loop" /\ wait_for.res = None => apc = "describe"
    /\ status # "INIT" =>
         /\ wait_for.res \in {None, "PLAY", "PAUSE", "TEARDOWN"}
         /\ wait_for.res # "TEARDOWN" => server.setup = AllMedia
    /\ wait_for.res = "PAUSE" => status = "PLAYING"
    /\ SetUp /\ Playing /\ Pausing

TalkInv == Typed /\ Exchange /\ Turns /\ Places /\ Truth /\ Sync

-----------------------------------------------------------------------------
(* The media of the sessions. *)
LEMMA InMedia ==
  ASSUME Typed
  PROVE  /\ Len(rtsp_queue) \in Nat /\ AllSessions = 1 .. Len(rtsp_queue)
         /\ \A s \in AllSessions : rtsp_queue[s] \in [media : Nat \ {0}, CSeq : Nat]
         /\ \A x : x \in AllMedia <=> /\ x \in Medium /\ x.sess \in 1 .. Len(rtsp_queue)
                                      /\ x.med \in 1 .. rtsp_queue[x.sess].media
         /\ rtsp_queue = <<>> <=> Len(rtsp_queue) = 0
         /\ rtsp_queue # <<>> => First \in AllMedia
<1>1. /\ Len(rtsp_queue) \in Nat /\ AllSessions = 1 .. Len(rtsp_queue)
      /\ \A s \in AllSessions : rtsp_queue[s] \in [media : Nat \ {0}, CSeq : Nat]
      /\ rtsp_queue = <<>> <=> Len(rtsp_queue) = 0
  <2>1. rtsp_queue \in Seq([media : Nat \ {0}, CSeq : Nat])
    BY DEF Typed
  <2>2. Len(rtsp_queue) \in Nat /\ AllSessions = 1 .. Len(rtsp_queue)
    BY <2>1, LenProperties DEF AllSessions
  <2>3. \A s \in AllSessions : rtsp_queue[s] \in [media : Nat \ {0}, CSeq : Nat]
    BY <2>1, <2>2, ElementOfSeq
  <2>4. rtsp_queue = <<>> <=> Len(rtsp_queue) = 0
    BY <2>1, EmptySeq
  <2> QED BY <2>2, <2>3, <2>4
<1>2. ASSUME NEW x
      PROVE  x \in AllMedia <=> /\ x \in Medium /\ x.sess \in 1 .. Len(rtsp_queue)
                                /\ x.med \in 1 .. rtsp_queue[x.sess].media
  <2>1. ASSUME x \in AllMedia
        PROVE  /\ x \in Medium /\ x.sess \in 1 .. Len(rtsp_queue)
               /\ x.med \in 1 .. rtsp_queue[x.sess].media
    <3>1. PICK s \in AllSessions : x \in {[sess |-> s, med |-> m] : m \in 1 .. rtsp_queue[s].media}
      BY <2>1 DEF AllMedia
    <3>2. PICK m \in 1 .. rtsp_queue[s].media : x = [sess |-> s, med |-> m]
      BY <3>1
    <3> QED BY <1>1, <3>1, <3>2 DEF Medium
  <2>2. ASSUME x \in Medium, x.sess \in 1 .. Len(rtsp_queue),
               x.med \in 1 .. rtsp_queue[x.sess].media
        PROVE  x \in AllMedia
    <3>1. x = [sess |-> x.sess, med |-> x.med]
      BY <2>2 DEF Medium
    <3>2. x \in {[sess |-> x.sess, med |-> m] : m \in 1 .. rtsp_queue[x.sess].media}
      BY <2>2, <3>1
    <3> QED BY <1>1, <2>2, <3>2 DEF AllMedia
  <2> QED BY <2>1, <2>2
<1>3. rtsp_queue # <<>> => First \in AllMedia
  <2>1. First \in Medium /\ First.sess = 1 /\ First.med = 1
    BY DEF First, Medium
  <2> QED BY <1>1, <1>2, <2>1
<1> QED BY <1>1, <1>2, <1>3

(* The sessions keep their media, and so does what is before a medium. *)
LEMMA MediaStay ==
  ASSUME Len(rtsp_queue') = Len(rtsp_queue), AllSessions' = AllSessions,
         \A s \in AllSessions : rtsp_queue'[s].media = rtsp_queue[s].media
  PROVE  AllMedia' = AllMedia
BY DEF AllMedia

(* The replies in a connection that gets a message, and that loses one. *)
LEMMA AppendedReplies ==
  ASSUME toClient \in Seq(Messages), NEW m \in Messages, toClient' = Append(toClient, m)
  PROVE  /\ toClient' \in Seq(Messages) /\ toClient' # <<>>
         /\ IsReply(m) => Replies' = Replies \cup {Len(toClient) + 1}
         /\ ~ IsReply(m) => Replies' = Replies
         /\ \A k \in Replies : toClient'[k] = toClient[k]
         /\ toClient'[Len(toClient) + 1] = m
         /\ toClient = <<>> => Replies = {}
<1>1. /\ toClient' \in Seq(Messages) /\ Len(toClient) \in Nat
      /\ Len(toClient') = Len(toClient) + 1 /\ toClient'[Len(toClient) + 1] = m
      /\ \A k \in 1 .. Len(toClient) : toClient'[k] = toClient[k]
      /\ DOMAIN toClient = 1 .. Len(toClient) /\ DOMAIN toClient' = 1 .. Len(toClient')
      /\ toClient' # <<>>
  BY AppendProperties, LenProperties, EmptySeq
<1>2. \A k : k \in Replies' <=> k \in DOMAIN toClient' /\ IsReply(toClient'[k])
  BY DEF Replies, IsReply, Eof
<1>3. \A k : k \in Replies <=> k \in DOMAIN toClient /\ IsReply(toClient[k])
  BY DEF Replies
<1>4. toClient = <<>> => Replies = {}
  BY DEF Replies
<1> QED BY <1>1, <1>2, <1>3, <1>4

(* The replies in a connection that loses its first message. *)
LEMMA TailReplies ==
  ASSUME toClient \in Seq(Messages), toClient # <<>>, toClient' = Tail(toClient)
  PROVE  /\ toClient' \in Seq(Messages) /\ Message \in Messages /\ Message = toClient[1]
         /\ \A k : k \in Replies' <=> k \in Nat \ {0} /\ k + 1 \in Replies
         /\ \A k \in Replies' : toClient'[k] = toClient[k + 1]
         /\ IsReply(Message) <=> 1 \in Replies
<1>1. /\ toClient' \in Seq(Messages) /\ Message \in Messages /\ Message = toClient[1]
      /\ Len(toClient) \in Nat /\ Len(toClient) > 0 /\ Len(toClient') = Len(toClient) - 1
      /\ \A k \in 1 .. Len(toClient) - 1 : toClient'[k] = toClient[k + 1]
      /\ DOMAIN toClient = 1 .. Len(toClient) /\ DOMAIN toClient' = 1 .. Len(toClient')
  BY HeadTailProperties, LenProperties, EmptySeq DEF Message
<1>2. \A k : k \in Replies' <=> k \in DOMAIN toClient' /\ IsReply(toClient'[k])
  BY DEF Replies, IsReply, Eof
<1>3. \A k : k \in Replies <=> k \in DOMAIN toClient /\ IsReply(toClient[k])
  BY DEF Replies
<1> QED BY <1>1, <1>2, <1>3

(* Steps that leave the connection alone leave what is under way. *)
LEMMA ExchangeStays ==
  ASSUME Exchange, UNCHANGED <<wait_for, toServer, toClient, active, rtsp_queue, curr>>
  PROVE  Exchange' /\ (Nothing' <=> Nothing)
BY DEF Exchange, Nothing, Replies, IsReply, Eof, AwaitedCSeq, AllMedia, AllSessions

(* Steps that leave connection, sessions and status alone leave client and server in step. *)
LEMMA SyncStays ==
  ASSUME Sync,
         UNCHANGED <<wait_for, toServer, toClient, active, rtsp_queue, curr, server, status>>,
         rpc' \in {"loop", "lock", "unlock"} /\ active /\ fin' = "run" =>
           /\ rpc \in {"loop", "lock", "unlock"} /\ fin = "run"
           /\ rpc' = "loop" /\ status = "INIT" /\ wait_for.res = None =>
                apc' = "describe"
  PROVE  Sync'
<1>1. /\ Replies' = Replies /\ Answered' = Answered /\ AllMedia' = AllMedia
      /\ AllSessions' = AllSessions /\ Before(curr)' = Before(curr)
  BY DEF Replies, IsReply, Eof, Answered, AllMedia, AllSessions, Before
<1>2. (SetUp' <=> SetUp) /\ (Playing' <=> Playing) /\ (Pausing' <=> Pausing)
  BY <1>1 DEF SetUp, Playing, Pausing
<1> QED BY <1>1, <1>2 DEF Sync

(* The steps of the application that send nothing. *)
LEMMA QuietTyped ==
  ASSUME Typed, UNCHANGED <<status, response_id, wait_for, connection, rtsp_queue, rtp>>,
         comm_mutex' \in {None, "app", "rtsp"}, {busy', seeking'} \subseteq BOOLEAN,
         curr' = curr \/ (curr' = First /\ AllSessions # {}),
         apc' \in {"idle", "connect", "describe", "locate", "send", "wait", "asleep", "woken",
                   "flush", "join", "done", "crashed"},
         rpc' \in {"loop", "last", "reinit", "clean", "clean_lock", "clean_unlock", "clean_id",
                   "restore", "lock", "unlock", "dead"},
         cmd' \in Commands \cup {None}, fin' \in {"run", "cancelled", "final"},
         last_id' \in {last_id, NoId}
  PROVE  Typed'
<1>1. AllMedia' = AllMedia /\ AllSessions' = AllSessions
  BY DEF AllMedia, AllSessions
<1>2. AllSessions # {} => First \in AllMedia
  BY InMedia
<1>3. First \in Medium
  BY DEF First, Medium
<1>4. TypeOK'
  BY <1>1, <1>2 DEF Typed, TypeOK, connection
<1> QED BY <1>3, <1>4 DEF Typed, connection

(* The head of a call. *)
LEMMA BeginTalks ==
  ASSUME TalkInv, Patient, NEW c \in Commands, Begin(c), apc \in {"idle", "flush"},
         seeking' \in BOOLEAN, c = "open" => rpc = "loop"
  PROVE  TalkInv'
<1> USE DEF TalkInv
<1>1. /\ comm_mutex = None /\ cmd' = c /\ reply' = NoId
      /\ UNCHANGED <<status, response_id, wait_for, connection, rtsp_queue, curr, rtp,
                     rpc, fin, last_id>>
      /\ \/ /\ Allowed(c) /\ comm_mutex' = "app" /\ busy' = TRUE /\ outcome' = None
            /\ apc' = IF c = "open" THEN "connect" ELSE "locate"
         \/ /\ ~ Allowed(c) /\ busy' = FALSE /\ apc' = "idle"
            /\ UNCHANGED <<comm_mutex, outcome>>
  BY DEF Begin, sessions, thread
<1>2. UNCHANGED <<active, toServer, toClient, server>>
  BY <1>1 DEF connection
<1>3. Nothing /\ ~ busy /\ Exchange' /\ (Nothing' <=> Nothing)
  BY <1>1, <1>2, ExchangeStays DEF Turns, Resting
<1>4. Typed'
  <2>1. /\ comm_mutex' \in {None, "app", "rtsp"} /\ busy' \in BOOLEAN
        /\ apc' \in {"idle", "connect", "locate"}
    BY <1>1 DEF Typed, TypeOK
  <2>2. /\ {busy', seeking'} \subseteq BOOLEAN /\ cmd' \in Commands \cup {None}
        /\ fin' \in {"run", "cancelled", "final"} /\ last_id' \in {last_id, NoId}
        /\ rpc' \in {"loop", "last", "reinit", "clean", "clean_lock", "clean_unlock", "clean_id",
                     "restore", "lock", "unlock", "dead"}
    BY <1>1, <2>1 DEF Typed, TypeOK
  <2> QED BY <1>1, <2>1, <2>2, QuietTyped
<1>5. Turns'
  <2>1. Allowed(c) => rpc \in {"loop", "reinit", "clean"}
    <3>1. Allowed(c) /\ c # "open" => status # "INIT"
      BY DEF Allowed, Commands
    <3>2. status # "INIT" => rpc \notin {"lock", "unlock", "last", "dead"} \cup Tearing
      BY <1>3 DEF Turns, Places, Resting, Typed
    <3> QED BY <3>1, <3>2 DEF Typed, TypeOK, Tearing
  <2>2. CASE Allowed(c)
    <3>1. busy' = TRUE /\ apc' \in InCalls /\ comm_mutex' = "app" /\ rpc' \in {"loop", "reinit", "clean"}
      BY <1>1, <2>1, <2>2 DEF InCalls
    <3>2. wait_for' = wait_for /\ (rpc = "loop" => wait_for.res = None) /\ Nothing'
      BY <1>1, <1>3 DEF Turns
    <3> QED BY <1>1, <3>1, <3>2 DEF Turns, Resting, InCalls, Tearing
  <2>3. CASE ~ Allowed(c)
    <3>1. busy' = FALSE /\ apc' = "idle" /\ UNCHANGED <<comm_mutex, outcome>>
      BY <1>1, <2>3
    <3> QED BY <1>1, <1>2, <1>3, <3>1 DEF Turns, Resting, InCalls, Tearing
  <2> QED BY <2>2, <2>3
<1>6. Places'
  BY <1>1, <1>2 DEF Places, Allowed, Turns, Resting, Sync, Tearing, Commands
<1>7. Truth'
  BY <1>1, <1>2, <1>3 DEF Truth, ReplyTruthful, InCalls, Turns, Waiting, Resting, NoId, OK
<1>8. Sync'
  <2>1. rpc = "loop" /\ active /\ fin = "run" /\ status = "INIT" => wait_for.res # None
    BY <1>1 DEF Sync
  <2> QED BY <1>1, <1>2, <2>1, SyncStays
<1> QED BY <1>3, <1>4, <1>5, <1>6, <1>7, <1>8


(* The steps of the application that send nothing. *)
LEMMA LocateTalks ==
  ASSUME TalkInv, Locate
  PROVE  TalkInv'
<1> USE DEF TalkInv
<1>1. /\ apc = "locate"
      /\ UNCHANGED <<comm_mutex, busy, status, response_id, wait_for, connection, rtsp_queue,
                     rtp, cmd, seeking, reply, calls, thread, outcome>>
      /\ UNCHANGED <<active, toServer, toClient, server, rpc, fin, last_id>>
  BY DEF Locate, connection, thread
<1>2. /\ Nothing /\ busy /\ comm_mutex = "app" /\ rpc \in {"loop", "reinit", "clean", "clean_lock"}
      /\ wait_for.res = None /\ cmd \in {"play", "pause", "close"}
      /\ rpc # "clean_lock" => status # "INIT" /\ rtsp_queue # <<>>
  BY <1>1 DEF Turns, Places, InCalls, Resting, Allowed
<1>3. \/ AllSessions # {} /\ curr' = First /\ apc' = "send"
      \/ apc' = "crashed" /\ curr' = curr /\ (AllSessions = {} \/ rpc = "clean")
  BY DEF Locate, Crash, Dangling
<1>4. Nothing' /\ Replies' = Replies /\ AllMedia' = AllMedia /\ AllSessions' = AllSessions
  BY <1>1, <1>2 DEF Nothing, Replies, IsReply, Eof, AllMedia, AllSessions
<1>5. Typed'
  <2>1. /\ comm_mutex' \in {None, "app", "rtsp"} /\ {busy', seeking'} \subseteq BOOLEAN
        /\ rpc' \in {"loop", "last", "reinit", "clean", "clean_lock", "clean_unlock", "clean_id",
                     "restore", "lock", "unlock", "dead"}
        /\ cmd' \in Commands \cup {None} /\ fin' \in {"run", "cancelled", "final"}
        /\ last_id' \in {last_id, NoId}
    BY <1>1 DEF Typed, TypeOK
  <2>2. apc' \in {"send", "crashed"}
    BY <1>3
  <2>3. curr' = curr \/ (curr' = First /\ AllSessions # {})
    BY <1>3
  <2> QED BY <1>1, <2>1, <2>2, <2>3, QuietTyped
<1>6. Exchange'
  BY <1>1, <1>2, <1>4 DEF Exchange, Nothing
<1>7. Turns'
  BY <1>1, <1>2, <1>3, <1>4 DEF Turns, InCalls, Resting, Tearing
<1>8. Places'
  BY <1>1, <1>2, <1>3 DEF Places, InCalls, Resting, Waiting, Tearing, Allowed
<1>9. Truth'
  BY <1>1, <1>2, <1>3 DEF Truth, Waiting, InCalls, ReplyTruthful
<1>10. Sync'
  <2>1. SetUp'
    BY <1>1, <1>2 DEF SetUp, None
  <2>2. (Playing' /\ Pausing') \/ ~ (rpc = "loop" /\ active /\ fin = "run")
    BY <1>1, <1>2, <1>4 DEF Playing, Pausing, Sync, None
  <2>3. rpc = "loop" => status # "INIT"
    BY <1>2
  <2> QED BY <1>1, <1>2, <1>4, <2>1, <2>2, <2>3 DEF Sync, None
<1> QED BY <1>5, <1>6, <1>7, <1>8, <1>9, <1>10


(* rtsp_wait sees busy, or not, and is told what became of the command. *)
LEMMA WaitTalks ==
  ASSUME TalkInv, Wait
  PROVE  TalkInv'
<1> USE DEF TalkInv
<1>1. /\ apc = "wait" /\ apc' = IF busy THEN "asleep" ELSE "woken"
      /\ UNCHANGED <<comm_mutex, busy, status, response_id, wait_for, connection, sessions,
                     cmd, seeking, reply, calls, thread, outcome>>
      /\ UNCHANGED <<active, toServer, toClient, server, rtsp_queue, curr, rtp, rpc, fin, last_id>>
  BY DEF Wait, connection, sessions, thread
<1>2. Exchange' /\ (Nothing' <=> Nothing)
  BY <1>1, ExchangeStays
<1>3. Typed'
  <2>1. /\ comm_mutex' \in {None, "app", "rtsp"} /\ {busy', seeking'} \subseteq BOOLEAN
        /\ rpc' \in {"loop", "last", "reinit", "clean", "clean_lock", "clean_unlock", "clean_id",
                     "restore", "lock", "unlock", "dead"}
        /\ cmd' \in Commands \cup {None} /\ fin' \in {"run", "cancelled", "final"}
        /\ last_id' \in {last_id, NoId} /\ apc' \in {"asleep", "woken"}
    BY <1>1 DEF Typed, TypeOK
  <2> QED BY <1>1, <2>1, QuietTyped
<1>4. Turns'
  BY <1>1, <1>2 DEF Turns, InCalls, Resting, Tearing
<1>5. Places'
  BY <1>1 DEF Places, InCalls, Resting, Waiting, Tearing
<1>6. Truth'
  BY <1>1 DEF Truth, Waiting, InCalls, ReplyTruthful
<1>7. Sync'
  <2>1. rpc = "loop" /\ active /\ fin = "run" /\ status = "INIT" => wait_for.res # None
    BY <1>1 DEF Sync
  <2> QED BY <1>1, <2>1, SyncStays
<1> QED BY <1>2, <1>3, <1>4, <1>5, <1>6, <1>7

(* rtsp_wait returns; of a redirection it does not, which is why an expectation that a
   failed rtsp_open left behind never meets a new command. *)
LEMMA WaitReturnsTalks ==
  ASSUME TalkInv, WaitReturns
  PROVE  TalkInv'
<1> USE DEF TalkInv
<1>1. /\ apc = "woken" /\ reply' = response_id
      /\ apc' \in {"crashed", "flush", "idle"}
      /\ response_id = Found => apc' = "crashed"
      /\ UNCHANGED <<comm_mutex, busy, status, response_id, wait_for, connection, sessions,
                     cmd, seeking, calls, thread, outcome>>
      /\ UNCHANGED <<active, toServer, toClient, server, rtsp_queue, curr, rtp, rpc, fin, last_id>>
  BY DEF WaitReturns, connection, sessions, thread, Found, Known, Reinitialized, OK
<1>2. Exchange' /\ (Nothing' <=> Nothing)
  BY <1>1, ExchangeStays
<1>3. ~ busy /\ Nothing /\ (response_id # Found => wait_for.res = None)
  BY <1>1 DEF Turns, Places, Resting
<1>4. Typed'
  <2>1. /\ comm_mutex' \in {None, "app", "rtsp"} /\ {busy', seeking'} \subseteq BOOLEAN
        /\ rpc' \in {"loop", "last", "reinit", "clean", "clean_lock", "clean_unlock", "clean_id",
                     "restore", "lock", "unlock", "dead"}
        /\ cmd' \in Commands \cup {None} /\ fin' \in {"run", "cancelled", "final"}
        /\ last_id' \in {last_id, NoId}
    BY <1>1 DEF Typed, TypeOK
  <2> QED BY <1>1, <2>1, QuietTyped
<1>5. Turns'
  BY <1>1, <1>2, <1>3 DEF Turns, InCalls, Resting, Tearing
<1>6. Places'
  BY <1>1, <1>3 DEF Places, InCalls, Resting, Waiting, Tearing
<1>7. Truth'
  BY <1>1, <1>3 DEF Truth, Waiting, InCalls, ReplyTruthful
<1>8. Sync'
  <2>1. rpc = "loop" /\ active /\ fin = "run" /\ status = "INIT" => wait_for.res # None
    BY <1>1 DEF Sync
  <2> QED BY <1>1, <2>1, SyncStays
<1> QED BY <1>2, <1>4, <1>5, <1>6, <1>7, <1>8

(* rtsp_uninit takes over: nothing that is promised to a waiting application counts. *)
LEMMA UninitTalks ==
  ASSUME TalkInv, Uninit
  PROVE  TalkInv'
<1> USE DEF TalkInv
<1>1. /\ apc = "idle" \/ apc = "wait"
      /\ UNCHANGED <<comm_mutex, busy, status, response_id, wait_for, connection, sessions,
                     cmd, seeking, reply, calls, outcome>>
      /\ UNCHANGED <<active, toServer, toClient, server, rtsp_queue, curr, rtp>>
      /\ \/ apc' = "crashed" /\ UNCHANGED <<rpc, fin, last_id>> /\ rpc = "clean"
         \/ /\ apc' = "join" /\ last_id' = NoId
            /\ \/ rpc' = "last" /\ fin' = "cancelled"
               \/ rpc' = "reinit" /\ fin' = "final"
  BY DEF Uninit, Dangling, Crash, connection, sessions, thread
<1>2. Exchange' /\ (Nothing' <=> Nothing)
  BY <1>1, ExchangeStays
<1>3. Typed'
  <2>1. /\ comm_mutex' \in {None, "app", "rtsp"} /\ {busy', seeking'} \subseteq BOOLEAN
        /\ rpc' \in {"loop", "last", "reinit", "clean", "clean_lock", "clean_unlock", "clean_id",
                     "restore", "lock", "unlock", "dead"}
        /\ cmd' \in Commands \cup {None} /\ fin' \in {"run", "cancelled", "final"}
        /\ last_id' \in {last_id, NoId} /\ apc' \in {"join", "crashed"}
    BY <1>1 DEF Typed, TypeOK
  <2> QED BY <1>1, <2>1, QuietTyped
<1>4. Turns'
  BY <1>1, <1>2 DEF Turns, InCalls, Resting, Tearing
<1>5. Places'
  BY <1>1 DEF Places, InCalls, Resting, Waiting, Tearing
<1>6. Truth'
  BY <1>1 DEF Truth, Waiting, InCalls, ReplyTruthful
<1>7. Sync'
  BY <1>1, SyncStays
<1> QED BY <1>2, <1>3, <1>4, <1>5, <1>6, <1>7

(* rtsp_uninit returns. *)
LEMMA JoinedTalks ==
  ASSUME TalkInv, Joined
  PROVE  TalkInv'
<1> USE DEF TalkInv
<1>1. /\ apc' = "done" /\ rpc = "dead"
      /\ UNCHANGED <<comm_mutex, busy, status, response_id, wait_for, connection, sessions,
                     cmd, seeking, reply, calls, thread, outcome>>
      /\ UNCHANGED <<active, toServer, toClient, server, rtsp_queue, curr, rtp, rpc, fin, last_id>>
      /\ apc = "join"
  BY DEF Joined, connection, sessions, thread
<1>2. Exchange' /\ (Nothing' <=> Nothing)
  BY <1>1, ExchangeStays
<1>3. Typed'
  <2>1. /\ comm_mutex' \in {None, "app", "rtsp"} /\ {busy', seeking'} \subseteq BOOLEAN
        /\ rpc' \in {"loop", "last", "reinit", "clean", "clean_lock", "clean_unlock", "clean_id",
                     "restore", "lock", "unlock", "dead"}
        /\ cmd' \in Commands \cup {None} /\ fin' \in {"run", "cancelled", "final"}
        /\ last_id' \in {last_id, NoId}
    BY <1>1 DEF Typed, TypeOK
  <2> QED BY <1>1, <2>1, QuietTyped
<1>4. Turns'
  BY <1>1, <1>2 DEF Turns, InCalls, Resting, Tearing
<1>5. Places'
  BY <1>1 DEF Places, InCalls, Resting, Waiting, Tearing
<1>6. Truth'
  BY <1>1 DEF Truth, Waiting, InCalls, ReplyTruthful
<1>7. Sync'
  BY <1>1, SyncStays
<1> QED BY <1>2, <1>3, <1>4, <1>5, <1>6, <1>7

(* rtsp_seek goes on: only a thread that is gone keeps it from rtsp_play. *)
LEMMA SeekPlayTalks ==
  ASSUME TalkInv, Patient, SeekPlay
  PROVE  TalkInv'
<1> USE DEF TalkInv
<1>1. CASE Begin("play")
  BY <1>1, BeginTalks DEF SeekPlay, Commands
<1>2. CASE /\ Crash
           /\ UNCHANGED <<comm_mutex, busy, status, response_id, wait_for, connection,
                          sessions, cmd, reply, thread, outcome>>
  <2>1. /\ apc = "flush" /\ apc' = "crashed" /\ seeking' = FALSE
        /\ UNCHANGED <<comm_mutex, busy, status, response_id, wait_for, connection, sessions,
                       cmd, reply, thread, outcome>>
        /\ UNCHANGED <<active, toServer, toClient, server, rtsp_queue, curr, rtp, rpc, fin, last_id>>
    BY <1>2 DEF SeekPlay, Crash, connection, sessions, thread
  <2>2. Exchange' /\ (Nothing' <=> Nothing) /\ Nothing /\ ~ busy
    BY <2>1, ExchangeStays DEF Turns, Resting
  <2>3. Typed'
    <3>1. /\ comm_mutex' \in {None, "app", "rtsp"} /\ {busy', seeking'} \subseteq BOOLEAN
          /\ rpc' \in {"loop", "last", "reinit", "clean", "clean_lock", "clean_unlock", "clean_id",
                       "restore", "lock", "unlock", "dead"}
          /\ cmd' \in Commands \cup {None} /\ fin' \in {"run", "cancelled", "final"}
          /\ last_id' \in {last_id, NoId}
      BY <2>1 DEF Typed, TypeOK
    <3> QED BY <2>1, <3>1, QuietTyped
  <2>4. Turns'
    BY <2>1, <2>2 DEF Turns, InCalls, Resting, Tearing
  <2>5. Places'
    BY <2>1 DEF Places, InCalls, Resting, Waiting, Tearing
  <2>6. Truth'
    BY <2>1 DEF Truth, Waiting, InCalls, ReplyTruthful
  <2>7. Sync'
    <3>1. rpc = "loop" /\ active /\ fin = "run" /\ status = "INIT" => wait_for.res # None
      BY <2>1 DEF Sync
    <3> QED BY <2>1, <3>1, SyncStays
  <2> QED BY <2>2, <2>3, <2>4, <2>5, <2>6, <2>7
<1> QED BY <1>1, <1>2 DEF SeekPlay

(* A request is sent about a session, which counts it. *)
LEMMA AskSends ==
  ASSUME NEW queue \in Seq([media : Nat \ {0}, CSeq : Nat]),
         NEW at \in Medium, at.sess \in 1 .. Len(queue),
         NEW res, Ask(res, queue, at), toServer = <<>>
  PROVE  /\ rtsp_queue' \in Seq([media : Nat \ {0}, CSeq : Nat])
         /\ Len(rtsp_queue') = Len(queue) /\ DOMAIN rtsp_queue' = DOMAIN queue
         /\ \A s \in DOMAIN queue : rtsp_queue'[s].media = queue[s].media
         /\ wait_for'.res = res /\ wait_for'.cseq \in Nat \ {0} /\ wait_for'.sess = at.sess
         /\ wait_for' \in [res : {res}, cseq : Nat, sess : 1 .. Len(queue)]
         /\ toServer' = IF active THEN <<[res |-> res, cseq |-> wait_for'.cseq, at |-> at]>>
                        ELSE <<>>
<1> DEFINE n == queue[at.sess].CSeq + 1
<1>1. /\ Len(queue) \in Nat /\ DOMAIN queue = 1 .. Len(queue)
      /\ queue[at.sess] \in [media : Nat \ {0}, CSeq : Nat]
  BY LenProperties, ElementOfSeq
<1>2. n \in Nat \ {0}
  BY <1>1
<1>3. /\ rtsp_queue' = [queue EXCEPT ![at.sess].CSeq = n]
      /\ wait_for' = [res |-> res, cseq |-> n, sess |-> at.sess]
      /\ Transmit([res |-> res, cseq |-> n, at |-> at])
  BY DEF Ask
<1>4. toServer' = IF active THEN <<[res |-> res, cseq |-> n, at |-> at]>> ELSE <<>>
  BY <1>3 DEF Transmit
<1>5. [queue[at.sess] EXCEPT !.CSeq = n] \in [media : Nat \ {0}, CSeq : Nat]
  BY <1>1, <1>2
<1> HIDE DEF n
<1>6. rtsp_queue' = [queue EXCEPT ![at.sess] = [queue[at.sess] EXCEPT !.CSeq = n]]
  BY <1>3
<1>7. rtsp_queue' \in Seq([media : Nat \ {0}, CSeq : Nat]) /\ Len(rtsp_queue') = Len(queue)
  BY <1>5, <1>6, ExceptSeq
<1>8. \A s \in DOMAIN queue : rtsp_queue'[s].media = queue[s].media
  BY <1>1, <1>6
<1> QED BY <1>1, <1>2, <1>3, <1>4, <1>6, <1>7, <1>8

(* What is then under way is the request, unless the connection is closed. *)
LEMMA AskExchange ==
  ASSUME NEW at, NEW res \in Methods \ {"DESCRIBE"}, curr' = at, at \in AllMedia',
         wait_for'.res = res, wait_for'.cseq \in Nat \ {0}, wait_for'.sess = at.sess,
         toServer' = IF active THEN <<[res |-> res, cseq |-> wait_for'.cseq, at |-> at]>>
                     ELSE <<>>,
         Replies' = {}, active' = active, ~ active => toClient' = <<>>
  PROVE  Exchange'
<1> DEFINE r == [res |-> res, cseq |-> wait_for'.cseq, at |-> at]
<1>1. toServer' = <<r>> \/ (toServer' = <<>> /\ ~ active)
  OBVIOUS
<1>2. /\ Len(toServer') <= 1 /\ (toServer' # <<>> => toServer'[1] = r)
      /\ ~ active' => toServer' = <<>> /\ toClient' = <<>>
  BY <1>1
<1>3. AwaitedCSeq' = wait_for'.cseq /\ res # None
  BY DEF AwaitedCSeq, Methods, None
<1> QED BY <1>2, <1>3 DEF Exchange

(* Typed, of a state after a request. *)
LEMMA AskTyped ==
  ASSUME Typed, NEW at \in Medium, NEW res \in Methods,
         rtsp_queue' \in Seq([media : Nat \ {0}, CSeq : Nat]),
         wait_for' \in [res : {res}, cseq : Nat, sess : 1 .. Len(rtsp_queue')],
         wait_for'.cseq \in Nat,
         toServer' = IF active THEN <<[res |-> res, cseq |-> wait_for'.cseq, at |-> at]>>
                     ELSE <<>>,
         curr' \in AllMedia', curr' \in Medium, toClient' \in Seq(Messages),
         response_id' \in {0, Reinitialized} \cup Codes,
         UNCHANGED <<status, active, server, seeking, cmd>>,
         comm_mutex' \in {None, "app", "rtsp"}, busy' \in BOOLEAN,
         apc' \in {"idle", "connect", "describe", "locate", "send", "wait", "asleep", "woken",
                   "flush", "join", "done", "crashed"},
         rpc' \in {"loop", "last", "reinit", "clean", "clean_lock", "clean_unlock", "clean_id",
                   "restore", "lock", "unlock", "dead"},
         fin' \in {"run", "cancelled", "final"}, last_id' \in {last_id, NoId}
  PROVE  Typed'
<1>1. wait_for' \in [res : Methods \cup {None}, cseq : Nat, sess : 0 .. Len(rtsp_queue')]
  <2>1. Len(rtsp_queue') \in Nat
    BY LenProperties
  <2> QED BY <2>1
<1>2. [res |-> res, cseq |-> wait_for'.cseq, at |-> at] \in Request
  BY DEF Request
<1>3. toServer' \in Seq(Request)
  BY <1>2
<1>4. TypeOK'
  BY <1>1 DEF Typed, TypeOK
<1> QED BY <1>3, <1>4 DEF Typed

(* rtsp_open connects, or fails to. *)
LEMMA ConnectTalks ==
  ASSUME TalkInv, Connect
  PROVE  TalkInv'
<1> USE DEF TalkInv
<1>1. /\ apc = "connect" /\ rpc = "loop" /\ ~ active /\ cmd = "open" /\ status = "INIT" /\ busy
      /\ wait_for.res = None /\ Nothing /\ toServer = <<>> /\ toClient = <<>> /\ fin = "run"
      /\ reply = NoId
  BY DEF Connect, Turns, Places, Exchange, InCalls, Truth
<1>2. /\ UNCHANGED <<status, response_id, wait_for, rtsp_queue, curr, rtp, cmd, seeking, reply,
                     calls, rpc, fin, last_id, outcome>>
      /\ toServer' = <<>> /\ toClient' = <<>>
      /\ \/ /\ active' = TRUE /\ server' = Idle /\ apc' = "describe"
            /\ UNCHANGED <<busy, comm_mutex>>
         \/ /\ active' = FALSE /\ server' = server /\ apc' = "idle" /\ busy' = FALSE
            /\ comm_mutex' = None
  BY <1>1 DEF Connect, Failed, thread
<1>3. Nothing' /\ Replies' = {}
  BY <1>2 DEF Nothing, Replies
<1>4. Typed'
  <2>1. Idle \in [setup : SUBSET Medium, playing : SUBSET Nat]
    BY DEF Idle
  <2>2. AllMedia' = AllMedia /\ AllSessions' = AllSessions
    BY <1>2 DEF AllMedia, AllSessions
  <2>3. TypeOK'
    <3>1. /\ TypeOK /\ UNCHANGED <<status, response_id, wait_for, rtsp_queue, curr, seeking, rpc>>
          /\ active' \in BOOLEAN /\ apc' \in {"describe", "idle"}
      BY <1>2 DEF Typed
    <3>2. busy' \in BOOLEAN /\ comm_mutex' \in {None, "app", "rtsp"}
      BY <1>2, <3>1 DEF TypeOK
    <3> QED BY <2>2, <3>1, <3>2 DEF TypeOK
  <2>4. /\ toServer' \in Seq(Request) /\ toClient' \in Seq(Messages)
        /\ server' \in [setup : SUBSET Medium, playing : SUBSET Nat]
    BY <1>2, <2>1 DEF Typed
  <2> QED BY <1>2, <2>3, <2>4 DEF Typed
<1>5. Exchange'
  BY <1>1, <1>2, <1>3 DEF Exchange
<1>6. Turns'
  BY <1>1, <1>2, <1>3 DEF Turns, InCalls, Resting, Tearing
<1>7. Places'
  BY <1>1, <1>2 DEF Places, InCalls, Resting, Waiting, Tearing
<1>8. Truth'
  BY <1>1, <1>2 DEF Truth, Waiting, InCalls, ReplyTruthful, NoId, OK
<1>9. Sync'
  <2>1. wait_for' = wait_for /\ status' = "INIT" /\ SetUp' /\ Playing' /\ Pausing'
    BY <1>1, <1>2 DEF SetUp, Playing, Pausing, None
  <2> QED BY <1>1, <1>2, <2>1 DEF Sync, None
<1> QED BY <1>4, <1>5, <1>6, <1>7, <1>8, <1>9

(* rtsp_open asks for the description. *)
LEMMA OpenDescribeTalks ==
  ASSUME TalkInv, OpenDescribe
  PROVE  TalkInv'
<1> USE DEF TalkInv
<1>1. /\ apc = "describe" /\ busy /\ Nothing /\ toServer = <<>> /\ Replies = {} /\ wait_for.res = None
      /\ cmd = "open" /\ status = "INIT" /\ fin = "run" /\ reply = NoId
      /\ rpc \in {"loop", "reinit", "clean", "clean_lock"}
  BY DEF OpenDescribe, Turns, Places, InCalls, Truth, Nothing
<1>2. /\ UNCHANGED <<status, response_id, active, toClient, server, curr, rtp, cmd, seeking,
                     reply, calls, thread, outcome, rtsp_queue>>
      /\ UNCHANGED <<rpc, fin, last_id, busy>>
  BY DEF OpenDescribe, thread, Sent
<1>3. Replies' = {} /\ AllMedia' = AllMedia /\ AllSessions' = AllSessions
  BY <1>1, <1>2 DEF Replies, IsReply, Eof, AllMedia, AllSessions
<1>4. CASE active
  <2> DEFINE r == [res |-> "DESCRIBE", cseq |-> 1, at |-> NULL]
  <2>1. /\ apc' = "wait" /\ comm_mutex' = None /\ wait_for' = [wait_for EXCEPT !.res = "DESCRIBE"]
        /\ toServer' = <<r>>
    BY <1>1, <1>4 DEF OpenDescribe, Sent, Describe, Transmit
  <2>2. r \in Request /\ toServer' \in Seq(Request)
    BY <2>1 DEF Request, NULL, Medium, Methods
  <2>3. /\ wait_for' \in [res : Methods \cup {None}, cseq : Nat, sess : 0 .. Len(rtsp_queue)]
        /\ wait_for'.res = "DESCRIBE"
    BY <2>1 DEF Typed, TypeOK, Methods
  <2>4. Typed'
    <3>1. TypeOK'
      BY <1>2, <1>3, <2>1, <2>3 DEF Typed, TypeOK
    <3> QED BY <1>2, <2>2, <3>1 DEF Typed
  <2>5. Exchange'
    <3>1. toServer'[1] = r /\ Len(toServer') = 1 /\ toServer' # <<>> /\ AwaitedCSeq' = 1
      BY <2>1, <2>3 DEF AwaitedCSeq
    <3> QED BY <1>2, <1>3, <1>4, <2>3, <3>1 DEF Exchange, None
  <2>6. Turns'
    BY <1>1, <1>2, <2>1 DEF Turns, InCalls, Resting, Tearing
  <2>7. Places'
    BY <1>1, <1>2, <1>4, <2>1 DEF Places, InCalls, Resting, Waiting, Tearing
  <2>8. Truth'
    BY <1>1, <1>2, <2>1, <2>3 DEF Truth, Waiting, InCalls, ReplyTruthful, RequestsOf
  <2>9. Sync'
    <3>1. SetUp' /\ Playing' /\ Pausing'
      BY <1>1, <1>2, <2>3 DEF SetUp, Playing, Pausing
    <3>2. rpc = "loop" => server = Idle
      BY <1>1, <1>4 DEF Sync, None
    <3> QED BY <1>1, <1>2, <2>3, <3>1, <3>2 DEF Sync, None
  <2> QED BY <2>4, <2>5, <2>6, <2>7, <2>8, <2>9
<1>5. CASE ~ active
  <2>1. apc' = "crashed" /\ UNCHANGED <<comm_mutex, wait_for, toServer>>
    BY <1>5 DEF OpenDescribe, Crash
  <2>2. Exchange' /\ (Nothing' <=> Nothing)
    BY <1>2, <2>1, ExchangeStays
  <2>3. Typed'
    <3>1. TypeOK'
      BY <1>2, <1>3, <2>1 DEF Typed, TypeOK
    <3> QED BY <1>2, <2>1, <3>1 DEF Typed
  <2>4. Turns'
    BY <1>1, <1>2, <2>1, <2>2 DEF Turns, InCalls, Resting, Tearing
  <2>5. Places'
    BY <1>1, <1>2, <2>1 DEF Places, InCalls, Resting, Waiting, Tearing
  <2>6. Truth'
    BY <1>1, <1>2, <2>1 DEF Truth, Waiting, InCalls, ReplyTruthful
  <2>7. Sync'
    BY <1>2, <1>5, <2>1, SyncStays
  <2> QED BY <2>2, <2>3, <2>4, <2>5, <2>6, <2>7
<1> QED BY <1>4, <1>5

(* The request of a command is sent, or the call fails. *)
LEMMA SendTalks ==
  ASSUME TalkInv, Send
  PROVE  TalkInv'
<1> USE DEF TalkInv
<1>1. /\ apc = "send" /\ busy /\ Nothing /\ toServer = <<>> /\ Replies = {} /\ wait_for.res = None
      /\ cmd \in {"play", "pause", "close"} /\ fin = "run" /\ reply = NoId
      /\ rpc \in {"loop", "reinit", "clean", "clean_lock"} /\ comm_mutex = "app"
      /\ rpc # "clean_lock" => Allowed(cmd) /\ status # "INIT" /\ active
      /\ rtsp_queue # <<>> => curr = First
      /\ rpc = "clean_lock" => rtsp_queue = <<>> /\ ~ active /\ status = "INIT"
  BY DEF Send, Turns, Places, InCalls, Truth, Nothing, Allowed, Tearing
<1>2. /\ UNCHANGED <<status, response_id, active, toClient, server, curr, rtp, cmd, seeking,
                     reply, calls, outcome>>
      /\ UNCHANGED <<rpc, fin, last_id>>
  BY DEF Send, thread
<1>3. Replies' = {}
  BY <1>1, <1>2 DEF Replies, IsReply, Eof
<1>4. CASE AllSessions # {} /\ Ask(RequestOf(cmd), rtsp_queue, curr) /\ Sent
  <2> DEFINE res == RequestOf(cmd)
  <2>1. res \in {"PLAY", "PAUSE", "TEARDOWN"} /\ res \in RequestsOf(cmd)
    BY <1>1 DEF RequestOf, RequestsOf
  <2>a. res = "PAUSE" => status = "PLAYING"
    <3>1. rtsp_queue # <<>>
      BY <1>4 DEF AllSessions
    <3>2. Allowed(cmd)
      BY <1>1, <3>1
    <3>3. res = "PAUSE" => cmd = "pause"
      BY <1>1 DEF RequestOf
    <3> QED BY <1>1, <3>2, <3>3 DEF Allowed
  <2> HIDE DEF res
  <2>2. /\ apc' = "wait" /\ comm_mutex' = None /\ busy' = busy
        /\ Ask(res, rtsp_queue, curr)
    BY <1>4 DEF Sent, res
  <2>3. /\ rtsp_queue # <<>> /\ curr = First /\ First \in AllMedia /\ rpc # "clean_lock"
        /\ Len(rtsp_queue) \in Nat /\ curr \in Medium /\ curr.sess \in 1 .. Len(rtsp_queue)
        /\ rtsp_queue \in Seq([media : Nat \ {0}, CSeq : Nat])
        /\ AllSessions = 1 .. Len(rtsp_queue) /\ curr.sess = 1 /\ curr.med = 1
    BY <1>1, <1>4, InMedia DEF Typed, First
  <2>4. /\ rtsp_queue' \in Seq([media : Nat \ {0}, CSeq : Nat])
        /\ Len(rtsp_queue') = Len(rtsp_queue) /\ DOMAIN rtsp_queue' = DOMAIN rtsp_queue
        /\ \A s \in DOMAIN rtsp_queue : rtsp_queue'[s].media = rtsp_queue[s].media
        /\ wait_for'.res = res /\ wait_for'.cseq \in Nat \ {0} /\ wait_for'.sess = curr.sess
        /\ wait_for' \in [res : {res}, cseq : Nat, sess : 1 .. Len(rtsp_queue')]
        /\ toServer' = IF active THEN <<[res |-> res, cseq |-> wait_for'.cseq, at |-> curr]>>
                       ELSE <<>>
    BY <1>1, <2>2, <2>3, AskSends
  <2>5. AllMedia' = AllMedia /\ AllSessions' = AllSessions /\ rtsp_queue' # <<>>
    <3>1. AllSessions' = AllSessions /\ AllMedia' = AllMedia
      BY <2>4, MediaStay DEF AllSessions
    <3> QED BY <2>3, <2>4, <3>1
  <2>6. res \in Methods \ {"DESCRIBE"}
    BY <2>1 DEF Methods
  <2>7. Exchange'
    <3>1. ~ active => toClient' = <<>>
      BY <1>2 DEF Exchange
    <3>2. curr' \in AllMedia' /\ curr' = curr
      BY <1>2, <2>3, <2>5
    <3> QED BY <1>2, <1>3, <2>4, <2>6, <3>1, <3>2, AskExchange
  <2>8. Typed'
    <3>1. /\ curr' \in AllMedia' /\ curr' \in Medium /\ curr \in Medium
          /\ toClient' \in Seq(Messages) /\ response_id' \in {0, Reinitialized} \cup Codes
          /\ comm_mutex' \in {None, "app", "rtsp"} /\ busy' \in BOOLEAN
          /\ apc' \in {"idle", "connect", "describe", "locate", "send", "wait", "asleep", "woken",
                       "flush", "join", "done", "crashed"}
          /\ rpc' \in {"loop", "last", "reinit", "clean", "clean_lock", "clean_unlock", "clean_id",
                       "restore", "lock", "unlock", "dead"}
          /\ fin' \in {"run", "cancelled", "final"} /\ last_id' \in {last_id, NoId}
      BY <1>2, <2>2, <2>3, <2>5 DEF Typed, TypeOK
    <3> QED BY <1>2, <2>4, <2>6, <3>1, AskTyped
  <2>9. Turns'
    BY <1>1, <1>2, <2>2, <2>3 DEF Turns, InCalls, Resting, Tearing
  <2>10. Places'
    BY <1>1, <1>2, <2>2, <2>3, <2>5 DEF Places, InCalls, Resting, Waiting, Tearing
  <2>11. Truth'
    BY <1>1, <1>2, <2>1, <2>2, <2>4 DEF Truth, Waiting, InCalls, ReplyTruthful
  <2>12. Sync'
    <3>1. SUFFICES ASSUME rpc = "loop", active PROVE Sync'
      BY <1>1, <1>2 DEF Sync
    <3>2. /\ status \in {"READY", "PLAYING"} /\ server.setup = AllMedia
          /\ status = "READY" => server.playing = {}
          /\ status = "PLAYING" => server.playing = AllSessions
      BY <1>1, <2>3, <3>1 DEF Sync, Playing, Pausing, None, Typed, TypeOK
    <3>3. SetUp' /\ ~ Answered'
      BY <1>3, <2>1, <2>4 DEF SetUp, Answered
    <3>4. Playing'
      BY <1>2, <2>1, <2>3, <2>4, <3>2, <3>3 DEF Playing, None
    <3>5. Pausing'
      BY <1>2, <2>1, <2>3, <2>4, <3>2, <3>3 DEF Pausing, None
    <3> QED BY <1>2, <2>1, <2>a, <2>4, <2>5, <3>1, <3>2, <3>3, <3>4, <3>5 DEF Sync
  <2> QED BY <2>7, <2>8, <2>9, <2>10, <2>11, <2>12
<1>5. CASE Failed \/ (Crash /\ UNCHANGED <<comm_mutex, busy, wait_for, rtsp_queue, toServer>>
                     /\ (AllSessions = {} \/ Dangling))
  <2>1. /\ UNCHANGED <<wait_for, rtsp_queue, toServer>>
        /\ \/ apc' = "idle" /\ busy' = FALSE /\ comm_mutex' = None
           \/ apc' = "crashed" /\ UNCHANGED <<comm_mutex, busy>> /\ (AllSessions = {} \/ rpc = "clean")
    BY <1>5 DEF Failed, Crash, Dangling
  <2>2. Exchange' /\ (Nothing' <=> Nothing)
    BY <1>2, <2>1, ExchangeStays
  <2>3. Typed'
    <3>1. AllMedia' = AllMedia /\ AllSessions' = AllSessions
      BY <2>1 DEF AllMedia, AllSessions
    <3>2. TypeOK'
      <4>1. comm_mutex' \in {None, "app", "rtsp"} /\ busy' \in BOOLEAN /\ apc' \in {"idle", "crashed"}
        BY <1>2, <2>1 DEF Typed, TypeOK
      <4>2. /\ TypeOK /\ UNCHANGED <<active, seeking, status, response_id, wait_for, rtsp_queue,
                                     curr, rpc>>
        BY <1>2, <2>1 DEF Typed
      <4> QED BY <3>1, <4>1, <4>2 DEF TypeOK
    <3> QED BY <1>2, <2>1, <3>2 DEF Typed
  <2>4. Turns'
    BY <1>1, <1>2, <2>1, <2>2 DEF Turns, InCalls, Resting, Tearing
  <2>5. Places'
    BY <1>1, <1>2, <2>1 DEF Places, InCalls, Resting, Waiting, Tearing
  <2>6. Truth'
    <3>1. apc' \in {"idle", "crashed"} /\ reply' # OK
      <4>1. reply' = NoId
        BY <1>1, <1>2
      <4>2. NoId # OK
        BY DEF NoId, OK
      <4> QED BY <2>1, <4>1, <4>2
    <3> QED BY <3>1 DEF Truth, Waiting, InCalls, ReplyTruthful
  <2>7. Sync'
    <3>1. rpc = "loop" => status # "INIT"
      BY <1>1
    <3> QED BY <1>1, <1>2, <2>1, <3>1, SyncStays
  <2> QED BY <2>2, <2>3, <2>4, <2>5, <2>6, <2>7
<1> QED BY <1>4, <1>5 DEF Send

(* The commands. *)
LEMMA CallTalks ==
  ASSUME TalkInv, Patient, Seek \/ \E c \in Commands : Call(c)
  PROVE  TalkInv'
<1>1. CASE Seek
  BY <1>1, BeginTalks DEF Seek, Commands
<1>2. CASE \E c \in Commands : Call(c)
  BY <1>2, BeginTalks DEF Call
<1> QED BY <1>1, <1>2

(* Everything the application does. *)
LEMMA AppTalks ==
  ASSUME TalkInv, Patient, AppStep \/ Seek \/ Uninit \/ \E c \in Commands : Call(c)
  PROVE  TalkInv'
BY CallTalks, UninitTalks, ConnectTalks, OpenDescribeTalks, LocateTalks, SendTalks, WaitTalks,
   WaitReturnsTalks, SeekPlayTalks, JoinedTalks DEF AppStep

-----------------------------------------------------------------------------
(* A message that is valid is the one reply, which is waited for. *)
LEMMA ValidReply ==
  ASSUME TalkInv, Readable, Valid(Message)
  PROVE  /\ Replies = {1} /\ toServer = <<>> /\ wait_for.res # None
         /\ Message = toClient[1] /\ Message.code \in Codes
         /\ wait_for.res = "DESCRIBE" => Message.desc \in Descriptions
         /\ wait_for.res # "DESCRIBE" => curr \in AllMedia /\ rtsp_queue # <<>>
         /\ busy /\ apc \notin InCalls \cup Resting
<1> USE DEF TalkInv
<1>1. toClient \in Seq(Messages) /\ toClient # <<>>
  BY DEF Typed, Readable
<1>2. Message # Eof /\ wait_for.res # None /\ Message.cseq = AwaitedCSeq
  BY DEF Valid, Expected, AwaitedCSeq
<1>3. AwaitedCSeq # 0
  BY <1>2 DEF AwaitedCSeq, Exchange, Typed, TypeOK
<1>4. Message = toClient[1] /\ 1 \in DOMAIN toClient
  BY <1>1, HeadTailProperties, LenProperties, EmptySeq DEF Message
<1>5. 1 \in Replies
  BY <1>2, <1>3, <1>4 DEF Replies, IsReply
<1>6. Replies = {1} /\ toServer = <<>> /\ ~ Nothing
  BY <1>5 DEF Exchange, Nothing
<1>7. /\ Message.code \in Codes
      /\ wait_for.res = "DESCRIBE" => Message.desc \in Descriptions
      /\ wait_for.res # "DESCRIBE" => curr \in AllMedia
  BY <1>2, <1>4, <1>5 DEF Exchange
<1>8. curr \in AllMedia => rtsp_queue # <<>>
  <2>1. curr \in AllMedia => curr.sess \in 1 .. Len(rtsp_queue)
    BY InMedia
  <2>2. Len(rtsp_queue) \in Nat /\ (rtsp_queue = <<>> <=> Len(rtsp_queue) = 0)
    BY InMedia
  <2> QED BY <2>1, <2>2
<1>9. busy /\ apc \notin InCalls \cup Resting
  BY <1>6 DEF Turns
<1> QED BY <1>2, <1>4, <1>6, <1>7, <1>8, <1>9

(* A message is taken off the connection. *)
LEMMA MessageTaken ==
  ASSUME TalkInv, Readable, toClient' = Tail(toClient)
  PROVE  /\ toClient' \in Seq(Messages) /\ Message \in Messages
         /\ rpc \in {"loop", "last"} /\ active /\ apc # "crashed"
         /\ \A k : k \in Replies' <=> k \in Nat \ {0} /\ k + 1 \in Replies
         /\ \A k \in Replies' : toClient'[k] = toClient[k + 1]
         /\ Replies = {} \/ Replies = {1} => Replies' = {}
<1>1. /\ toClient \in Seq(Messages) /\ toClient # <<>>
      /\ rpc \in {"loop", "last"} /\ active /\ apc # "crashed"
  BY DEF TalkInv, Typed, Readable, Running
<1>2. /\ toClient' \in Seq(Messages) /\ Message \in Messages
      /\ \A k : k \in Replies' <=> k \in Nat \ {0} /\ k + 1 \in Replies
      /\ \A k \in Replies' : toClient'[k] = toClient[k + 1]
  BY <1>1, TailReplies
<1>3. \A k \in Nat \ {0} : k + 1 # 1
  OBVIOUS
<1>4. ASSUME Replies = {} \/ Replies = {1} PROVE Replies' = {}
  BY <1>2, <1>3, <1>4
<1> QED BY <1>1, <1>2, <1>4

(* What was under way is, except for the reply that was taken. *)
LEMMA TakenExchange ==
  ASSUME Exchange, active,
         UNCHANGED <<wait_for, toServer, active, rtsp_queue, curr>>,
         \A k : k \in Replies' <=> k \in Nat \ {0} /\ k + 1 \in Replies,
         \A k \in Replies' : toClient'[k] = toClient[k + 1],
         Replies = {} => Replies' = {}
  PROVE  Exchange' /\ (Nothing => Nothing')
<1>1. AllMedia' = AllMedia /\ AwaitedCSeq' = AwaitedCSeq
  BY DEF AllMedia, AllSessions, AwaitedCSeq
<1>2. \A j, k \in Replies' : j = k
  <2> SUFFICES ASSUME NEW j \in Replies', NEW k \in Replies' PROVE j = k
    OBVIOUS
  <2>1. j \in Nat /\ k \in Nat /\ j + 1 = k + 1
    BY DEF Exchange
  <2> QED BY <2>1
<1>3. \A k \in Replies' : /\ toClient'[k].cseq = AwaitedCSeq /\ toClient'[k].code \in Codes
                          /\ wait_for.res = "DESCRIBE" => toClient'[k].desc \in Descriptions
  BY DEF Exchange
<1>4. Nothing => Nothing'
  BY DEF Nothing
<1>5. Len(toServer') <= 1 /\ (toServer' # <<>> => Replies' = {})
  BY DEF Exchange
<1> QED BY <1>1, <1>2, <1>3, <1>4, <1>5 DEF Exchange

(* The dispatcher of a message that ends the session. *)
LEMMA DropFacts ==
  ASSUME Typed, Drop
  PROVE  /\ rpc' = "reinit" /\ outcome' # None /\ last_id' = last_id
         /\ fin' \in {"run", "cancelled", "final"} /\ (fin = "run" => fin' = "run")
<1>1. \E o \in {"died", "lost"} : Decided(o)
  BY DEF Drop
<1>2. outcome' # None
  BY <1>1 DEF Decided, None
<1> QED BY <1>2 DEF Drop, Typed

(* A handler that gives up without a new request. *)
LEMMA DropTalks ==
  ASSUME TalkInv, RtspUnexpected \/ RtspRefused
  PROVE  TalkInv'
<1> USE DEF TalkInv
<1>1. /\ Readable /\ toClient' = Tail(toClient) /\ Drop
      /\ UNCHANGED <<comm_mutex, busy, status, wait_for, active, toServer, server, rtsp_queue,
                     curr, rtp, apc, cmd, seeking, reply, calls>>
  BY DEF RtspUnexpected, RtspRefused, sessions, application
<1>2. /\ toClient' \in Seq(Messages) /\ rpc \in {"loop", "last"} /\ active /\ apc # "crashed"
      /\ \A k : k \in Replies' <=> k \in Nat \ {0} /\ k + 1 \in Replies
      /\ \A k \in Replies' : toClient'[k] = toClient[k + 1]
      /\ Replies = {} => Replies' = {}
  BY <1>1, MessageTaken
<1>3. \/ response_id' = response_id
      \/ response_id' \in Codes /\ response_id' \notin {OK, Found} /\ busy
  <2>1. CASE RtspUnexpected
    BY <2>1 DEF RtspUnexpected
  <2>2. CASE RtspRefused
    <3>1. Valid(Message) /\ Message.code \notin {OK, Found} /\ response_id' = Message.code
      BY <2>2 DEF RtspRefused
    <3> QED BY <1>1, <3>1, ValidReply
  <2> QED BY <2>1, <2>2
<1>4. /\ rpc' = "reinit" /\ outcome' # None /\ last_id' = last_id
      /\ fin' \in {"run", "cancelled", "final"} /\ (fin = "run" => fin' = "run")
  BY <1>1, DropFacts
<1>5. Exchange' /\ (Nothing => Nothing')
  BY <1>1, <1>2, TakenExchange
<1>6. Typed'
  <2>1. AllMedia' = AllMedia /\ AllSessions' = AllSessions
    BY <1>1 DEF AllMedia, AllSessions
  <2>2. TypeOK'
    BY <1>1, <1>3, <1>4, <2>1 DEF Typed, TypeOK
  <2> QED BY <1>1, <1>2, <1>4, <2>2 DEF Typed
<1>7. Turns'
  BY <1>1, <1>2, <1>4, <1>5 DEF Turns, InCalls, Resting, Tearing
<1>8. Places'
  BY <1>1, <1>2, <1>3, <1>4 DEF Places, InCalls, Resting, Waiting, Tearing, Allowed
<1>9. Truth'
  BY <1>1, <1>2, <1>3, <1>4 DEF Truth, Waiting, InCalls, ReplyTruthful
<1>10. Sync'
  BY <1>4 DEF Sync
<1> QED BY <1>5, <1>6, <1>7, <1>8, <1>9, <1>10

(* A redirection: rtsp_open in the RTSP thread, which starts over or fails. *)
LEMMA RedirectTalks ==
  ASSUME TalkInv, RtspRedirected
  PROVE  TalkInv'
<1> USE DEF TalkInv
<1>1. /\ Readable /\ Valid(Message) /\ Drop /\ response_id' = Found /\ Found \in Codes
      /\ UNCHANGED <<comm_mutex, status, rtsp_queue, curr, rtp, apc, cmd, seeking, reply, calls>>
      /\ toClient' = IF status = "INIT" THEN <<>> ELSE Tail(toClient)
      /\ server' = IF status = "INIT" THEN Idle ELSE server
  <2>1. Readable /\ Valid(Message) /\ Message.code = Found
    BY DEF RtspRedirected
  <2>2. Message.code \in Codes
    BY <2>1, ValidReply
  <2> QED BY <2>1, <2>2 DEF RtspRedirected, sessions, application
<1>2. /\ toClient \in Seq(Messages) /\ toClient # <<>> /\ rpc \in {"loop", "last"} /\ active
  BY <1>1 DEF Typed, Readable
<1>3. /\ wait_for.res # None
      /\ toServer = <<>> /\ busy /\ apc \notin InCalls \cup Resting /\ Replies = {1}
  BY <1>1, ValidReply
<1>4. Replies' = {} /\ toClient' \in Seq(Messages)
  <2>1. CASE status = "INIT"
    BY <1>1, <2>1 DEF Replies
  <2>2. CASE status # "INIT"
    <3>1. toClient' = Tail(toClient)
      BY <1>1, <2>2
    <3> QED BY <1>1, <1>3, <3>1, MessageTaken
  <2> QED BY <2>1, <2>2
<1>5. /\ rpc' = "reinit" /\ outcome' # None /\ last_id' = last_id
      /\ fin' \in {"run", "cancelled", "final"} /\ (fin = "run" => fin' = "run")
  BY <1>1, DropFacts
<1> DEFINE r == [res |-> "DESCRIBE", cseq |-> 1, at |-> NULL]
<1>6. \/ /\ status = "INIT" /\ busy' = TRUE /\ wait_for' = [wait_for EXCEPT !.res = "DESCRIBE"]
         /\ toServer' = <<r>> /\ active' = active
      \/ /\ status = "INIT" /\ busy' = FALSE /\ active' = FALSE /\ toServer' = <<>>
         /\ toClient' = <<>> /\ wait_for' = wait_for
      \/ /\ status # "INIT" /\ busy' = FALSE /\ UNCHANGED <<active, toServer, wait_for>>
  BY <1>1 DEF RtspRedirected
<1>7. wait_for' \in [res : Methods \cup {None}, cseq : Nat, sess : 0 .. Len(rtsp_queue)]
  BY <1>6 DEF Typed, TypeOK, Methods
<1>8. AllMedia' = AllMedia /\ AllSessions' = AllSessions
  BY <1>1 DEF AllMedia, AllSessions
<1>9. Typed'
  <2>1. toServer' \in Seq(Request)
    <3>1. r \in Request
      BY DEF Request, NULL, Medium, Methods
    <3>2. toServer' = <<r>> \/ toServer' = <<>>
      BY <1>3, <1>6
    <3> HIDE DEF r
    <3>3. <<r>> \in Seq(Request) /\ <<>> \in Seq(Request)
      BY <3>1
    <3>4. CASE toServer' = <<r>>
      BY <3>3, <3>4
    <3>5. CASE toServer' = <<>>
      BY <3>3, <3>5
    <3> QED BY <3>2, <3>4, <3>5
  <2>2. server' \in [setup : SUBSET Medium, playing : SUBSET Nat]
    BY <1>1 DEF Typed, Idle
  <2>3. TypeOK'
    <3>1. {busy', active', seeking'} \subseteq BOOLEAN
      BY <1>1, <1>6 DEF Typed, TypeOK
    <3> QED BY <1>1, <1>5, <1>7, <1>8, <3>1 DEF Typed, TypeOK
  <2> QED BY <1>1, <1>4, <1>5, <2>1, <2>2, <2>3 DEF Typed
<1>10. Exchange'
  <2>1. CASE toServer' = <<r>>
    <3>1. wait_for'.res = "DESCRIBE" /\ active'
      BY <1>2, <1>3, <1>6, <2>1 DEF Typed, TypeOK
    <3>2. toServer'[1] = r /\ Len(toServer') = 1 /\ toServer' # <<>> /\ AwaitedCSeq' = 1
      BY <2>1, <3>1 DEF AwaitedCSeq
    <3> QED BY <1>4, <3>1, <3>2 DEF Exchange, None
  <2>2. CASE toServer' # <<r>>
    <3>1. toServer' = <<>> /\ wait_for' = wait_for /\ (~ active' => toClient' = <<>>)
      BY <1>2, <1>3, <1>6, <2>2
    <3> QED BY <1>1, <1>4, <1>8, <3>1 DEF Exchange, Nothing
  <2> QED BY <2>1, <2>2
<1>11. Turns'
  <2>1. Nothing' \/ busy'
    BY <1>3, <1>4, <1>6 DEF Nothing
  <2> QED BY <1>1, <1>3, <1>5, <2>1 DEF Turns, InCalls, Resting, Tearing
<1>12. Places'
  BY <1>1, <1>2, <1>3, <1>5, <1>6 DEF Places, InCalls, Resting, Waiting, Tearing
<1>13. Truth'
  BY <1>1, <1>3, <1>5 DEF Truth, Waiting, InCalls, Resting, ReplyTruthful, Found, OK
<1>14. Sync'
  BY <1>5 DEF Sync
<1> QED BY <1>9, <1>10, <1>11, <1>12, <1>13, <1>14

-----------------------------------------------------------------------------
(* What the handler of an accepted reply finds. *)
LEMMA Accepted ==
  ASSUME TalkInv, NEW ev, Accept(ev)
  PROVE  /\ toClient' \in Seq(Messages) /\ Message \in Messages
         /\ rpc \in {"loop", "last"} /\ active /\ active' = active /\ busy' = busy
         /\ Replies = {1} /\ Replies' = {} /\ toServer = <<>> /\ wait_for.res = ev /\ ev # None
         /\ Answered
         /\ ev = "DESCRIBE" => Message.desc \in Descriptions
         /\ ev # "DESCRIBE" => curr \in AllMedia /\ rtsp_queue # <<>>
         /\ busy /\ apc \notin InCalls \cup Resting
         /\ OK \in Codes /\ response_id' = OK
         /\ UNCHANGED <<comm_mutex, server, apc, cmd, seeking, reply, calls>>
         /\ fin = "run" => rpc = "loop"
         /\ Handled(ev)
<1>1. /\ Readable /\ Valid(Message) /\ Message.code = OK /\ wait_for.res = ev
      /\ response_id' = OK /\ toClient' = Tail(toClient)
      /\ UNCHANGED <<comm_mutex, busy, active, server, apc, cmd, seeking, reply, calls>>
  BY DEF Accept, application
<1>2. /\ toClient' \in Seq(Messages) /\ Message \in Messages
      /\ rpc \in {"loop", "last"} /\ active
      /\ Replies = {1} /\ Replies' = {} /\ toServer = <<>> /\ wait_for.res # None
      /\ Message = toClient[1] /\ Message.code \in Codes
      /\ wait_for.res = "DESCRIBE" => Message.desc \in Descriptions
      /\ wait_for.res # "DESCRIBE" => curr \in AllMedia /\ rtsp_queue # <<>>
      /\ busy /\ apc \notin InCalls \cup Resting
  BY <1>1, ValidReply, MessageTaken
<1>3. Answered
  BY <1>1, <1>2 DEF Answered
<1>4. fin = "run" => rpc = "loop"
  BY <1>2 DEF TalkInv, Places
<1>5. Handled(ev)
  BY <1>1 DEF Valid
<1> QED BY <1>1, <1>2, <1>3, <1>4, <1>5


(* The media of a queue, and of two queues that agree on them. *)
MediaOf(queue) ==
  UNION {{[sess |-> s, med |-> m] : m \in 1 .. queue[s].media} : s \in DOMAIN queue}

(* They are the same if the queues agree on how many there are of each session. *)
LEMMA SameMedia ==
  ASSUME NEW p, NEW q, DOMAIN p = DOMAIN q, \A s \in DOMAIN q : p[s].media = q[s].media
  PROVE  MediaOf(p) = MediaOf(q)
<1> DEFINE D == DOMAIN q
<1>1. \A s \in D : p[s].media = q[s].media
  OBVIOUS
<1> HIDE DEF D
<1>2. UNION {{[sess |-> s, med |-> m] : m \in 1 .. p[s].media} : s \in D}
        = UNION {{[sess |-> s, med |-> m] : m \in 1 .. q[s].media} : s \in D}
  BY <1>1
<1>3. D = DOMAIN p /\ D = DOMAIN q
  BY DEF D
<1> QED BY <1>2, <1>3, Zenon DEF MediaOf

(* Sessions and media are counted from 1. *)
LEMMA MediaIn ==
  ASSUME NEW q \in Seq([media : Nat \ {0}, CSeq : Nat]), NEW x \in MediaOf(q)
  PROVE  x.sess \in Nat /\ x.sess >= 1 /\ x.med \in Nat /\ x.med >= 1
<1>1. /\ Len(q) \in Nat /\ DOMAIN q = 1 .. Len(q)
      /\ \A s \in 1 .. Len(q) : q[s] \in [media : Nat \ {0}, CSeq : Nat]
  BY LenProperties, ElementOfSeq
<1>2. PICK s \in DOMAIN q : x \in {[sess |-> s, med |-> m] : m \in 1 .. q[s].media}
  BY DEF MediaOf
<1>3. PICK m \in 1 .. q[s].media : x = [sess |-> s, med |-> m]
  BY <1>2
<1> QED BY <1>1, <1>2, <1>3

(* A handler that goes on with the next request, or gives up. *)
LEMMA ContinueTalks ==
  ASSUME TalkInv, NEW ev, Accept(ev), NEW res \in Methods \ {"DESCRIBE"},
         NEW queue \in Seq([media : Nat \ {0}, CSeq : Nat]),
         NEW at \in Medium, at.sess \in 1 .. Len(queue), at.med \in 1 .. queue[at.sess].media,
         Continue(res, queue, at), curr' = at, UNCHANGED <<status, rtp>>,
         apc \in Waiting /\ rpc = "loop" => res \in RequestsOf(cmd)
  PROVE  /\ Typed' /\ Exchange' /\ Turns' /\ Places' /\ Truth'
         /\ AllSessions' = DOMAIN queue
         /\ AllMedia' = MediaOf(queue)
         /\ rpc' \in {"loop", "lock", "unlock"} /\ fin' = "run" =>
              /\ wait_for'.res = res /\ rpc' = "loop" /\ rpc = "loop" /\ fin = "run"
<1> USE DEF TalkInv
<1>1. /\ toClient' \in Seq(Messages)
      /\ rpc \in {"loop", "last"} /\ active /\ active' = active /\ busy' = busy
      /\ Replies' = {} /\ toServer = <<>>
      /\ busy /\ apc \notin InCalls \cup Resting
      /\ OK \in Codes /\ response_id' = OK
      /\ UNCHANGED <<comm_mutex, server, apc, cmd, seeking, reply, calls>>
      /\ fin = "run" => rpc = "loop"
  BY Accepted
<1>2. Len(queue) \in Nat /\ DOMAIN queue = 1 .. Len(queue) /\ queue # <<>>
  BY LenProperties, EmptySeq
<1>3. CASE Ask(res, queue, at) /\ Back /\ UNCHANGED outcome
  <2>1. /\ rtsp_queue' \in Seq([media : Nat \ {0}, CSeq : Nat])
        /\ Len(rtsp_queue') = Len(queue) /\ DOMAIN rtsp_queue' = DOMAIN queue
        /\ \A s \in DOMAIN queue : rtsp_queue'[s].media = queue[s].media
        /\ wait_for'.res = res /\ wait_for'.cseq \in Nat \ {0} /\ wait_for'.sess = at.sess
        /\ wait_for' \in [res : {res}, cseq : Nat, sess : 1 .. Len(rtsp_queue')]
        /\ toServer' = IF active THEN <<[res |-> res, cseq |-> wait_for'.cseq, at |-> at]>>
                       ELSE <<>>
    BY <1>1, <1>3, AskSends
  <2>2. /\ fin' \in {"run", "cancelled", "final"} /\ last_id' = NoId
        /\ fin = "run" <=> fin' = "run"
        /\ fin = "run" => rpc' = "loop"
        /\ fin # "run" => rpc' \in {"reinit", "dead"}
    BY <1>3 DEF Back, Typed
  <2>3. AllSessions' = DOMAIN queue /\ AllMedia' = MediaOf(queue)
    <3>1. DOMAIN rtsp_queue' = DOMAIN queue /\ AllMedia' = MediaOf(rtsp_queue')
      BY <2>1, Zenon DEF AllMedia, AllSessions, MediaOf
    <3>2. MediaOf(rtsp_queue') = MediaOf(queue)
      BY <2>1, SameMedia
    <3> QED BY <3>1, <3>2 DEF AllSessions
  <2>4. at \in AllMedia'
    <3>1. at = [sess |-> at.sess, med |-> at.med]
      BY DEF Medium
    <3>2. at \in {[sess |-> at.sess, med |-> m] : m \in 1 .. queue[at.sess].media}
      BY <3>1
    <3> QED BY <1>2, <2>3, <3>2 DEF MediaOf
  <2>5. rtsp_queue' # <<>>
    BY <1>2, <2>1, LenProperties, EmptySeq
  <2>6. Exchange'
    BY <1>1, <2>1, <2>4, AskExchange
  <2>7. Typed'
    <3>1. /\ comm_mutex' \in {None, "app", "rtsp"} /\ busy' \in BOOLEAN
          /\ apc' \in {"idle", "connect", "describe", "locate", "send", "wait", "asleep", "woken",
                       "flush", "join", "done", "crashed"}
          /\ rpc' \in {"loop", "last", "reinit", "clean", "clean_lock", "clean_unlock", "clean_id",
                       "restore", "lock", "unlock", "dead"}
          /\ response_id' \in {0, Reinitialized} \cup Codes /\ last_id' \in {last_id, NoId}
          /\ wait_for'.cseq \in Nat /\ curr' \in AllMedia' /\ curr' \in Medium
      BY <1>1, <2>1, <2>2, <2>4 DEF Typed, TypeOK
    <3> QED BY <1>1, <2>1, <2>2, <3>1, AskTyped
  <2>8. Turns'
    BY <1>1, <1>3, <2>2 DEF Turns, InCalls, Resting, Tearing
  <2>9. Places'
    BY <1>1, <2>2, <2>5 DEF Places, InCalls, Resting, Waiting, Tearing
  <2>10. Truth'
    BY <1>1, <2>1, <2>2 DEF Truth, Waiting, InCalls, Resting, ReplyTruthful
  <2> QED BY <1>1, <2>1, <2>2, <2>3, <2>6, <2>7, <2>8, <2>9, <2>10
<1>4. CASE Drop /\ rtsp_queue' = queue /\ wait_for' = NoWait /\ UNCHANGED toServer
  <2>1. /\ rpc' = "reinit" /\ outcome' # None /\ last_id' = last_id
        /\ fin' \in {"run", "cancelled", "final"} /\ (fin = "run" => fin' = "run")
    BY <1>4, DropFacts
  <2>2. wait_for'.res = None /\ toServer' = <<>> /\ Nothing'
    BY <1>1, <1>4 DEF NoWait, Nothing
  <2>3. AllSessions' = DOMAIN queue /\ AllMedia' = MediaOf(queue)
    BY <1>4 DEF AllSessions, AllMedia, MediaOf
  <2>4. at \in AllMedia'
    <3>1. at = [sess |-> at.sess, med |-> at.med]
      BY DEF Medium
    <3>2. at \in {[sess |-> at.sess, med |-> m] : m \in 1 .. queue[at.sess].media}
      BY <3>1
    <3> QED BY <1>2, <2>3, <3>2 DEF MediaOf
  <2>5. Typed'
    <3>1. wait_for' \in [res : Methods \cup {None}, cseq : Nat, sess : 0 .. Len(rtsp_queue')]
      BY <1>2, <1>4 DEF NoWait
    <3>2. TypeOK'
      BY <1>1, <2>1, <2>4, <3>1 DEF Typed, TypeOK
    <3> QED BY <1>1, <1>4, <2>1, <2>2, <3>2 DEF Typed
  <2>6. Exchange'
    BY <1>1, <2>2 DEF Exchange, Nothing
  <2>7. Turns'
    BY <1>1, <2>1, <2>2 DEF Turns, InCalls, Resting, Tearing
  <2>8. Places'
    BY <1>1, <1>2, <1>4, <2>1, <2>2 DEF Places, InCalls, Resting, Waiting, Tearing
  <2>9. Truth'
    BY <1>1, <2>1, <2>2 DEF Truth, Waiting, InCalls, Resting, ReplyTruthful
  <2> QED BY <2>1, <2>3, <2>5, <2>6, <2>7, <2>8, <2>9
<1> QED BY <1>3, <1>4 DEF Continue

(* A handler that completes the command. *)
LEMMA CompleteTalks ==
  ASSUME TalkInv, NEW ev \in {"SETUP", "PLAY", "PAUSE"}, Accept(ev),
         NEW s, s = IF ev = "PLAY" THEN "PLAYING" ELSE "READY", Complete(s),
         rtp' \in {rtp, "running"}
  PROVE  /\ Typed' /\ Exchange' /\ Turns' /\ Places' /\ Truth'
         /\ rtsp_queue' = rtsp_queue /\ AllSessions' = AllSessions /\ AllMedia' = AllMedia
         /\ status' = s /\ rpc' = "lock" /\ fin' = fin /\ wait_for'.res = None
         /\ Nothing'
<1> USE DEF TalkInv
<1>1. /\ toClient' \in Seq(Messages)
      /\ rpc \in {"loop", "last"} /\ active /\ active' = active /\ busy' = busy
      /\ Replies' = {} /\ toServer = <<>> /\ wait_for.res = ev
      /\ busy /\ apc \notin InCalls \cup Resting /\ rtsp_queue # <<>>
      /\ OK \in Codes /\ response_id' = OK
      /\ UNCHANGED <<comm_mutex, server, apc, cmd, seeking, reply, calls>>
      /\ fin = "run" => rpc = "loop"
  BY Accepted
<1>2. /\ status' = s /\ wait_for' = NoWait /\ curr' = NULL /\ rpc' = "lock"
      /\ UNCHANGED <<fin, last_id, rtsp_queue, toServer>> /\ Decided("ok")
      /\ s \in {"READY", "PLAYING"}
  BY DEF Complete
<1>3. wait_for'.res = None /\ Nothing' /\ toServer' = <<>> /\ outcome' # None
  BY <1>1, <1>2 DEF NoWait, Nothing, Decided, None
<1>4. AllSessions' = AllSessions /\ AllMedia' = AllMedia
  BY <1>2 DEF AllSessions, AllMedia
<1>5. Typed'
  <2>1. wait_for' \in [res : Methods \cup {None}, cseq : Nat, sess : 0 .. Len(rtsp_queue')]
    <3>1. Len(rtsp_queue) \in Nat
      BY InMedia
    <3> QED BY <1>2, <3>1 DEF NoWait
  <2>2. NULL \in Medium
    BY DEF NULL, Medium
  <2>3. TypeOK'
    BY <1>1, <1>2, <1>4, <2>1 DEF Typed, TypeOK
  <2> QED BY <1>1, <1>2, <1>3, <2>2, <2>3 DEF Typed
<1>6. Exchange'
  BY <1>1, <1>3 DEF Exchange, Nothing
<1>7. Turns'
  BY <1>1, <1>2, <1>3 DEF Turns, InCalls, Resting, Tearing
<1>8. Places'
  BY <1>1, <1>2, <1>3 DEF Places, InCalls, Resting, Waiting, Tearing
<1>9. Truth'
  <2>1. ASSUME apc \in Waiting PROVE s = Target(cmd)
    <3>1. fin = "run" /\ rpc = "loop"
      BY <1>1, <2>1 DEF Places
    <3>2. ev \in RequestsOf(cmd)
      BY <1>1, <2>1, <3>1 DEF Truth, None
    <3>3. cmd \in Commands \cup {None}
      BY DEF Typed
    <3>4. \/ ev = "SETUP" /\ cmd = "open"
          \/ ev = "PLAY" /\ cmd = "play"
          \/ ev = "PAUSE" /\ cmd = "pause"
      <4>1. CASE cmd = "open"
        BY <3>2, <4>1 DEF RequestsOf
      <4>2. CASE cmd = "play"
        BY <3>2, <4>2 DEF RequestsOf
      <4>3. CASE cmd = "pause"
        BY <3>2, <4>3 DEF RequestsOf
      <4>4. CASE cmd \notin {"open", "play", "pause"}
        BY <3>2, <4>4 DEF RequestsOf
      <4> QED BY <4>1, <4>2, <4>3, <4>4
    <3> QED BY <3>4 DEF Target
  <2> QED BY <1>1, <1>2, <1>3, <2>1 DEF Truth, Waiting, InCalls, Resting, ReplyTruthful
<1> QED BY <1>2, <1>3, <1>4, <1>5, <1>6, <1>7, <1>8, <1>9

(* The order in which the media are set up, and the sessions played. *)
LEMMA NextFacts ==
  ASSUME Typed, NEW at \in AllMedia
  PROVE  /\ NextMedium(at) # NULL =>
              /\ NextMedium(at) \in AllMedia
              /\ \A x \in AllMedia : x \in Before(NextMedium(at)) <=> x \in Before(at) \/ x = at
         /\ NextMedium(at) = NULL => \A x \in AllMedia : x \in Before(at) \/ x = at
         /\ NextSession(at) # NULL =>
              NextSession(at) \in AllMedia /\ NextSession(at).sess = at.sess + 1
         /\ NextSession(at) = NULL => at.sess = Len(rtsp_queue)
         /\ at \in Medium /\ at.sess \in 1 .. Len(rtsp_queue)
<1>1. /\ Len(rtsp_queue) \in Nat /\ AllSessions = 1 .. Len(rtsp_queue)
      /\ \A s \in 1 .. Len(rtsp_queue) : rtsp_queue[s].media \in Nat \ {0}
      /\ \A x : x \in AllMedia <=> /\ x \in Medium /\ x.sess \in 1 .. Len(rtsp_queue)
                                   /\ x.med \in 1 .. rtsp_queue[x.sess].media
  BY InMedia
<1>2. /\ at \in Medium /\ at.sess \in 1 .. Len(rtsp_queue) /\ at.sess \in Nat /\ at.med \in Nat
      /\ at.med \in 1 .. rtsp_queue[at.sess].media
  BY <1>1 DEF Medium
<1> DEFINE s == [sess |-> at.sess + 1, med |-> 1]
           m == [at EXCEPT !.med = @ + 1]
<1>3. /\ s \in Medium /\ s.sess = at.sess + 1 /\ s.med = 1 /\ s # NULL
      /\ m \in Medium /\ m.sess = at.sess /\ m.med = at.med + 1 /\ m # NULL
  BY <1>2 DEF Medium, NULL
<1>4. /\ NextSession(at) = IF at.sess < Len(rtsp_queue) THEN s ELSE NULL
      /\ NextMedium(at) = IF at.med < rtsp_queue[at.sess].media THEN m ELSE NextSession(at)
  BY DEF NextSession, NextMedium
<1> HIDE DEF s, m
<1>5. ASSUME at.sess < Len(rtsp_queue) PROVE s \in AllMedia
  <2>1. s.sess \in 1 .. Len(rtsp_queue)
    BY <1>1, <1>2, <1>3, <1>5
  <2>2. 1 \in 1 .. rtsp_queue[s.sess].media
    BY <1>1, <2>1
  <2> QED BY <1>1, <1>3, <2>1, <2>2
<1>6. at.med < rtsp_queue[at.sess].media => m \in AllMedia
  BY <1>1, <1>2, <1>3
<1>7. ASSUME NEW x \in AllMedia
      PROVE  /\ x.sess \in Nat /\ x.med \in Nat /\ x.sess <= Len(rtsp_queue)
             /\ x.sess = at.sess => x.med <= rtsp_queue[at.sess].media
             /\ x.sess = at.sess /\ x.med = at.med => x = at
             /\ x.med >= 1
  BY <1>1, <1>2 DEF Medium
<1>8. \A x, y \in AllMedia : x \in Before(y) <=>
                               x.sess < y.sess \/ (x.sess = y.sess /\ x.med < y.med)
  BY DEF Before
<1>9. CASE at.med < rtsp_queue[at.sess].media
  <2>1. NextMedium(at) = m
    BY <1>4, <1>9
  <2>2. ASSUME NEW x \in AllMedia PROVE x \in Before(m) <=> x \in Before(at) \/ x = at
    <3>1. /\ x \in Before(m) <=> x.sess < m.sess \/ (x.sess = m.sess /\ x.med < m.med)
          /\ x \in Before(at) <=> x.sess < at.sess \/ (x.sess = at.sess /\ x.med < at.med)
      BY <1>6, <1>8, <1>9
    <3> QED BY <1>2, <1>3, <1>7, <3>1
  <2> QED BY <1>2, <1>3, <1>4, <1>5, <1>6, <1>9, <2>1, <2>2
<1>10. CASE ~ (at.med < rtsp_queue[at.sess].media) /\ at.sess < Len(rtsp_queue)
  <2>1. NextMedium(at) = s
    BY <1>4, <1>10
  <2>2. ASSUME NEW x \in AllMedia PROVE x \in Before(s) <=> x \in Before(at) \/ x = at
    <3>1. /\ x \in Before(s) <=> x.sess < s.sess \/ (x.sess = s.sess /\ x.med < s.med)
          /\ x \in Before(at) <=> x.sess < at.sess \/ (x.sess = at.sess /\ x.med < at.med)
      BY <1>5, <1>8, <1>10
    <3> QED BY <1>1, <1>2, <1>3, <1>7, <1>10, <3>1
  <2> QED BY <1>2, <1>3, <1>4, <1>5, <1>10, <2>1, <2>2
<1>11. CASE ~ (at.med < rtsp_queue[at.sess].media) /\ ~ (at.sess < Len(rtsp_queue))
  <2>1. ASSUME NEW x \in AllMedia PROVE x \in Before(at) \/ x = at
    <3>1. x \in Before(at) <=> x.sess < at.sess \/ (x.sess = at.sess /\ x.med < at.med)
      BY <1>8
    <3> QED BY <1>1, <1>2, <1>7, <1>11, <3>1
  <2> QED BY <1>1, <1>2, <1>4, <1>11, <2>1
<1> QED BY <1>9, <1>10, <1>11

(* handle_get_response. *)
LEMMA DescribedTalks ==
  ASSUME TalkInv, RtspDescribed
  PROVE  TalkInv'
<1> USE DEF TalkInv
<1>1. Accept("DESCRIBE") /\ UNCHANGED <<status, rtp>> /\ Readable /\ toClient' = Tail(toClient)
  BY DEF RtspDescribed, Accept
<1>2. /\ rpc \in {"loop", "last"} /\ active /\ active' = active /\ busy' = busy
      /\ Replies = {1} /\ Replies' = {} /\ toServer = <<>> /\ wait_for.res = "DESCRIBE"
      /\ Message.desc \in Descriptions /\ toClient' \in Seq(Messages)
      /\ busy /\ apc \notin InCalls \cup Resting
      /\ OK \in Codes /\ response_id' = OK
      /\ UNCHANGED <<comm_mutex, server, apc, cmd, seeking, reply, calls>>
      /\ fin = "run" => rpc = "loop"
      /\ Handled("DESCRIBE")
  BY <1>1, Accepted
<1>3. status = "INIT"
  BY <1>2 DEF Handled, Typed, TypeOK
<1>4. Message.desc \in Seq(Nat \ {0})
  BY <1>2, RtspAssumption
<1> DEFINE desc == Message.desc
<1> HIDE DEF desc
<1>5. desc \in Seq(Nat \ {0}) /\ Len(desc) \in Nat /\ DOMAIN desc = 1 .. Len(desc)
  BY <1>4, LenProperties DEF desc
<1>6. CASE DOMAIN desc = {}
  <2>1. Drop /\ UNCHANGED <<rtsp_queue, wait_for, curr, toServer>>
    BY <1>6 DEF RtspDescribed, desc
  <2>2. /\ rpc' = "reinit" /\ outcome' # None /\ last_id' = last_id
        /\ fin' \in {"run", "cancelled", "final"} /\ (fin = "run" => fin' = "run")
    BY <2>1, DropFacts
  <2>3. Exchange' /\ (Nothing => Nothing')
    <3>1. /\ \A k : k \in Replies' <=> k \in Nat \ {0} /\ k + 1 \in Replies
          /\ \A k \in Replies' : toClient'[k] = toClient[k + 1]
      BY <1>1, MessageTaken
    <3> QED BY <1>2, <2>1, <3>1, TakenExchange
  <2>4. Typed'
    <3>1. AllMedia' = AllMedia /\ AllSessions' = AllSessions
      BY <2>1 DEF AllMedia, AllSessions
    <3>2. TypeOK'
      BY <1>1, <1>2, <2>1, <2>2, <3>1 DEF Typed, TypeOK
    <3> QED BY <1>2, <2>1, <2>2, <3>2 DEF Typed
  <2>5. Turns'
    BY <1>2, <2>2, <2>3 DEF Turns, InCalls, Resting, Tearing
  <2>6. Places'
    BY <1>1, <1>2, <2>1, <2>2 DEF Places, InCalls, Resting, Waiting, Tearing
  <2>7. Truth'
    BY <1>1, <1>2, <2>2 DEF Truth, Waiting, InCalls, Resting, ReplyTruthful
  <2>8. Sync'
    BY <2>2 DEF Sync
  <2> QED BY <2>3, <2>4, <2>5, <2>6, <2>7, <2>8
<1>7. CASE DOMAIN desc # {}
  <2> DEFINE queue == [s \in DOMAIN desc |-> [media |-> desc[s], CSeq |-> 1]]
  <2>1. curr' = First /\ Continue("SETUP", queue, First)
    BY <1>7 DEF RtspDescribed, desc
  <2>2. /\ DOMAIN queue = 1 .. Len(desc) /\ Len(desc) > 0 /\ Len(queue) = Len(desc)
        /\ queue \in Seq([media : Nat \ {0}, CSeq : Nat])
    <3>1. \A s \in 1 .. Len(desc) : [media |-> desc[s], CSeq |-> 1] \in [media : Nat \ {0}, CSeq : Nat]
      BY <1>5, ElementOfSeq
    <3>2. queue \in [1 .. Len(desc) -> [media : Nat \ {0}, CSeq : Nat]]
      BY <1>5, <3>1
    <3>3. queue \in Seq([media : Nat \ {0}, CSeq : Nat])
      BY <1>5, <3>2, IsASeq
    <3>4. DOMAIN queue = 1 .. Len(desc)
      BY <1>5
    <3>5. Len(queue) = Len(desc)
      <4> HIDE DEF queue
      <4> QED BY <1>5, <3>3, <3>4, LenProperties
    <3> QED BY <1>5, <1>7, <3>3, <3>4, <3>5
  <2>3. /\ queue[1].media = desc[1] /\ desc[1] \in Nat \ {0}
    BY <1>5, <2>2, ElementOfSeq
  <2> HIDE DEF queue
  <2>4. /\ First \in Medium /\ First.sess = 1 /\ First.med = 1
        /\ First.sess \in 1 .. Len(queue) /\ First.med \in 1 .. queue[First.sess].media
    BY <1>5, <2>2, <2>3 DEF First, Medium
  <2>5. apc \in Waiting /\ rpc = "loop" => "SETUP" \in RequestsOf(cmd)
    <3>1. apc \in Waiting /\ rpc = "loop" => "DESCRIBE" \in RequestsOf(cmd)
      BY <1>2 DEF Truth, None
    <3>2. "DESCRIBE" \in RequestsOf(cmd) => "SETUP" \in RequestsOf(cmd)
      BY DEF RequestsOf
    <3> QED BY <3>1, <3>2
  <2>6. "SETUP" \in Methods \ {"DESCRIBE"}
    BY DEF Methods
  <2>7. /\ Typed' /\ Exchange' /\ Turns' /\ Places' /\ Truth'
        /\ rpc' \in {"loop", "lock", "unlock"} /\ fin' = "run" =>
             /\ wait_for'.res = "SETUP" /\ rpc' = "loop" /\ rpc = "loop" /\ fin = "run"
    BY <1>1, <2>1, <2>2, <2>4, <2>5, <2>6, ContinueTalks
  <2>9. AllMedia' = MediaOf(queue)
    BY <1>1, <2>1, <2>2, <2>4, <2>5, <2>6, ContinueTalks
  <2>8. Sync'
    <3>1. SUFFICES ASSUME wait_for'.res = "SETUP", rpc' = "loop", rpc = "loop", fin = "run"
                   PROVE  Sync'
      BY <2>7 DEF Sync
    <3>2. server = Idle /\ server' = Idle
      BY <1>2, <1>3, <3>1 DEF Sync
    <3>3. Before(curr)' = {}
      <4>1. \A x \in AllMedia' : x.sess >= 1 /\ x.med >= 1 /\ x.sess \in Nat /\ x.med \in Nat
        BY <2>2, <2>9, MediaIn
      <4> QED BY <2>1, <2>4, <4>1 DEF Before
    <3>4. SetUp'
      BY <1>2, <3>1, <3>2, <3>3 DEF SetUp, Answered, Idle
    <3>5. Playing' /\ Pausing'
      BY <1>1, <1>3 DEF Playing, Pausing
    <3> QED BY <1>1, <1>3, <3>1, <3>4, <3>5 DEF Sync, None
  <2> QED BY <2>7, <2>8
<1> QED BY <1>6, <1>7

(* init_state: the media are set up one after the other. *)
LEMMA SetUpTalks ==
  ASSUME TalkInv, RtspSetUp
  PROVE  TalkInv'
<1> USE DEF TalkInv
<1>1. /\ Accept("SETUP")
      /\ rpc \in {"loop", "last"} /\ active /\ active' = active
      /\ Replies' = {} /\ wait_for.res = "SETUP" /\ Answered
      /\ curr \in AllMedia /\ server' = server
      /\ Handled("SETUP")
      /\ fin = "run" => rpc = "loop"
  BY Accepted DEF RtspSetUp, None
<1>2. status = "INIT"
  BY <1>1 DEF Handled, Typed, TypeOK
<1>3. rpc = "loop" /\ fin = "run" =>
        server.playing = {} /\ \A x : x \in server.setup <=> x \in Before(curr) \/ x = curr
  BY <1>1 DEF Sync, SetUp
<1> DEFINE next == NextMedium(curr)
<1>4. /\ next # NULL =>
           /\ next \in AllMedia
           /\ \A x \in AllMedia : x \in Before(next) <=> x \in Before(curr) \/ x = curr
      /\ next = NULL => \A x \in AllMedia : x \in Before(curr) \/ x = curr
  BY <1>1, NextFacts
<1>5. /\ next # NULL => /\ Continue("SETUP", rtsp_queue, next) /\ curr' = next
                        /\ UNCHANGED <<status, rtp>>
      /\ next = NULL => Complete("READY") /\ rtp' = "running"
  BY DEF RtspSetUp
<1> HIDE DEF next
<1>6. CASE next # NULL
  <2>1. /\ next \in Medium /\ next.sess \in 1 .. Len(rtsp_queue)
        /\ next.med \in 1 .. rtsp_queue[next.sess].media
        /\ rtsp_queue \in Seq([media : Nat \ {0}, CSeq : Nat])
    BY <1>4, <1>6, InMedia DEF Typed
  <2>2. apc \in Waiting /\ rpc = "loop" => "SETUP" \in RequestsOf(cmd)
    BY <1>1 DEF Truth, None
  <2>3. "SETUP" \in Methods \ {"DESCRIBE"}
    BY DEF Methods
  <2>3a. Continue("SETUP", rtsp_queue, next) /\ curr' = next /\ UNCHANGED <<status, rtp>>
    BY <1>5, <1>6
  <2>3b. Accept("SETUP")
    BY <1>1
  <2>4. /\ Typed' /\ Exchange' /\ Turns' /\ Places' /\ Truth' /\ AllMedia' = MediaOf(rtsp_queue)
        /\ rpc' \in {"loop", "lock", "unlock"} /\ fin' = "run" =>
             /\ wait_for'.res = "SETUP" /\ rpc' = "loop" /\ rpc = "loop" /\ fin = "run"
    BY <2>1, <2>2, <2>3, <2>3a, <2>3b, ContinueTalks
  <2>5. AllMedia' = AllMedia
    BY <2>4 DEF MediaOf, AllMedia, AllSessions
  <2>6. Sync'
    <3>1. SUFFICES ASSUME wait_for'.res = "SETUP", rpc' = "loop", rpc = "loop", fin = "run"
                   PROVE  Sync'
      BY <2>4 DEF Sync
    <3>2. Before(curr)' = Before(next)
      BY <1>5, <1>6, <2>5 DEF Before
    <3>3. Before(next) = server.setup
      <4>1. Before(next) \subseteq AllMedia /\ Before(curr) \subseteq AllMedia
        BY DEF Before
      <4> QED BY <1>1, <1>3, <1>4, <1>6, <3>1, <4>1
    <3>4. SetUp'
      BY <1>1, <1>3, <3>1, <3>2, <3>3 DEF SetUp, Answered
    <3>5. Playing' /\ Pausing'
      BY <1>2, <1>5, <1>6 DEF Playing, Pausing
    <3> QED BY <1>2, <1>5, <1>6, <3>1, <3>4, <3>5 DEF Sync, None
  <2> QED BY <2>4, <2>6
<1>7. CASE next = NULL
  <2>1. /\ Typed' /\ Exchange' /\ Turns' /\ Places' /\ Truth' /\ AllMedia' = AllMedia
        /\ status' = "READY" /\ rpc' = "lock" /\ fin' = fin /\ wait_for'.res = None /\ Nothing'
    BY <1>1, <1>5, <1>7, CompleteTalks
  <2>2. Sync'
    <3>1. SUFFICES ASSUME rpc = "loop", fin = "run" PROVE Sync'
      BY <1>1, <2>1 DEF Sync
    <3>2. server.setup = AllMedia
      <4>1. Before(curr) \subseteq AllMedia
        BY DEF Before
      <4> QED BY <1>1, <1>3, <1>4, <1>7, <3>1, <4>1
    <3>3. SetUp' /\ Playing' /\ Pausing'
      BY <1>1, <1>3, <2>1, <3>1 DEF SetUp, Playing, Pausing, None
    <3> QED BY <1>1, <2>1, <3>2, <3>3 DEF Sync, None
  <2> QED BY <2>1, <2>2
<1> QED BY <1>6, <1>7

(* ready_state: the sessions are played one after the other. *)
LEMMA PlayedTalks ==
  ASSUME TalkInv, RtspPlayed
  PROVE  TalkInv'
<1> USE DEF TalkInv
<1>1. /\ Accept("PLAY")
      /\ rpc \in {"loop", "last"} /\ active /\ active' = active
      /\ Replies' = {} /\ wait_for.res = "PLAY" /\ Answered
      /\ curr \in AllMedia /\ server' = server
      /\ Handled("PLAY")
      /\ fin = "run" => rpc = "loop"
  BY Accepted DEF RtspPlayed, None
<1>2. status = "READY"
  BY <1>1 DEF Handled, Typed, TypeOK
<1>3. rpc = "loop" /\ fin = "run" => server.setup = AllMedia /\ server.playing = 1 .. curr.sess
  BY <1>1, <1>2 DEF Sync, Playing, None
<1> DEFINE next == NextSession(curr)
<1>4. /\ next # NULL => next \in AllMedia /\ next.sess = curr.sess + 1
      /\ next = NULL => curr.sess = Len(rtsp_queue)
      /\ curr.sess \in 1 .. Len(rtsp_queue)
  BY <1>1, NextFacts
<1>5. /\ next # NULL => /\ Continue("PLAY", rtsp_queue, next) /\ curr' = next
                        /\ UNCHANGED <<status, rtp>>
      /\ next = NULL => Complete("PLAYING") /\ rtp' = rtp
  BY DEF RtspPlayed
<1> HIDE DEF next
<1>6. /\ Len(rtsp_queue) \in Nat /\ AllSessions = 1 .. Len(rtsp_queue) /\ curr.sess \in Nat
  BY <1>4, InMedia
<1>7. CASE next # NULL
  <2>1. /\ next \in Medium /\ next.sess \in 1 .. Len(rtsp_queue)
        /\ next.med \in 1 .. rtsp_queue[next.sess].media
        /\ rtsp_queue \in Seq([media : Nat \ {0}, CSeq : Nat])
    BY <1>4, <1>7, InMedia DEF Typed
  <2>2. apc \in Waiting /\ rpc = "loop" => "PLAY" \in RequestsOf(cmd)
    BY <1>1 DEF Truth, None
  <2>3. "PLAY" \in Methods \ {"DESCRIBE"}
    BY DEF Methods
  <2>3a. Continue("PLAY", rtsp_queue, next) /\ curr' = next /\ UNCHANGED <<status, rtp>>
    BY <1>5, <1>7
  <2>3b. Accept("PLAY")
    BY <1>1
  <2>4. /\ Typed' /\ Exchange' /\ Turns' /\ Places' /\ Truth' /\ AllMedia' = MediaOf(rtsp_queue)
        /\ rpc' \in {"loop", "lock", "unlock"} /\ fin' = "run" =>
             /\ wait_for'.res = "PLAY" /\ rpc' = "loop" /\ rpc = "loop" /\ fin = "run"
    BY <2>1, <2>2, <2>3, <2>3a, <2>3b, ContinueTalks
  <2>5. AllMedia' = AllMedia
    BY <2>4 DEF MediaOf, AllMedia, AllSessions
  <2>6. Sync'
    <3>1. SUFFICES ASSUME wait_for'.res = "PLAY", rpc' = "loop", rpc = "loop", fin = "run"
                   PROVE  Sync'
      BY <2>4 DEF Sync
    <3>2. curr'.sess - 1 = curr.sess
      BY <1>4, <1>5, <1>6, <1>7
    <3>3. Playing'
      BY <1>1, <1>3, <3>1, <3>2 DEF Playing, Answered, None
    <3>4. SetUp' /\ Pausing'
      BY <1>2, <1>5, <1>7, <3>1 DEF SetUp, Pausing
    <3> QED BY <1>1, <1>2, <1>3, <1>5, <1>7, <2>5, <3>1, <3>3, <3>4 DEF Sync, None
  <2> QED BY <2>4, <2>6
<1>8. CASE next = NULL
  <2>1. /\ Typed' /\ Exchange' /\ Turns' /\ Places' /\ Truth' /\ AllMedia' = AllMedia
        /\ AllSessions' = AllSessions
        /\ status' = "PLAYING" /\ rpc' = "lock" /\ fin' = fin /\ wait_for'.res = None /\ Nothing'
    BY <1>1, <1>5, <1>8, CompleteTalks
  <2>2. Sync'
    <3>1. SUFFICES ASSUME rpc = "loop", fin = "run" PROVE Sync'
      BY <1>1, <2>1 DEF Sync
    <3>2. server.playing = AllSessions
      BY <1>3, <1>4, <1>6, <1>8, <3>1
    <3>3. SetUp' /\ Playing' /\ Pausing'
      BY <1>1, <2>1, <3>2 DEF SetUp, Playing, Pausing, None
    <3> QED BY <1>1, <1>3, <2>1, <3>1, <3>3 DEF Sync, None
  <2> QED BY <2>1, <2>2
<1> QED BY <1>7, <1>8

(* Queues of the same sessions are as long. *)
LEMMA SameEnd ==
  ASSUME NEW a \in Nat, NEW b \in Nat, 1 .. a = 1 .. b
  PROVE  a = b
<1>1. \A k \in Nat : 1 <= k /\ k <= a <=> 1 <= k /\ k <= b
  <2>1. \A k \in Nat : (k \in 1 .. a <=> 1 <= k /\ k <= a) /\ (k \in 1 .. b <=> 1 <= k /\ k <= b)
    OBVIOUS
  <2> QED BY <2>1
<1>2. (1 <= a => a <= b) /\ (1 <= b => b <= a)
  BY <1>1
<1> QED BY <1>2

(* playing_state: the sessions are paused one after the other. *)
LEMMA PausedTalks ==
  ASSUME TalkInv, RtspPaused
  PROVE  TalkInv'
<1> USE DEF TalkInv
<1>1. /\ Accept("PAUSE")
      /\ rpc \in {"loop", "last"} /\ active /\ active' = active
      /\ Replies' = {} /\ wait_for.res = "PAUSE" /\ Answered
      /\ curr \in AllMedia /\ server' = server
      /\ Handled("PAUSE")
      /\ fin = "run" => rpc = "loop"
  BY Accepted DEF RtspPaused, None
<1>2. status = "PLAYING"
  BY <1>1 DEF Handled, Typed, TypeOK
<1>3. rpc = "loop" /\ fin = "run" =>
        server.setup = AllMedia /\ server.playing = curr.sess + 1 .. Len(rtsp_queue)
  BY <1>1, <1>2 DEF Sync, Pausing, None
<1> DEFINE next == NextSession(curr)
<1>4. /\ next # NULL => next \in AllMedia /\ next.sess = curr.sess + 1
      /\ next = NULL => curr.sess = Len(rtsp_queue)
      /\ curr.sess \in 1 .. Len(rtsp_queue)
  BY <1>1, NextFacts
<1>5. /\ next # NULL => /\ Continue("PAUSE", rtsp_queue, next) /\ curr' = next
                        /\ UNCHANGED <<status, rtp>>
      /\ next = NULL => Complete("READY") /\ rtp' = rtp
  BY DEF RtspPaused
<1> HIDE DEF next
<1>6. /\ Len(rtsp_queue) \in Nat /\ AllSessions = 1 .. Len(rtsp_queue) /\ curr.sess \in Nat
      /\ DOMAIN rtsp_queue = 1 .. Len(rtsp_queue)
  BY <1>4, InMedia DEF AllSessions
<1>7. CASE next # NULL
  <2>1. /\ next \in Medium /\ next.sess \in 1 .. Len(rtsp_queue)
        /\ next.med \in 1 .. rtsp_queue[next.sess].media
        /\ rtsp_queue \in Seq([media : Nat \ {0}, CSeq : Nat])
    BY <1>4, <1>7, InMedia DEF Typed
  <2>2. apc \in Waiting /\ rpc = "loop" => "PAUSE" \in RequestsOf(cmd)
    BY <1>1 DEF Truth, None
  <2>3. "PAUSE" \in Methods \ {"DESCRIBE"}
    BY DEF Methods
  <2>3a. Continue("PAUSE", rtsp_queue, next) /\ curr' = next /\ UNCHANGED <<status, rtp>>
    BY <1>5, <1>7
  <2>3b. Accept("PAUSE")
    BY <1>1
  <2>4. /\ Typed' /\ Exchange' /\ Turns' /\ Places' /\ Truth' /\ AllMedia' = MediaOf(rtsp_queue)
        /\ AllSessions' = DOMAIN rtsp_queue
        /\ rpc' \in {"loop", "lock", "unlock"} /\ fin' = "run" =>
             /\ wait_for'.res = "PAUSE" /\ rpc' = "loop" /\ rpc = "loop" /\ fin = "run"
    BY <2>1, <2>2, <2>3, <2>3a, <2>3b, ContinueTalks
  <2>5. AllMedia' = AllMedia /\ Len(rtsp_queue') = Len(rtsp_queue)
    <3>1. AllMedia' = AllMedia
      BY <2>4 DEF MediaOf, AllMedia, AllSessions
    <3>2. rtsp_queue' \in Seq([media : Nat \ {0}, CSeq : Nat])
      BY <2>4 DEF Typed
    <3>3. Len(rtsp_queue') \in Nat /\ DOMAIN rtsp_queue' = 1 .. Len(rtsp_queue')
      BY <3>2, LenProperties
    <3>4. 1 .. Len(rtsp_queue') = 1 .. Len(rtsp_queue)
      BY <1>6, <2>4, <3>3 DEF AllSessions
    <3>5. Len(rtsp_queue') = Len(rtsp_queue)
      BY <1>6, <3>3, <3>4, SameEnd, Zenon
    <3> QED BY <3>1, <3>5
  <2>6. Sync'
    <3>1. SUFFICES ASSUME wait_for'.res = "PAUSE", rpc' = "loop", rpc = "loop", fin = "run"
                   PROVE  Sync'
      BY <2>4 DEF Sync
    <3>2. curr'.sess = curr.sess + 1
      BY <1>4, <1>5, <1>6, <1>7
    <3>3. Pausing'
      BY <1>1, <1>3, <2>5, <3>1, <3>2 DEF Pausing, Answered, None
    <3>4. SetUp' /\ Playing'
      BY <1>2, <1>5, <1>7, <3>1 DEF SetUp, Playing
    <3> QED BY <1>1, <1>2, <1>3, <1>5, <1>7, <2>5, <3>1, <3>3, <3>4 DEF Sync, None
  <2> QED BY <2>4, <2>6
<1>8. CASE next = NULL
  <2>1. /\ Typed' /\ Exchange' /\ Turns' /\ Places' /\ Truth' /\ AllMedia' = AllMedia
        /\ AllSessions' = AllSessions
        /\ status' = "READY" /\ rpc' = "lock" /\ fin' = fin /\ wait_for'.res = None /\ Nothing'
    BY <1>1, <1>5, <1>8, CompleteTalks
  <2>2. Sync'
    <3>1. SUFFICES ASSUME rpc = "loop", fin = "run" PROVE Sync'
      BY <1>1, <2>1 DEF Sync
    <3>2. server.playing = {}
      BY <1>3, <1>4, <1>6, <1>8, <3>1
    <3>3. SetUp' /\ Playing' /\ Pausing'
      BY <1>1, <2>1, <3>2 DEF SetUp, Playing, Pausing, None
    <3> QED BY <1>1, <1>3, <2>1, <3>1, <3>3 DEF Sync, None
  <2> QED BY <2>1, <2>2
<1> QED BY <1>7, <1>8

(* RTSP_CLOSE_RESPONSE. *)
LEMMA ClosedTalks ==
  ASSUME TalkInv, RtspClosed
  PROVE  TalkInv'
<1> USE DEF TalkInv
<1>1. /\ toClient' \in Seq(Messages)
      /\ rpc \in {"loop", "last"} /\ active /\ active' = active /\ busy' = busy
      /\ Replies' = {} /\ toServer = <<>>
      /\ busy /\ apc \notin InCalls \cup Resting /\ rtsp_queue # <<>>
      /\ OK \in Codes /\ response_id' = OK
      /\ UNCHANGED <<comm_mutex, server, apc, cmd, seeking, reply, calls>>
  BY Accepted DEF RtspClosed
<1>2. /\ status' = "INIT" /\ wait_for' = NoWait /\ last_id' = OK /\ outcome' # None
      /\ rpc' = "reinit" /\ UNCHANGED <<fin, rtsp_queue, curr, rtp, toServer>>
  BY DEF RtspClosed, Decided, sessions, None
<1>3. wait_for'.res = None /\ Nothing' /\ toServer' = <<>>
  BY <1>1, <1>2 DEF NoWait, Nothing
<1>4. Typed'
  <2>1. wait_for' \in [res : Methods \cup {None}, cseq : Nat, sess : 0 .. Len(rtsp_queue')]
    <3>1. Len(rtsp_queue) \in Nat
      BY InMedia
    <3> QED BY <1>2, <3>1 DEF NoWait
  <2>2. AllSessions' = AllSessions /\ AllMedia' = AllMedia
    BY <1>2 DEF AllSessions, AllMedia
  <2>3. TypeOK'
    BY <1>1, <1>2, <2>1, <2>2 DEF Typed, TypeOK
  <2> QED BY <1>1, <1>2, <1>3, <2>3 DEF Typed
<1>5. Exchange'
  BY <1>1, <1>3 DEF Exchange, Nothing
<1>6. Turns'
  BY <1>1, <1>2, <1>3 DEF Turns, InCalls, Resting, Tearing
<1>7. Places'
  BY <1>1, <1>2, <1>3 DEF Places, InCalls, Resting, Waiting, Tearing
<1>8. Truth'
  BY <1>1, <1>2, <1>3 DEF Truth, Waiting, InCalls, Resting, ReplyTruthful
<1>9. Sync'
  BY <1>2 DEF Sync
<1> QED BY <1>4, <1>5, <1>6, <1>7, <1>8, <1>9

-----------------------------------------------------------------------------
(* Tear-down: rtsp_reinit, clean_rtsp_th and rtsp_unbusy. *)
LEMMA ReinitTalks ==
  ASSUME TalkInv, Reinit
  PROVE  TalkInv'
<1> USE DEF TalkInv
<1>1. /\ rpc = "reinit" /\ rpc' = "clean"
      /\ UNCHANGED <<comm_mutex, busy, status, response_id, wait_for, connection, rtsp_queue,
                     curr, application, fin, last_id, outcome>>
      /\ UNCHANGED <<active, toServer, toClient, server, apc, cmd, seeking, reply>>
  BY DEF Reinit, connection, application
<1>2. Exchange' /\ (Nothing' <=> Nothing)
  BY <1>1, ExchangeStays
<1>3. Typed'
  <2>1. AllMedia' = AllMedia /\ AllSessions' = AllSessions
    BY <1>1 DEF AllMedia, AllSessions
  <2>2. TypeOK'
    BY <1>1, <2>1 DEF Typed, TypeOK
  <2> QED BY <1>1, <2>2 DEF Typed
<1>4. Turns'
  BY <1>1, <1>2 DEF Turns, InCalls, Resting, Tearing
<1>5. Places'
  BY <1>1 DEF Places, InCalls, Resting, Waiting, Tearing, Allowed
<1>6. Truth'
  BY <1>1 DEF Truth, Waiting, InCalls, ReplyTruthful
<1>7. Sync'
  BY <1>1 DEF Sync
<1> QED BY <1>2, <1>3, <1>4, <1>5, <1>6, <1>7

(* clean_rtsp_th closes the connection. *)
LEMMA CleanTalks ==
  ASSUME TalkInv, Clean
  PROVE  TalkInv'
<1> USE DEF TalkInv
<1>1. /\ rpc = "clean" /\ rpc' = "clean_lock" /\ active' = FALSE /\ toServer' = <<>>
      /\ toClient' = <<>> /\ status' = "INIT" /\ wait_for' = NoWait /\ rtsp_queue' = <<>>
      /\ outcome' # None
      /\ UNCHANGED <<comm_mutex, busy, response_id, server, curr, rtp, apc, cmd, seeking, reply,
                     fin, last_id>>
  BY DEF Clean, application, Decided, None
<1>2. wait_for'.res = None /\ Replies' = {} /\ Nothing'
  BY <1>1 DEF NoWait, Replies, Nothing
<1>3. Typed'
  <2>1. Len(rtsp_queue') = 0 /\ rtsp_queue' \in Seq([media : Nat \ {0}, CSeq : Nat])
    BY <1>1
  <2>2. wait_for' \in [res : Methods \cup {None}, cseq : Nat, sess : 0 .. Len(rtsp_queue')]
    BY <1>1, <2>1 DEF NoWait
  <2>3. AllSessions' = {}
    BY <1>1 DEF AllSessions
  <2>4. TypeOK'
    BY <1>1, <2>2, <2>3 DEF Typed, TypeOK
  <2>5. toServer' \in Seq(Request) /\ toClient' \in Seq(Messages)
    BY <1>1
  <2> QED BY <1>1, <2>1, <2>4, <2>5 DEF Typed
<1>4. Exchange'
  BY <1>1, <1>2 DEF Exchange
<1>5. Turns'
  BY <1>1, <1>2 DEF Turns, InCalls, Resting, Tearing
<1>6. Places'
  BY <1>1, <1>2 DEF Places, InCalls, Resting, Waiting, Tearing
<1>7. Truth'
  BY <1>1, <1>2 DEF Truth, Waiting, InCalls, ReplyTruthful
<1>8. Sync'
  BY <1>1 DEF Sync
<1> QED BY <1>3, <1>4, <1>5, <1>6, <1>7, <1>8

(* rtsp_unbusy is kept waiting by a call that holds the mutex. *)
LEMMA UnbusyLockTalks ==
  ASSUME TalkInv, UnbusyLock
  PROVE  TalkInv'
<1> USE DEF TalkInv
<1>1. /\ comm_mutex = None /\ comm_mutex' = "rtsp"
      /\ \/ rpc = "lock" /\ rpc' = "unlock"
         \/ rpc = "clean_lock" /\ rpc' = "clean_unlock"
      /\ UNCHANGED <<busy, status, response_id, wait_for, connection, sessions, application, fin,
                     last_id, outcome>>
      /\ UNCHANGED <<active, toServer, toClient, server, rtsp_queue, curr, rtp, apc, cmd, seeking,
                     reply>>
  BY DEF UnbusyLock, connection, sessions, application
<1>2. Exchange' /\ (Nothing' <=> Nothing)
  BY <1>1, ExchangeStays
<1>3. Typed'
  <2>1. AllMedia' = AllMedia /\ AllSessions' = AllSessions
    BY <1>1 DEF AllMedia, AllSessions
  <2>2. TypeOK'
    BY <1>1, <2>1 DEF Typed, TypeOK
  <2> QED BY <1>1, <2>2 DEF Typed
<1>4. Turns'
  <2>1. comm_mutex # "app"
    BY <1>1 DEF None
  <2> QED BY <1>1, <1>2, <2>1 DEF Turns, InCalls, Resting, Tearing
<1>5. Places'
  <2>1. apc \notin InCalls
    BY <1>1 DEF Turns, None
  <2> QED BY <1>1, <2>1 DEF Places, InCalls, Resting, Waiting, Tearing
<1>6. Truth'
  BY <1>1 DEF Truth, Waiting, InCalls, ReplyTruthful
<1>7. Sync'
  BY <1>1, SyncStays
<1> QED BY <1>2, <1>3, <1>4, <1>5, <1>6, <1>7

(* Back to the loop, or on with the tear-down that was interrupted. *)
LEMMA BackFacts ==
  ASSUME Typed, Back
  PROVE  /\ fin' \in {"run", "cancelled", "final"} /\ last_id' = NoId
         /\ fin = "run" <=> fin' = "run"
         /\ fin = "run" => rpc' = "loop"
         /\ fin # "run" => rpc' \in {"reinit", "dead"}
BY DEF Back, Typed

(* rtsp_unbusy: the command is over, and what became of it is known. *)
LEMMA UnbusyTalks ==
  ASSUME TalkInv, Unbusy
  PROVE  TalkInv'
<1> USE DEF TalkInv
<1>1. /\ rpc \in {"unlock", "clean_unlock"} /\ comm_mutex' = None /\ busy' = FALSE
      /\ apc' = IF apc = "asleep" THEN "wait" ELSE apc
      /\ UNCHANGED <<status, response_id, wait_for, connection, sessions, cmd, seeking, reply,
                     outcome>>
      /\ UNCHANGED <<active, toServer, toClient, server, rtsp_queue, curr, rtp>>
  BY DEF Unbusy, connection, sessions, Woken
<1>2. /\ fin' \in {"run", "cancelled", "final"} /\ last_id' \in {last_id, NoId}
      /\ fin = "run" <=> fin' = "run"
      /\ \/ rpc = "unlock" /\ fin = "run" /\ rpc' = "loop"
         \/ rpc = "unlock" /\ fin # "run" /\ rpc' \in {"reinit", "dead"}
         \/ rpc = "clean_unlock" /\ rpc' = "clean_id" /\ last_id' = last_id
  <2>1. CASE rpc = "unlock"
    <3>1. Back
      BY <2>1 DEF Unbusy
    <3> QED BY <2>1, <3>1, BackFacts
  <2>2. CASE rpc = "clean_unlock"
    BY <2>2 DEF Unbusy, Typed
  <2> QED BY <1>1, <2>1, <2>2
<1>3. /\ apc \notin InCalls /\ wait_for.res = None /\ outcome # None /\ Nothing
      /\ rpc = "clean_unlock" => ~ active /\ status = "INIT" /\ rtsp_queue = <<>>
      /\ rpc = "unlock" /\ active => status # "INIT" /\ apc \notin Resting
  <2>1. comm_mutex = "rtsp"
    BY <1>1 DEF Turns
  <2>2. wait_for.res = None /\ outcome # None
    BY <1>1 DEF Turns, Places, Tearing
  <2> QED BY <1>1, <2>1, <2>2 DEF Turns, Places, Tearing, Exchange
<1>4. Exchange' /\ (Nothing' <=> Nothing)
  BY <1>1, ExchangeStays
<1>5. Typed'
  <2>1. AllMedia' = AllMedia /\ AllSessions' = AllSessions
    BY <1>1 DEF AllMedia, AllSessions
  <2>2. TypeOK'
    BY <1>1, <1>2, <2>1 DEF Typed, TypeOK
  <2> QED BY <1>1, <1>2, <2>2 DEF Typed
<1>6. Turns'
  BY <1>1, <1>2, <1>3, <1>4 DEF Turns, InCalls, Resting, Tearing
<1>7. Places'
  BY <1>1, <1>2, <1>3 DEF Places, InCalls, Resting, Waiting, Tearing
<1>8. Truth'
  BY <1>1, <1>2, <1>3 DEF Truth, Waiting, InCalls, Resting, ReplyTruthful
<1>9. Sync'
  BY <1>1, <1>2, <1>3, SyncStays
<1> QED BY <1>4, <1>5, <1>6, <1>7, <1>8, <1>9

(* The end of clean_rtsp_th. *)
LEMMA CleanIdTalks ==
  ASSUME TalkInv, CleanId
  PROVE  TalkInv'
<1> USE DEF TalkInv
<1>1. /\ rpc = "clean_id"
      /\ response_id' \in {response_id, Reinitialized}
      /\ UNCHANGED <<comm_mutex, busy, status, wait_for, connection, sessions, application,
                     outcome>>
      /\ UNCHANGED <<active, toServer, toClient, server, rtsp_queue, curr, rtp, apc, cmd, seeking,
                     reply>>
  BY DEF CleanId, connection, sessions, application
<1>2. /\ fin' \in {"run", "cancelled", "final"} /\ last_id' \in {last_id, NoId}
      /\ fin = "run" <=> fin' = "run"
      /\ \/ fin = "run" /\ rpc' = "loop"
         \/ fin # "run" /\ rpc' \in {"reinit", "dead"}
         \/ rpc' = "restore" /\ last_id' = last_id /\ last_id # NoId
  <2>1. CASE last_id = NoId
    <3>1. Back
      BY <2>1 DEF CleanId
    <3> QED BY <3>1, BackFacts
  <2>2. CASE last_id # NoId
    BY <2>2 DEF CleanId, Typed
  <2> QED BY <2>1, <2>2
<1>3. /\ apc \notin InCalls /\ wait_for.res = None /\ outcome # None /\ Nothing
      /\ ~ active /\ status = "INIT" /\ rtsp_queue = <<>>
  BY <1>1 DEF Turns, Places, Tearing, Exchange
<1>4. Exchange' /\ (Nothing' <=> Nothing)
  BY <1>1, ExchangeStays
<1>5. Typed'
  <2>1. AllMedia' = AllMedia /\ AllSessions' = AllSessions
    BY <1>1 DEF AllMedia, AllSessions
  <2>2. TypeOK'
    BY <1>1, <1>2, <2>1 DEF Typed, TypeOK
  <2> QED BY <1>1, <1>2, <2>2 DEF Typed
<1>6. Turns'
  BY <1>1, <1>2, <1>3, <1>4 DEF Turns, InCalls, Resting, Tearing
<1>7. Places'
  BY <1>1, <1>2, <1>3 DEF Places, InCalls, Resting, Waiting, Tearing
<1>8. Truth'
  BY <1>1, <1>2, <1>3 DEF Truth, Waiting, InCalls, Resting, ReplyTruthful
<1>9. Sync'
  BY <1>1, <1>3 DEF Sync
<1> QED BY <1>4, <1>5, <1>6, <1>7, <1>8, <1>9

(* The handler of RTSP_CLOSE_RESPONSE after it. *)
LEMMA RestoreTalks ==
  ASSUME TalkInv, Restore
  PROVE  TalkInv'
<1> USE DEF TalkInv
<1>1. /\ rpc = "restore" /\ rpc' = "lock" /\ response_id' = last_id /\ curr' = NULL
      /\ UNCHANGED <<comm_mutex, busy, status, wait_for, connection, rtsp_queue, rtp, application,
                     fin, last_id, outcome>>
      /\ UNCHANGED <<active, toServer, toClient, server, apc, cmd, seeking, reply>>
  BY DEF Restore, connection, application
<1>2. /\ apc \notin InCalls /\ wait_for.res = None /\ outcome # None /\ Nothing
      /\ ~ active /\ status = "INIT" /\ rtsp_queue = <<>> /\ toServer = <<>> /\ toClient = <<>>
      /\ last_id \in {OK} \cap Codes
  BY <1>1 DEF Turns, Places, Tearing, Exchange, Typed
<1>3. Replies' = {} /\ Nothing'
  BY <1>1, <1>2 DEF Replies, Nothing
<1>4. Typed'
  <2>1. AllSessions' = {} /\ NULL \in Medium
    BY <1>1, <1>2 DEF AllSessions, NULL, Medium
  <2>2. TypeOK'
    BY <1>1, <1>2, <2>1 DEF Typed, TypeOK
  <2> QED BY <1>1, <2>1, <2>2 DEF Typed
<1>5. Exchange'
  BY <1>1, <1>2, <1>3 DEF Exchange
<1>6. Turns'
  BY <1>1, <1>2, <1>3 DEF Turns, InCalls, Resting, Tearing
<1>7. Places'
  BY <1>1, <1>2 DEF Places, InCalls, Resting, Waiting, Tearing
<1>8. Truth'
  BY <1>1, <1>2 DEF Truth, Waiting, InCalls, Resting, ReplyTruthful
<1>9. Sync'
  BY <1>1, <1>2 DEF Sync
<1> QED BY <1>4, <1>5, <1>6, <1>7, <1>8, <1>9

-----------------------------------------------------------------------------
(* The server answers the request that is under way. *)
LEMMA ServerRepliesTalks ==
  ASSUME TalkInv, ServerReplies
  PROVE  TalkInv'
<1> USE DEF TalkInv
<1> DEFINE r == Head(toServer)
<1>1. /\ active /\ toServer # <<>> /\ toServer' = Tail(toServer)
      /\ UNCHANGED <<comm_mutex, busy, status, response_id, wait_for, active, rtsp_queue, curr,
                     rtp, apc, cmd, seeking, reply, rpc, fin, last_id, outcome>>
  BY DEF ServerReplies, Alive, sessions, application, thread
<1>2. PICK code \in Codes, desc \in IF r.res = "DESCRIBE" THEN Descriptions ELSE {<<>>} :
        /\ toClient' = Append(toClient, Reply(r, code, desc))
        /\ server' = IF code = OK THEN Served(r) ELSE server
  BY DEF ServerReplies
<1>3. /\ r = toServer[1] /\ toServer' = <<>>
      /\ r = [res |-> wait_for.res, cseq |-> AwaitedCSeq,
              at |-> IF wait_for.res = "DESCRIBE" THEN NULL ELSE curr]
      /\ Replies = {} /\ wait_for.res # None
  <2>1. toServer \in Seq(Request) /\ Len(toServer) <= 1 /\ toServer # <<>>
    BY <1>1 DEF Typed, Exchange
  <2>2. Len(toServer) = 1 /\ r = toServer[1] /\ toServer' \in Seq(Request) /\ Len(toServer') = 0
    <3>1. Len(toServer) \in Nat /\ Len(toServer) # 0
      BY <2>1, LenProperties, EmptySeq
    <3>2. /\ Tail(toServer) \in Seq(Request) /\ Len(Tail(toServer)) = Len(toServer) - 1
          /\ Head(toServer) = toServer[1]
      BY <2>1, HeadTailProperties
    <3> QED BY <1>1, <2>1, <3>1, <3>2
  <2>3. toServer' = <<>>
    BY <2>2, EmptySeq
  <2> QED BY <1>1, <2>2, <2>3 DEF Exchange, Nothing
<1> HIDE DEF r
<1>4. /\ r.res = wait_for.res /\ r.cseq = AwaitedCSeq
      /\ wait_for.res = "DESCRIBE" => r.at = NULL
      /\ wait_for.res # "DESCRIBE" => r.at = curr
  BY <1>3
<1>5. AwaitedCSeq \in Nat \ {0} /\ r.at \in Medium
  <2>1. AwaitedCSeq \in Nat \ {0}
    BY <1>3 DEF AwaitedCSeq, Exchange, Typed, TypeOK
  <2>2. r.at \in Medium
    BY <1>4 DEF Typed, NULL, Medium
  <2> QED BY <2>1, <2>2
<1> DEFINE m == Reply(r, code, desc)
<1>6. /\ m.cseq = AwaitedCSeq /\ m.code = code /\ m.desc = desc
      /\ m \in Messages /\ IsReply(m)
  <2>1. m = [cseq |-> AwaitedCSeq, sess |-> r.at.sess, code |-> code, desc |-> desc]
    BY <1>4 DEF Reply
  <2>2. code \in Nat /\ desc \in Seq(Nat \ {0}) /\ r.at.sess \in Nat
    <3>1. code \in Nat
      BY RtspAssumption DEF OK
    <3>2. desc \in Seq(Nat \ {0})
      <4>1. desc \in Descriptions \/ desc = <<>>
        OBVIOUS
      <4>2. <<>> \in Seq(Nat \ {0})
        OBVIOUS
      <4> QED BY <4>1, <4>2, RtspAssumption
    <3> QED BY <1>5, <3>1, <3>2 DEF Medium
  <2>3. m \in Messages
    BY <1>5, <2>1, <2>2 DEF Messages
  <2>4. m # Eof
    BY <1>5, <2>1 DEF Eof
  <2> QED BY <1>5, <2>1, <2>3, <2>4 DEF IsReply
<1> HIDE DEF m
<1>7. /\ toClient' \in Seq(Messages) /\ Len(toClient) \in Nat
      /\ Replies' = {Len(toClient) + 1} /\ toClient'[Len(toClient) + 1] = m
  <2>1. toClient \in Seq(Messages) /\ toClient' = Append(toClient, m)
    BY <1>2 DEF Typed, m
  <2>2. Replies' = Replies \cup {Len(toClient) + 1}
    BY <1>6, <2>1, AppendedReplies
  <2> QED BY <1>3, <1>6, <2>1, <2>2, AppendedReplies, LenProperties
<1>8. AllMedia' = AllMedia /\ AllSessions' = AllSessions /\ AwaitedCSeq' = AwaitedCSeq
      /\ Before(curr)' = Before(curr) /\ ~ Nothing
  BY <1>1 DEF AllMedia, AllSessions, AwaitedCSeq, Before, Nothing
<1>9. Served(r) \in [setup : SUBSET Medium, playing : SUBSET Nat]
  <2>1. server \in [setup : SUBSET Medium, playing : SUBSET Nat] /\ r.at.sess \in Nat
    BY <1>5 DEF Typed, Medium
  <2> QED BY <1>5, <2>1 DEF Served
<1>10. Typed'
  <2>1. TypeOK'
    BY <1>1, <1>8 DEF Typed, TypeOK
  <2>2. server' \in [setup : SUBSET Medium, playing : SUBSET Nat]
    BY <1>2, <1>9 DEF Typed
  <2> QED BY <1>1, <1>3, <1>7, <2>1, <2>2 DEF Typed
<1>11. Exchange'
  <2>1. wait_for.res = "DESCRIBE" => desc \in Descriptions
    BY <1>4
  <2>2. \A k \in Replies' : /\ toClient'[k].cseq = AwaitedCSeq /\ toClient'[k].code \in Codes
                            /\ wait_for.res = "DESCRIBE" => toClient'[k].desc \in Descriptions
    BY <1>6, <1>7, <2>1
  <2> QED BY <1>1, <1>3, <1>7, <1>8, <2>2 DEF Exchange
<1>12. Turns'
  BY <1>1, <1>8 DEF Turns, InCalls, Resting, Tearing
<1>13. Places'
  BY <1>1 DEF Places, InCalls, Resting, Waiting, Tearing, Allowed
<1>14. Truth'
  BY <1>1 DEF Truth, Waiting, InCalls, ReplyTruthful
<1>15. Sync'
  <2>1. SUFFICES ASSUME rpc \in {"loop", "lock", "unlock"}, fin = "run" PROVE Sync'
    BY <1>1 DEF Sync
  <2>2. Answered' => code = OK
    BY <1>6, <1>7 DEF Answered
  <2>3. /\ server.setup \in SUBSET Medium /\ server.playing \in SUBSET Nat
        /\ server = [setup |-> server.setup, playing |-> server.playing]
    BY DEF Typed
  <2>4. /\ wait_for.res = "DESCRIBE" => server' = server
        /\ code # OK => server' = server
        /\ wait_for.res = "SETUP" /\ code = OK =>
             server'.playing = server.playing /\ server'.setup = server.setup \cup {curr}
        /\ wait_for.res = "PLAY" /\ code = OK =>
             server'.setup = server.setup /\ server'.playing = server.playing \cup {curr.sess}
        /\ wait_for.res = "PAUSE" /\ code = OK =>
             server'.setup = server.setup /\ server'.playing = server.playing \ {curr.sess}
    BY <1>2, <1>4, <2>3 DEF Served
  <2>5. /\ status = "INIT" => wait_for.res \in {"DESCRIBE", "SETUP"}
        /\ status # "INIT" => wait_for.res \in {"PLAY", "PAUSE", "TEARDOWN"}
    BY <1>1, <1>3, <2>1 DEF Sync
  <2>6. curr.sess \in Nat
    BY DEF Typed, Medium
  <2>7. SetUp'
    <3>1. wait_for.res = "SETUP" => server.playing = {} /\ server.setup = Before(curr)
      BY <1>1, <2>1 DEF Sync, SetUp
    <3> QED BY <1>1, <1>3, <1>8, <2>2, <2>4, <3>1 DEF SetUp
  <2>8. Playing'
    <3>1. status = "READY" /\ wait_for.res = "PLAY" => server.playing = 1 .. curr.sess - 1
      BY <1>1, <2>1 DEF Sync, Playing
    <3>2. status = "READY" /\ wait_for.res = "PLAY" =>
            /\ curr.sess >= 1
            /\ (1 .. curr.sess - 1) \cup {curr.sess} = 1 .. curr.sess
      <4>1. wait_for.res = "PLAY" => curr.sess >= 1
        <5>1. wait_for.res = "PLAY" => curr \in AllMedia
          BY DEF Exchange, None
        <5> QED BY <5>1, InMedia
      <4> QED BY <2>6, <4>1
    <3> QED BY <1>1, <1>3, <2>2, <2>4, <3>1, <3>2 DEF Playing
  <2>9. Pausing'
    <3>1. status = "PLAYING" /\ wait_for.res = "PAUSE" =>
            server.playing = curr.sess .. Len(rtsp_queue)
      BY <1>1, <2>1 DEF Sync, Pausing
    <3>2. (curr.sess .. Len(rtsp_queue)) \ {curr.sess} = curr.sess + 1 .. Len(rtsp_queue)
      BY <2>6, InMedia
    <3> QED BY <1>1, <1>3, <2>2, <2>4, <3>1, <3>2 DEF Pausing
  <2>10. status # "INIT" /\ wait_for.res # "TEARDOWN" => server'.setup = AllMedia
    <3>1. status # "INIT" /\ wait_for.res # "TEARDOWN" => server.setup = AllMedia
      BY <1>1, <2>1 DEF Sync
    <3> QED BY <2>4, <2>5, <3>1
  <2>11. status = "INIT" /\ wait_for.res # "SETUP" => server' = Idle
    BY <1>1, <2>1, <2>4, <2>5 DEF Sync
  <2> QED BY <1>1, <1>8, <2>1, <2>5, <2>7, <2>8, <2>9, <2>10, <2>11, <1>3 DEF Sync
<1> QED BY <1>10, <1>11, <1>12, <1>13, <1>14, <1>15

(* What the server says of its own accord is no reply. *)
LEMMA ServerSpeaks ==
  ASSUME TalkInv, ServerStray \/ ServerDies
  PROVE  TalkInv'
<1> USE DEF TalkInv
<1> DEFINE stray == [cseq |-> 0, sess |-> 0, code |-> OK, desc |-> <<>>]
<1>1. /\ active
      /\ UNCHANGED <<comm_mutex, busy, status, response_id, wait_for, active, server, rtsp_queue,
                     curr, rtp, apc, cmd, seeking, reply, rpc, fin, last_id, outcome>>
      /\ toServer' = toServer \/ toServer' = <<>>
      /\ toClient' = Append(toClient, stray) \/ toClient' = Append(toClient, Eof)
  <2>1. CASE ServerStray
    <3>1. toClient' = Append(toClient, stray)
      BY <2>1 DEF ServerStray
    <3> QED BY <2>1, <3>1 DEF ServerStray, Alive, sessions, application, thread
  <2>2. CASE ServerDies
    BY <2>2 DEF ServerDies, Alive, sessions, application, thread
  <2> QED BY <2>1, <2>2
<1>2. /\ stray \in Messages /\ ~ IsReply(stray) /\ Eof \in Messages /\ ~ IsReply(Eof)
  BY DEF Messages, IsReply, Eof, OK
<1> HIDE DEF stray
<1>3. /\ toClient' \in Seq(Messages) /\ Replies' = Replies
      /\ \A k \in Replies : toClient'[k] = toClient[k]
  BY <1>1, <1>2, AppendedReplies DEF Typed
<1>4. AllMedia' = AllMedia /\ AllSessions' = AllSessions /\ AwaitedCSeq' = AwaitedCSeq
      /\ Before(curr)' = Before(curr) /\ (Nothing => Nothing') /\ Answered' = Answered
  BY <1>1, <1>3 DEF AllMedia, AllSessions, AwaitedCSeq, Before, Nothing, Answered
<1>5. Typed'
  <2>1. TypeOK'
    BY <1>1, <1>4 DEF Typed, TypeOK
  <2>2. toServer' \in Seq(Request)
    <3>1. toServer \in Seq(Request) /\ <<>> \in Seq(Request)
      BY DEF Typed
    <3> QED BY <1>1, <3>1
  <2> QED BY <1>1, <1>3, <2>1, <2>2 DEF Typed
<1>6. Exchange'
  BY <1>1, <1>3, <1>4 DEF Exchange
<1>7. Turns'
  BY <1>1, <1>4 DEF Turns, InCalls, Resting, Tearing
<1>8. Places'
  BY <1>1 DEF Places, InCalls, Resting, Waiting, Tearing, Allowed
<1>9. Truth'
  BY <1>1 DEF Truth, Waiting, InCalls, ReplyTruthful
<1>10. Sync'
  <2>1. (SetUp => SetUp') /\ (Playing => Playing') /\ (Pausing => Pausing')
    BY <1>1, <1>4 DEF SetUp, Playing, Pausing
  <2> QED BY <1>1, <1>4, <2>1 DEF Sync
<1> QED BY <1>5, <1>6, <1>7, <1>8, <1>9, <1>10

-----------------------------------------------------------------------------
(* The invariant of the talk holds before the first call, and is inductive. *)
LEMMA InitTalks == Init => TalkInv
<1> SUFFICES ASSUME Init PROVE TalkInv
  OBVIOUS
<1>1. /\ comm_mutex = None /\ busy = FALSE /\ status = "INIT" /\ response_id = 0
      /\ wait_for = NoWait /\ active = FALSE /\ rtsp_queue = <<>> /\ curr = NULL
      /\ apc = "idle" /\ cmd = None /\ seeking = FALSE /\ reply = NoId
      /\ rpc = "loop" /\ fin = "run" /\ last_id = NoId
      /\ toServer = <<>> /\ toClient = <<>> /\ server = Idle /\ outcome = None
  BY DEF Init
<1>2. wait_for.res = None /\ Replies = {} /\ Nothing /\ AllSessions = {} /\ reply # OK
  BY <1>1 DEF NoWait, Replies, Nothing, AllSessions, NoId, OK
<1>3. Typed
  <2>1. /\ rtsp_queue \in Seq([media : Nat \ {0}, CSeq : Nat]) /\ Len(rtsp_queue) = 0
        /\ toServer \in Seq(Request) /\ toClient \in Seq(Messages)
    BY <1>1
  <2>2. NULL \in Medium /\ Idle \in [setup : SUBSET Medium, playing : SUBSET Nat]
    BY DEF NULL, Medium, Idle
  <2>3. wait_for \in [res : Methods \cup {None}, cseq : Nat, sess : 0 .. Len(rtsp_queue)]
    BY <1>1, <2>1 DEF NoWait
  <2>4. TypeOK
    BY <1>1, <1>2, <2>3 DEF TypeOK
  <2> QED BY <1>1, <2>1, <2>2, <2>4 DEF Typed
<1>4. Exchange
  BY <1>1, <1>2 DEF Exchange
<1>5. Turns
  BY <1>1, <1>2 DEF Turns, InCalls, Resting, Tearing
<1>6. Places
  BY <1>1, <1>2 DEF Places, InCalls, Resting, Waiting, Tearing
<1>7. Truth
  BY <1>1, <1>2 DEF Truth, Waiting, InCalls, ReplyTruthful
<1>8. Sync
  BY <1>1 DEF Sync
<1> QED BY <1>3, <1>4, <1>5, <1>6, <1>7, <1>8 DEF TalkInv

(* Stuttering. *)
LEMMA StutterTalks ==
  ASSUME TalkInv, UNCHANGED vars
  PROVE  TalkInv'
<1> USE DEF TalkInv
<1>1. UNCHANGED <<comm_mutex, busy, status, response_id, wait_for, active, toServer, toClient,
                  server, rtsp_queue, curr, rtp, apc, cmd, seeking, reply, rpc, fin, last_id,
                  outcome>>
  BY DEF vars, connection, sessions, application, thread
<1>2. Exchange' /\ (Nothing' <=> Nothing)
  BY <1>1, ExchangeStays
<1>3. Typed'
  <2>1. AllMedia' = AllMedia /\ AllSessions' = AllSessions
    BY <1>1 DEF AllMedia, AllSessions
  <2>2. TypeOK'
    BY <1>1, <2>1 DEF Typed, TypeOK
  <2> QED BY <1>1, <2>2 DEF Typed
<1>4. Turns'
  BY <1>1, <1>2 DEF Turns, InCalls, Resting, Tearing
<1>5. Places'
  BY <1>1 DEF Places, InCalls, Resting, Waiting, Tearing, Allowed
<1>6. Truth'
  BY <1>1 DEF Truth, Waiting, InCalls, ReplyTruthful
<1>7. Sync'
  BY <1>1, SyncStays DEF Sync
<1> QED BY <1>2, <1>3, <1>4, <1>5, <1>6, <1>7

(* Every step keeps the invariant, if the application is patient. *)
LEMMA NextTalks ==
  ASSUME TalkInv, Patient, [Next]_vars
  PROVE  TalkInv'
<1>1. CASE AppStep \/ Seek \/ Uninit \/ \E c \in Commands : Call(c)
  BY <1>1, AppTalks
<1>2. CASE RtspStep
  BY <1>2, DropTalks, RedirectTalks, DescribedTalks, SetUpTalks, PlayedTalks, PausedTalks,
     ClosedTalks, ReinitTalks, CleanTalks, UnbusyLockTalks, UnbusyTalks, CleanIdTalks,
     RestoreTalks DEF RtspStep
<1>3. CASE ServerStep
  BY <1>3, ServerRepliesTalks, ServerSpeaks DEF ServerStep
<1>4. CASE UNCHANGED vars
  BY <1>4, StutterTalks
<1> QED BY <1>1, <1>2, <1>3, <1>4 DEF Next

(* What the invariant says of the requests under way and of the state they left. *)
LEMMA TalkImplies ==
  ASSUME TalkInv
  PROVE  RequestsOK /\ WaitTruthful
<1> USE DEF TalkInv
<1>1. TypeOK
  BY DEF Typed
<1>2. OneOutstanding
  <2>1. InFlight = Len(toServer) + Cardinality(Replies)
    BY DEF InFlight, Replies, IsReply
  <2>2. Len(toServer) \in Nat /\ (toServer = <<>> <=> Len(toServer) = 0)
    BY LenProperties, EmptySeq DEF Typed
  <2>3. CASE Replies = {}
    <3>1. Cardinality(Replies) = 0
      BY <2>3, FS_EmptySet
    <3> QED BY <2>1, <2>2, <3>1 DEF OneOutstanding, Exchange, Nothing
  <2>4. CASE Replies # {}
    <3>1. PICK k : Replies = {k}
      <4>1. PICK k \in Replies : TRUE
        BY <2>4
      <4>2. \A j \in Replies : j = k
        BY <4>1 DEF Exchange
      <4> QED BY <4>1, <4>2
    <3>2. Cardinality(Replies) = 1
      BY <3>1, FS_Singleton
    <3>3. toServer = <<>> /\ wait_for.res # None
      BY <2>4 DEF Exchange, Nothing
    <3> QED BY <2>1, <2>2, <3>2, <3>3 DEF OneOutstanding
  <2> QED BY <2>3, <2>4
<1>3. InStep
  <2>1. SUFFICES ASSUME rpc = "loop", ~ busy, active PROVE
          CASE status = "INIT" -> apc \in {"connect", "describe"}
            [] status = "READY" -> server = [setup |-> AllMedia, playing |-> {}]
            [] status = "PLAYING" -> server = [setup |-> AllMedia, playing |-> AllSessions]
    BY DEF InStep
  <2>2. fin = "run" /\ wait_for.res = None /\ status \in {"INIT", "READY", "PLAYING"}
    BY <1>1, <2>1 DEF Places, Turns, TypeOK
  <2>3. server = [setup |-> server.setup, playing |-> server.playing]
    BY DEF Typed
  <2>4. /\ status = "INIT" => apc = "describe"
        /\ status # "INIT" => server.setup = AllMedia
        /\ status = "READY" => server.playing = {}
        /\ status = "PLAYING" => server.playing = AllSessions
    BY <2>1, <2>2 DEF Sync, Playing, Pausing, None
  <2> QED BY <2>2, <2>3, <2>4
<1>4. WaitMeansDone
  <2>1. apc = "woken" => ~ busy /\ outcome # None /\ (rpc = "loop" => wait_for.res = None)
    BY DEF Turns, Resting
  <2> QED BY <2>1 DEF WaitMeansDone
<1>5. ReplyTruthful
  BY DEF Truth
<1> QED BY <1>1, <1>2, <1>3, <1>4, <1>5 DEF RequestsOK, WaitTruthful

(* rtsp_handlers.c and rtsp_state_machine.c, of an application that lets the RTSP thread
   get back to its loop before rtsp_uninit and another rtsp_open: at most one request or
   reply is under way, over all sessions and media of a command, whatever the server
   answers, says unasked or breaks off; and whenever no command is under way, client and
   server agree on what is set up and what plays. *)
THEOREM RequestsAgree == Patient => (Spec => []RequestsOK)
<1> SUFFICES ASSUME Patient PROVE Spec => []RequestsOK
  OBVIOUS
<1>1. TalkInv /\ [Next]_vars => TalkInv'
  BY NextTalks
<1>2. TalkInv => RequestsOK
  BY TalkImplies
<1> QED BY <1>1, <1>2, InitTalks, PTL DEF Spec

(* rtsp.c:231-236, of the same application: when rtsp_wait returns, its command is over,
   and a 200 means that the state is the one the command leads to, or that the connection
   is closed. *)
THEOREM WaitTellsTruth == Patient => (Spec => []WaitTruthful)
<1> SUFFICES ASSUME Patient PROVE Spec => []WaitTruthful
  OBVIOUS
<1>1. TalkInv /\ [Next]_vars => TalkInv'
  BY NextTalks
<1>2. TalkInv => WaitTruthful
  BY TalkImplies
<1> QED BY <1>1, <1>2, InitTalks, PTL DEF Spec
=============================================================================
