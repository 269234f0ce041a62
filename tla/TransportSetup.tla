---------------------------- MODULE TransportSetup ----------------------------
(***************************************************************************)
(* SETUP of one presentation: the transport of each medium in turn, from   *)
(* send_setup_request (src/rtsp/rtsp_send.c) to handle_setup_response, and *)
(* what closing the connection takes back (rtsp_state_machine.c, and       *)
(* rtp_clean in src/rtp/rtp_thread.c).                                     *)
(***************************************************************************)
EXTENDS TransportParams

CONSTANTS Media,       \* 1 .. number of media
          Hints,       \* first_rtp_port: 0 for none, NoHints for a NULL pointer
          NoHints,
          Protocols,   \* default_rtp_proto: "UDP", "TCP", "SCTP"
          RandomPorts, \* what rand() may give
          Busy,        \* ports that other programs have bound
          Ephemeral,   \* ports the system may choose
          Junk,        \* what an unset sockaddr may hold for a port
          MayAnswer(_, _), \* the headers a server may answer an offer with
          MaxOpen      \* bound: connections opened

Uint16 == {n \in Nat : n < 65536}

(* A random port is at least 5001 (rtsp_send.c:273).                        *)
ASSUME SetupAssumption ==
  /\ IsFiniteSet(Media) /\ Media # {} /\ Media = 1 .. Cardinality(Media)
  /\ Hints \ {NoHints} \subseteq Uint16
  /\ Protocols \subseteq {"UDP", "TCP", "SCTP"}
  /\ \A r \in RandomPorts : r \in Uint16 /\ r > 5000 /\ r < 65535
  /\ Busy \cup Ephemeral \subseteq Uint16 \ {0} /\ Junk \subseteq Uint16
  /\ AF_INET \in Nat \ {0} /\ MaxStreams \in Nat

VARIABLES hint, proto, \* the arguments of rtsp_init
          force,       \* force_rtp_port
          nextCh,      \* next_ilvd_ch
          interleaved, \* the list that incoming packets are dispatched by
          transport,   \* the transport of each medium's RTP session
          bound,       \* sockets with a port: [conn, med, kind, port]
          status,      \* "closed", "offered", "answered", "ready" or "undefined"
          cur,         \* the medium of the current SETUP
          rtp_th,      \* the RTP thread's struct: "idle", "running" or "freed"
          offer, answer, \* history: the headers of each medium
          opened       \* connections opened so far

setupVars == <<hint, proto, force, nextCh, interleaved, transport, bound, status,
               cur, rtp_th, offer, answer, opened>>

Peer == 11
Local == 12
None == [proto |-> "none", params |-> <<>>]

(* Faulty variant of Even; no specification uses it. *)
EvenAsGiven(port) == port % 65536

Even(port) == (port + (port % 2)) % 65536

(* The port of SETUP's first medium, forced or random. *)
Chosen == IF force = 0 THEN {Even(r) : r \in RandomPorts} ELSE {Even(force)}

(* sock_bind, whose failure is not looked at, and getsockname after it: the *)
(* port bound, or 0 for none, with the port that is then read.              *)
Bind(port, taken) ==
  IF port = 0 THEN {[bound |-> p, read |-> p] : p \in Ephemeral \ taken}
  ELSE IF port \in taken THEN {[bound |-> 0, read |-> p] : p \in Junk}
  ELSE {[bound |-> port, read |-> port]}

Socket(kind, port) == [conn |-> opened, med |-> cur, kind |-> kind, port |-> port]
Taken == Busy \cup {s.port : s \in bound}

-----------------------------------------------------------------------------
SetupInit ==
  /\ hint \in Hints /\ proto \in Protocols
  /\ force = (IF hint = NoHints THEN 0 ELSE hint)
  /\ nextCh = 0 /\ interleaved = <<>>
  /\ transport = [m \in Media |-> Fresh(Peer, Local, m)]
  /\ bound = {} /\ status = "closed" /\ cur = 1 /\ rtp_th = "idle"
  /\ offer = [m \in Media |-> None] /\ answer = [m \in Media |-> None]
  /\ opened = 0

(* The description creates the media, hanging new sessions on rtp_th. *)
Open ==
  /\ status = "closed" /\ opened < MaxOpen
  /\ opened' = opened + 1
  /\ status' = IF rtp_th = "freed" THEN "undefined" ELSE "answered"
  /\ cur' = 1
  /\ transport' = [m \in Media |-> Fresh(Peer, Local, m)]
  /\ UNCHANGED <<hint, proto, force, nextCh, interleaved, bound, rtp_th, offer, answer>>

(* The ports of the next medium. *)
NextForce == IF Even(force) = 0 THEN 0 ELSE (Even(force) + 2) % 65536

SetupUdp ==
  \E port \in Chosen :
    /\ \E rtp \in Bind(port, Taken) :
       \E rtcp \in Bind(port + 1, Taken \cup {rtp.bound}) :
         LET u == rtp_transport_set([transport[cur] EXCEPT !["SOCKTYPE"] = "UDP"],
                                    "CLIPORTS", <<rtp.read, rtcp.read>>)
         IN  /\ transport' = [transport EXCEPT ![cur] = u]
             /\ offer' = [offer EXCEPT ![cur] = set_transport_str(u)]
             /\ bound' = bound \cup
                  {s \in {Socket("rtp", rtp.bound), Socket("rtcp", rtcp.bound)} :
                     s.port # 0}
    /\ force' = NextForce
    /\ UNCHANGED <<nextCh, interleaved>>

(* Faulty variant of Channels; no specification uses it. *)
ChannelsOne(first) == <<first % 256, first % 256>>

(* The pair after nextCh: 8 bits for TCP, 16 for SCTP, which skips 0. *)
Channels(first) == <<first % 256, (first + 1) % 256>>
Streams(first) == <<(first + 1) % 65536, (first + 2) % 65536>>

(* The socket pairs are made here; the entry keeps the channels asked for. *)
SetupStream(type, par, pair) ==
  LET u == rtp_transport_set([transport[cur] EXCEPT !["SOCKTYPE"] = type], par, pair)
  IN  /\ transport' = [transport EXCEPT ![cur] = u]
      /\ offer' = [offer EXCEPT ![cur] = set_transport_str(u)]
      /\ interleaved' = <<[med |-> cur, rtp |-> Get(u, par)[1],
                           rtcp |-> Get(u, par)[2]]>> \o interleaved
      /\ nextCh' = (nextCh + 2) % 65536
      /\ UNCHANGED <<force, bound>>

(* send_setup_request: the current medium. *)
send_setup_request ==
  /\ status = "answered"
  /\ CASE proto = "UDP"  -> SetupUdp
       [] proto = "TCP"  -> SetupStream("TCP", "INTERLEAVED", Channels(nextCh))
       [] proto = "SCTP" -> SetupStream("SCTP", "STREAMS", Streams(nextCh))
  /\ status' = "offered"
  /\ UNCHANGED <<hint, proto, cur, rtp_th, answer, opened>>

(* handle_setup_response, the result of get_transport_str not looked at;   *)
(* after the last medium the RTP and RTCP threads start.                   *)
handle_setup_response(header) ==
  /\ status = "offered"
  /\ answer' = [answer EXCEPT ![cur] = header]
  /\ transport' = [transport EXCEPT ![cur] = get_transport_str(@, header)]
  /\ IF cur + 1 \in Media
     THEN cur' = cur + 1 /\ status' = "answered" /\ UNCHANGED rtp_th
     ELSE status' = "ready" /\ rtp_th' = "running" /\ UNCHANGED cur
  /\ UNCHANGED <<hint, proto, force, nextCh, interleaved, bound, offer, opened>>

(* Faulty variants of Cleaned; no specification uses them. *)
CleanedKeepsChannel ==
  /\ interleaved' = <<>> /\ UNCHANGED <<nextCh, force>>
  /\ status' = "closed"
CleanedKeepsEntries ==
  /\ nextCh' = 0 /\ UNCHANGED <<interleaved, force>>
  /\ status' = "closed"

(* clean_rtsp_th.  With no hints the pointer is followed all the same. *)
Cleaned ==
  IF hint = NoHints
  THEN status' = "undefined" /\ UNCHANGED <<force, interleaved, nextCh>>
  ELSE /\ force' = Even(hint)
       /\ interleaved' = <<>> /\ nextCh' = 0
       /\ status' = "closed"

(* rtsp_reinit, on a TEARDOWN, an error or the server's death.  Only the   *)
(* RTP thread closes the sockets of the sessions, and frees its struct.    *)
rtsp_reinit ==
  /\ status \in {"offered", "ready"}
  /\ Cleaned
  /\ IF rtp_th = "running" THEN rtp_th' = "freed" /\ bound' = {}
     ELSE UNCHANGED <<rtp_th, bound>>
  /\ cur' = 1
  /\ transport' = [m \in Media |-> Fresh(Peer, Local, m)]
  /\ offer' = [m \in Media |-> None] /\ answer' = [m \in Media |-> None]
  /\ UNCHANGED <<hint, proto, opened>>

SetupNext ==
  \/ Open \/ send_setup_request \/ rtsp_reinit
  \/ \E header \in MayAnswer(offer[cur], cur) : handle_setup_response(header)

SetupSpec == SetupInit /\ [][SetupNext]_setupVars
-----------------------------------------------------------------------------
SetupTypeOK ==
  /\ force \in Uint16 /\ nextCh \in Uint16 /\ cur \in Media
  /\ \A m \in Media : DOMAIN transport[m] = Members
  /\ status \in {"closed", "offered", "answered", "ready", "undefined"}
  /\ rtp_th \in {"idle", "running", "freed"}
  /\ Len(interleaved) <= Cardinality(Media)

(* Setting a parameter makes it the one that is read back and touches no   *)
(* other, but for those it shares a union with (rtp_transport_set,         *)
(* rtp_transport.c:82).                                                    *)
Samples(par) == IF par \in DOMAIN Pairs THEN <<7, 8>> ELSE 9
Numbers == {"SRCADDR", "DSTADDR", "LAYERS", "APPEND", "TTL", "SSRC"}
             \cup DOMAIN Pairs \cup UNION {{Pairs[p][1], Pairs[p][2]} : p \in DOMAIN Pairs}
Touched(par) ==
  IF par \in DOMAIN Pairs THEN {MemberOf(Pairs[par][1]), MemberOf(Pairs[par][2])}
  ELSE IF par = "SRCADDR" THEN {"RTP.u", "SRCHOST"}
  ELSE IF par = "DSTADDR" THEN {"DSTFAMILY", "DSTHOST"} ELSE {MemberOf(par)}
SetThenGet ==
  \A par \in Numbers :
    LET u == rtp_transport_set(transport[cur], par, Samples(par))
    IN  /\ IsSet(u, par) /\ Get(u, par) = Samples(par)
        /\ \A other \in Numbers :
             Touched(par) \cap Touched(other) = {}
               => Get(u, other) = Get(transport[cur], other)

(* RTP listens on an even port and RTCP on the next, whatever was hinted   *)
(* (send_setup_request, rtsp_send.c:272).                                  *)
EvenPair ==
  \A a, b \in bound :
    a.conn = b.conn /\ a.med = b.med /\ a.kind = "rtp" /\ b.kind = "rtcp"
      => a.port % 2 = 0 /\ b.port = a.port + 1

(* Where the dispatch of interleaved packets (rtsp_handlers.c:229,         *)
(* rtsp_internals.c:298) takes those of a channel.                         *)
Reached(ch) ==
  LET at == {i \in DOMAIN interleaved :
               ch \in {interleaved[i].rtp, interleaved[i].rtcp}}
  IN  IF at = {} THEN <<0, "none">>
      ELSE LET e == interleaved[Min(at)]
           IN  <<e.med, IF e.rtcp = ch THEN "rtcp" ELSE "rtp">>

(* While a server keeps to the channels that were asked for, or names ones *)
(* that do not exist, a packet sent on those the session holds reaches the *)
(* sockets of that session.                                                *)
Dispatched ==
  \A m \in Media :
    answer[m] # None =>
      /\ transport[m]["SOCKTYPE"] = "TCP" =>
           /\ Reached(Get(transport[m], "ILVDRTP")) = <<m, "rtp">>
           /\ Reached(Get(transport[m], "ILVDRTCP")) = <<m, "rtcp">>
      /\ transport[m]["SOCKTYPE"] = "SCTP" =>
           /\ Reached(Get(transport[m], "STREAMRTP")) = <<m, "rtp">>
           /\ Reached(Get(transport[m], "STREAMRTCP")) = <<m, "rtcp">>

(* A session holds what the server last said of it: of the parameters up   *)
(* to the first that is refused, each one's last value; nothing is taken   *)
(* from one the protocol does not give (get_transport_str,                 *)
(* rtsp_transport.c:314).                                                  *)
Named(params, name) ==
  {i \in DOMAIN params :
     /\ params[i].name = name
     /\ \A j \in 1 .. i : params[j].name \in {"source", "destination"}
                           => params[j].value # 0}
AnswerKept ==
  \A m \in Media :
    LET Kept(name, par, unset) ==
          LET at == Named(answer[m].params, name)
          IN  Get(transport[m], par) = IF at = {} THEN unset
                               ELSE answer[m].params[Max(at)].value
    IN  answer[m].proto = "UDP" =>
          /\ Kept("server_port", "SRVPORTS", <<0, 0>>)
          /\ Kept("source", "SRCADDR", Peer)
          /\ Kept("ssrc", "SSRC", m)
          /\ Kept("ttl", "TTL", 0)

(* The channels of a medium depend on its place alone: a connection starts *)
(* from 0 again after any other (clean_rtsp_th, rtsp_state_machine.c:66).  *)
ChannelsByPlace ==
  \A i \in DOMAIN interleaved :
    LET e == interleaved[i]
        first == 2 * (e.med - 1) + (IF proto = "SCTP" THEN 1 ELSE 0)
    IN  e.rtp = first /\ e.rtcp = first + 1

(* The library's side of SETUP: parameters, ports and channels. *)
OffersOK == SetupTypeOK /\ SetThenGet /\ EvenPair /\ ChannelsByPlace

(* The server's side: the answer is what the session then works with. *)
AnswersOK == Dispatched /\ AnswerKept

-----------------------------------------------------------------------------
(* What the code does not ensure; see the README. *)

(* The ports offered to the server are ports the session has bound. *)
OfferBound ==
  \A m \in Media :
    offer[m].proto = "UDP" =>
      \E a, b \in bound :
        /\ {a.conn, b.conn} = {opened}
        /\ a.med = m /\ a.kind = "rtp" /\ a.port = transport[m]["CLIRTP"]
        /\ b.med = m /\ b.kind = "rtcp" /\ b.port = transport[m]["CLIRTCP"]

(* The protocol of a session is the one its sockets were made for. *)
ProtocolAsAsked ==
  \A m \in Media : answer[m] # None => transport[m]["SOCKTYPE"] = proto

(* The address of the server is still one after SETUP. *)
SourceKept == \A m \in Media : IsSet(transport[m], "SRCADDR")

(* Closing gives every port back, ... *)
NoPortLeft == status = "closed" => bound = {}

(* ... follows no pointer that is NULL, and leaves what the next           *)
(* connection uses.                                                        *)
Reusable == status # "undefined"
=============================================================================
