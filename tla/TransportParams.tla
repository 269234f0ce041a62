--------------------------- MODULE TransportParams ---------------------------
(***************************************************************************)
(* The transport of an RTP session: its parameters, how                    *)
(* rtp_transport_set and rtp_transport_get (src/rtp/rtp_transport.c) treat *)
(* them, and the Transport header of SETUP, which                          *)
(* src/rtsp/rtsp_transport.c writes from them and reads into them.         *)
(***************************************************************************)
EXTENDS Integers, Sequences, FiniteSets, FiniteSetsExt

CONSTANTS AF_INET,   \* the address family of every valid address
          MaxStreams \* MAX_SCTP_STREAMS

(* The members of rtp_transport.  RTP.u and RTCP.u are unions of an address *)
(* (whose first member is its family), a channel and a stream.              *)
Members == {"SPEC", "SOCKTYPE", "DELIVERY", "LAYERS", "MODE", "APPEND", "TTL",
            "SRCHOST", "DSTHOST", "DSTFAMILY", "RTP.u", "RTCP.u", "MCSRTP",
            "MCSRTCP", "CLIRTP", "CLIRTCP", "SRVRTP", "SRVRTCP", "SSRC"}

Pairs == [MCSPORTS    |-> <<"MCSRTP", "MCSRTCP">>,
          CLIPORTS    |-> <<"CLIRTP", "CLIRTCP">>,
          SRVPORTS    |-> <<"SRVRTP", "SRVRTCP">>,
          INTERLEAVED |-> <<"ILVDRTP", "ILVDRTCP">>,
          STREAMS     |-> <<"STREAMRTP", "STREAMRTCP">>]

MemberOf(par) ==
  CASE par \in {"ILVDRTP", "STREAMRTP"}   -> "RTP.u"
    [] par \in {"ILVDRTCP", "STREAMRTCP"} -> "RTCP.u"
    [] OTHER -> par

(* An address string: 0 is one that inet_pton refuses, which leaves the    *)
(* host as it was but not the family.                                      *)
SetAddress(t, family, host, a) ==
  [t EXCEPT ![family] = IF a = 0 THEN 0 ELSE AF_INET,
            ![host] = IF a = 0 THEN @ ELSE a]

(* Faulty variant of rtp_transport_set; no specification uses it. *)
SetBothRtp(t, par, v) ==
  CASE par = "SRCADDR" -> SetAddress(t, "RTP.u", "SRCHOST", v)
    [] par = "DSTADDR" -> SetAddress(t, "DSTFAMILY", "DSTHOST", v)
    [] par = "SPEC"    -> t
    [] par \in DOMAIN Pairs -> [t EXCEPT ![MemberOf(Pairs[par][1])] = v[1],
                                         ![MemberOf(Pairs[par][1])] = v[2]]
    [] OTHER -> [t EXCEPT ![MemberOf(par)] = v]

(* rtp_transport_set; the specification cannot be set. *)
rtp_transport_set(t, par, v) ==
  CASE par = "SRCADDR" -> SetAddress(t, "RTP.u", "SRCHOST", v)
    [] par = "DSTADDR" -> SetAddress(t, "DSTFAMILY", "DSTHOST", v)
    [] par = "SPEC"    -> t
    [] par \in DOMAIN Pairs -> [t EXCEPT ![MemberOf(Pairs[par][1])] = v[1],
                                         ![MemberOf(Pairs[par][2])] = v[2]]
    [] OTHER -> [t EXCEPT ![MemberOf(par)] = v]

Value(t, par) ==
  IF par \in {"ILVDRTP", "ILVDRTCP"} THEN t[MemberOf(par)] % 256
  ELSE t[MemberOf(par)]

(* Parameters of which 0 is a value like another; for the rest it says     *)
(* "not set".                                                              *)
ZeroIsSet == {"SPEC", "SOCKTYPE", "DELIVERY", "MODE", "ILVDRTP", "ILVDRTCP"}

(* rtp_transport_get returns RTP_TRANSPORT_SET. *)
IsSet(t, par) ==
  CASE par = "SRCADDR" -> t["RTP.u"] = AF_INET
    [] par = "DSTADDR" -> t["DSTFAMILY"] = AF_INET
    [] par \in DOMAIN Pairs ->
         \A i \in 1 .. 2 : Pairs[par][i] \in ZeroIsSet \/ Value(t, Pairs[par][i]) # 0
    [] OTHER -> par \in ZeroIsSet \/ Value(t, par) # 0

Get(t, par) ==
  CASE par = "SRCADDR" -> t["SRCHOST"]
    [] par = "DSTADDR" -> t["DSTHOST"]
    [] par \in DOMAIN Pairs -> [i \in 1 .. 2 |-> Value(t, Pairs[par][i])]
    [] OTHER -> Value(t, par)

(* rtp_session_init: peer and local are the ends of the RTSP connection. *)
Fresh(peer, local, ssrc) ==
  rtp_transport_set(rtp_transport_set([f \in Members |->
             CASE f = "SPEC"     -> "RTP/AVP"
               [] f = "SOCKTYPE" -> "NONE"
               [] f = "DELIVERY" -> "unicast"
               [] f = "MODE"     -> "play"
               [] f = "SSRC"     -> ssrc
               [] OTHER -> 0],
          "SRCADDR", peer), "DSTADDR", local)

-----------------------------------------------------------------------------
(* The header of a request: protocol and parameters, in order. *)

(* [name, value] if the parameter is set. *)
IfSet(t, par, name) == IF IsSet(t, par) THEN <<[name |-> name, value |-> Get(t, par)]>>
                       ELSE <<>>

set_transport_str(t) ==
  [proto |-> t["SOCKTYPE"],
   params |->
     (CASE t["SOCKTYPE"] = "UDP" ->
             <<[name |-> "delivery", value |-> t["DELIVERY"]]>>
               \o IfSet(t, "LAYERS", "layers") \o IfSet(t, "TTL", "ttl")
               \o IfSet(t, "MCSPORTS", "port") \o IfSet(t, "CLIPORTS", "client_port")
        [] t["SOCKTYPE"] = "TCP"  -> IfSet(t, "INTERLEAVED", "interleaved")
        [] t["SOCKTYPE"] = "SCTP" -> IfSet(t, "STREAMS", "streams"))
     \o <<[name |-> "mode", value |-> t["MODE"]]>>
     \o IfSet(t, "APPEND", "append") \o IfSet(t, "SSRC", "ssrc")]

-----------------------------------------------------------------------------
(* The header of a reply. *)

(* Faulty variant of Understood; no specification uses it. *)
UnderstoodAnyPort(proto) ==
  IF proto = "UDP" THEN [server_port |-> <<"SRVRTP", "SRVRTCP">>,
                         port |-> <<"SRVRTP", "SRVRTCP">>,
                         client_port |-> <<"SRVRTP", "SRVRTCP">>,
                         source |-> <<"SRCADDR">>, destination |-> <<"DSTADDR">>,
                         ssrc |-> <<"SSRC">>, ttl |-> <<"TTL">>,
                         layers |-> <<"LAYERS">>]
  ELSE IF proto = "TCP" THEN [interleaved |-> <<"ILVDRTP", "ILVDRTCP">>,
                              ssrc |-> <<"SSRC">>]
  ELSE [server_streams |-> <<"STREAMRTP", "STREAMRTCP">>, ssrc |-> <<"SSRC">>]

(* The parameters each protocol's reply may set; others are skipped.  A    *)
(* multicast "port" is taken for the server's.                             *)
Understood(proto) ==
  IF proto = "UDP" THEN [server_port |-> <<"SRVRTP", "SRVRTCP">>,
                         port |-> <<"SRVRTP", "SRVRTCP">>,
                         source |-> <<"SRCADDR">>, destination |-> <<"DSTADDR">>,
                         ssrc |-> <<"SSRC">>, ttl |-> <<"TTL">>,
                         layers |-> <<"LAYERS">>]
  ELSE IF proto = "TCP" THEN [interleaved |-> <<"ILVDRTP", "ILVDRTCP">>,
                              ssrc |-> <<"SSRC">>]
  ELSE [server_streams |-> <<"STREAMRTP", "STREAMRTCP">>, ssrc |-> <<"SSRC">>]

(* A channel that is too high; an address that inet_pton refuses.          *)
TooHigh(par, v) == \/ par \in {"ILVDRTP", "ILVDRTCP"} /\ v > 255
                   \/ par \in {"STREAMRTP", "STREAMRTCP"} /\ v >= MaxStreams
NoAddress(par, v) == par \in {"SRCADDR", "DSTADDR"} /\ v = 0

(* A value read: it is stored, or ends the reading (ok).  So does an       *)
(* address that is none, after it has been stored.                         *)
Store(u, par, v) ==
  IF ~u.ok \/ TooHigh(par, v) THEN [u EXCEPT !.ok = FALSE]
  ELSE [t |-> rtp_transport_set(u.t, par, v), ok |-> ~NoAddress(par, v)]

(* A parameter of the reply; the values of a pair one by one.              *)
ReadParam(u, proto, p) ==
  IF p.name \notin DOMAIN Understood(proto) THEN u
  ELSE LET pars == Understood(proto)[p.name]
       IN  IF Len(pars) = 1 THEN Store(u, pars[1], p.value)
           ELSE Store(Store(u, pars[1], p.value[1]), pars[2], p.value[2])

(* The parameters one after the other: what each of them leaves.           *)
Reading(u, proto, params) ==
  LET after[k \in 0 .. Len(params)] ==
        IF k = 0 THEN [t |-> u, ok |-> TRUE]
        ELSE ReadParam(after[k - 1], proto, params[k])
  IN  after

(* get_transport_str; a header that names no protocol is passed over. *)
get_transport_str(t, header) ==
  IF header.proto \notin {"UDP", "TCP", "SCTP"} THEN t
  ELSE Reading([t EXCEPT !["SOCKTYPE"] = header.proto], header.proto,
               header.params)[Len(header.params)].t
=============================================================================
