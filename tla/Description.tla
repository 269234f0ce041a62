----------------------------- MODULE Description -----------------------------
(***************************************************************************)
(* From a description to RTP sessions that can be played: what the RTSP    *)
(* thread makes of the reply to DESCRIBE (set_rtsp_sessions, src/rtsp/     *)
(* rtsp_sessions.c, and set_rtsp_media, rtsp_internals.c), the start of    *)
(* the RTP thread, which initialises the parsers, and its end.             *)
(***************************************************************************)
EXTENDS SdpDescription, PayloadTypes

CONSTANTS Alphabet,   \* lines a description may have
          MaxLines,   \* bound: lines of a description
          MaxOpen     \* bound: times the description is opened

VARIABLES body,       \* the description
          status,     \* "writing", "creating", "described", "started", "closed",
                      \* "failed" or "crashed"
          info,       \* rtsp_queue->info
          type,       \* "M_ON_DEMAND" or "CONTAINER"
          todo,       \* sdp media without an RTSP medium so far
          media,      \* the RTSP media, in the order their RTP sessions are linked
          static,     \* the payload types all sessions share
          opened

vars == <<body, status, info, type, todo, media, static, opened>>

Init ==
  /\ body = <<>> /\ status = "writing"
  /\ info = [media |-> <<>>]
  /\ type = "M_ON_DEMAND" /\ todo = <<>> /\ media = <<>>
  /\ static = rtpptdefs_new
  /\ opened = 0

(* The server's description grows by a line. *)
Write ==
  /\ status = "writing" /\ Len(body) < MaxLines
  /\ \E line \in Alphabet : body' = Append(body, line)
  /\ UNCHANGED <<status, info, type, todo, media, static, opened>>

-----------------------------------------------------------------------------
(* Faulty variant of Kept; no specification uses it. *)
KeptAny(queue) ==
  SelectSeq(queue, LAMBDA m :
    LET maps == sdp_get_attr(body, m.attrs, "rtpmap")
    IN  maps = <<>> \/ \E i \in DOMAIN maps : rtp_parser_check(body[maps[i]].arg))

(* Media with an encoding that no parser serves are erased. *)
Kept(queue) ==
  SelectSeq(queue, LAMBDA m :
    \A i \in DOMAIN sdp_get_attr(body, m.attrs, "rtpmap") :
      rtp_parser_check(body[sdp_get_attr(body, m.attrs, "rtpmap")[i]].arg))

(* An rtpmap without '/' is written to all the same. *)
Unslashed(queue) ==
  \E m \in ToSet(queue) : \E i \in ToSet(m.attrs) :
    body[i].name = "rtpmap" /\ body[i].arg = "no slash"

Describe ==
  /\ status \in {"writing", "closed"} /\ opened < MaxOpen
  /\ opened' = opened + 1
  /\ LET s == sdp_session_setup(body)
         control == sdp_get_attr(body, s.attrs, "control")
     IN  /\ info' = s
         /\ type' = IF control = <<>> THEN "M_ON_DEMAND" ELSE "CONTAINER"
         /\ todo' = IF s.ok /\ ~Unslashed(s.media) THEN Kept(s.media) ELSE <<>>
         /\ status' = CASE s.ok /\ Unslashed(s.media) -> "crashed"
                        [] todo' = <<>> -> "failed"
                        [] OTHER -> "creating"
  /\ media' = <<>>
  /\ UNCHANGED <<body, static>>

-----------------------------------------------------------------------------
(* One attribute of a medium.  Other names that begin like "med" are taken *)
(* for it.                                                                 *)
Attribute(w, i, mtype) ==
  LET a == body[i]
  IN  CASE w.err # "ok" -> w
        [] a.name = "rtpmap" /\ a.pt \in 96 .. 127 -> rtp_dynpt_reg(w, a.pt, a.arg)
        [] a.name = "fmtp" /\ a.pt <= 127 -> rtp_pt_attr_add(w, a.pt, i)
        [] a.name = "med" -> IF a.arg = mtype THEN rtp_announce_pt(w, a.pt, mtype)
                             ELSE Failed(w)
        [] OTHER -> w

Announced(w, fmts, mtype) ==
  FoldLeft(LAMBDA v, pt : IF v.err # "ok" THEN v ELSE rtp_announce_pt(v, pt % 256, mtype),
           w, fmts)

(* A medium of its own session, or of the one session of a container. *)
SessionOf == IF type = "CONTAINER" THEN 1 ELSE Len(media) + 1

CreateMedium ==
  /\ status = "creating"
  /\ LET m == Head(todo)
         line == body[m.m]
         new == [sess |-> NewSession, static |-> static, err |-> "ok"]
         w == FoldLeft(LAMBDA v, i : Attribute(v, i, line.type),
                       Announced(new, line.fmts, line.type), m.attrs)
         control == sdp_get_attr(body, m.attrs, "control")
     IN  /\ static' = w.static
         /\ media' = Append(media, [m |-> m.m, session |-> SessionOf, rtp |-> w.sess,
              filename |-> IF control = <<>> THEN 0 ELSE Last(control)])
         /\ todo' = Tail(todo)
         /\ status' = CASE w.err = "fail"  -> "failed"
                        [] w.err = "crash" -> "crashed"
                        [] todo' = <<>>    -> "described"
                        [] OTHER           -> "creating"
  /\ UNCHANGED <<body, info, type, opened>>

-----------------------------------------------------------------------------
Args == [i \in DOMAIN body |-> IF body[i].k = "a" THEN body[i].arg ELSE "none"]

(* rtp_thread_create initialises the parsers of the sessions in turn. *)
Start ==
  /\ status = "described"
  /\ LET w == FoldLeft(LAMBDA v, m :
                IF v.err # "ok" THEN v
                ELSE LET u == parsers_inits([sess |-> m.rtp, static |-> v.static,
                                             err |-> "ok"], Args)
                     IN  [media |-> Append(v.media, [m EXCEPT !.rtp = u.sess]),
                          static |-> u.static, err |-> u.err],
                [media |-> <<>>, static |-> static, err |-> "ok"], media)
     IN  /\ static' = w.static
         /\ media' = IF w.err = "ok" THEN w.media ELSE media
         /\ status' = CASE w.err = "fail"  -> "failed"
                        [] w.err = "crash" -> "crashed"
                        [] OTHER           -> "started"
  /\ UNCHANGED <<body, info, type, todo, opened>>

(* rtp_clean, at the end of the RTP thread; the parsers' uninit functions  *)
(* run if the sessions have sources. *)
Close ==
  /\ status = "started"
  /\ status' = IF CleanCrashes(static, Len(media)) THEN "crashed" ELSE "closed"
  /\ \E heard \in BOOLEAN :
       static' = [pt \in DOMAIN static |->
         [Cleaned(static)[pt] EXCEPT !.priv = IF heard THEN NULL ELSE @]]
  /\ media' = <<>> /\ todo' = <<>>
  /\ UNCHANGED <<body, info, type, opened>>

Next == Write \/ Describe \/ CreateMedium \/ Start \/ Close

Spec == Init /\ [][Next]_vars

-----------------------------------------------------------------------------
(* A reading of the description that knows nothing of the parser.          *)

Section(i) == LastOf({m \in Lines(body, "m") : m <= i})
Attrs(m, name) == {i \in Lines(body, "a") : Section(i) = m /\ body[i].name = name}
AttrsOf(m, name, pt) == {i \in Attrs(m, name) : body[i].pt = pt}

(* The first medium has no lines but its m line, and another follows. *)
Bare == \E i \in Lines(body, "m") : Section(i - 1) = 0 /\ i + 1 \in Lines(body, "m")

Playable(m) == \A i \in Attrs(m, "rtpmap") : rtp_parser_check(body[i].arg)

Made == status \in {"described", "started"}

TypeOK ==
  /\ status \in {"writing", "creating", "described", "started", "closed", "failed",
                 "crashed"}
  /\ type \in {"M_ON_DEMAND", "CONTAINER"}
  /\ Len(media) + Len(todo) <= Cardinality(Lines(body, "m"))
  /\ \A n \in DOMAIN media :
       LET s == media[n].rtp
       IN  /\ ToSet(s.fmts) \subseteq Pts
           /\ DOMAIN s.defs \subseteq Pts \cap 96 .. 127
           /\ DOMAIN s.parsers \subseteq DOMAIN s.defs
           /\ \A pt \in DOMAIN s.defs :
                s.defs[pt].allocated \in Len(s.defs[pt].attrs) .. RTP_ATTRS_ARRAY_DEF_SIZE

(* The media are those of the description that can be played, in its order, *)
(* each with its own control address; they share an RTSP session exactly if *)
(* the description has an address for the whole (set_rtsp_media,           *)
(* rtsp_internals.c:321).                                                  *)
MediaKept ==
  Made /\ ~Bare =>
    LET ms == SetToSortSeq({m \in Lines(body, "m") : Playable(m)}, <)
    IN  /\ [n \in DOMAIN media |-> media[n].m] = ms
        /\ \A n \in DOMAIN media :
             /\ media[n].filename = LastOf(Attrs(ms[n], "control"))
             /\ media[n].session = IF Attrs(0, "control") = {} THEN n ELSE 1

(* A payload type is read by the parser of the encoding its medium maps it *)
(* to last, whatever the other media and the earlier ones of the process   *)
(* say of that number (rtp_dynpt_reg, rtp_payload_type.c:394).             *)
ParserMatches ==
  Made /\ ~Bare =>
    \A n \in DOMAIN media :
      LET s == media[n].rtp
      IN  \A pt \in ToSet(s.fmts) :
            LET maps == AttrsOf(media[n].m, "rtpmap", pt)
            IN  pt >= 96 =>
                  Parser(s, pt) = IF maps = {} THEN "def" ELSE body[Max(maps)].arg

(* The library holds the media of the description, with the parsers it names. *)
MediaOK == TypeOK /\ MediaKept /\ ParserMatches

(* When the RTP thread runs, each parser that keeps data between packets   *)
(* has it for every type the application may read, and its configuration   *)
(* is of lines of its own medium and type, in their order                  *)
(* (rtp_thread_create, rtp_thread.c:247).                                  *)
Configured ==
  status = "started" =>
    \A n \in DOMAIN media :
      LET s == media[n].rtp
      IN  \A pt \in ToSet(s.fmts) :
            Parser(s, pt) \in Initialised =>
              LET priv == IF pt < 96 THEN static[pt].priv ELSE s.defs[pt].priv
              IN  /\ priv # NULL
                  /\ ToSet(priv) \subseteq AttrsOf(media[n].m, "fmtp", pt)
                  /\ \A i, j \in DOMAIN priv : i < j => priv[i] < priv[j]

(* What a server may rightly be refused for. *)
AnnouncedBefore(i) ==
  \/ body[i].pt \in ToSet(body[Section(i)].fmts)
  \/ \E j \in AttrsOf(Section(i), "med", body[i].pt) : j < i

Refusable ==
  \/ \A m \in Lines(body, "m") : ~Playable(m)
  \/ \E m \in Lines(body, "m") :
       \/ body[m].parts < 4
       \/ \E n \in DOMAIN body[m].fmts : body[m].fmts[n] % 256 > 127
       \/ \E i \in Attrs(m, "rtpmap") : body[i].pt >= 96 /\ ~AnnouncedBefore(i)
       \/ \E i \in Attrs(m, "med") : body[i].arg # body[m].type \/ body[i].pt > 127
       \/ \E i \in Attrs(m, "fmtp") : body[i].arg = "bad"
       \/ \E i \in Attrs(m, "rtpmap") :
            /\ body[i].arg \in {"vorbis", "theora"}
            /\ \A j \in AttrsOf(m, "fmtp", body[i].pt) :
                 body[j].arg # "conf" \/ \E k \in AttrsOf(m, "med", body[i].pt) : k > j

(* A description is not refused for anything else. *)
Accepted == status = "failed" => Bare \/ Refusable

(* Memory is misused only for a description with one of these: an rtpmap   *)
(* without '/', an fmtp for a type that is not announced, more than three  *)
(* of them for one, any for a static type, an empty xiph configuration.    *)
Survives ==
  status = "crashed" =>
    \E m \in Lines(body, "m") :
      \/ \E i \in Attrs(m, "rtpmap") : body[i].arg = "no slash"
      \/ \E i \in Attrs(m, "fmtp") :
           \/ body[i].pt < 96 \/ ~AnnouncedBefore(i) \/ body[i].arg = "empty"
           \/ Cardinality(AttrsOf(m, "fmtp", body[i].pt)) > RTP_ATTRS_ARRAY_DEF_SIZE

(* What becomes of a description that is not played. *)
Judged == Accepted /\ Survives

-----------------------------------------------------------------------------
(* What the code does not ensure; see the README. *)

(* All media of the description are made, wherever its m lines are. *)
BareKept ==
  Made => {media[n].m : n \in DOMAIN media} = {m \in Lines(body, "m") : Playable(m)}

(* The fields of the session are those before its media. *)
SessionFieldsOwn ==
  Made => info.c = LastOf({i \in Lines(body, "c") : Section(i) = 0})

(* A description is no reason to misuse memory. *)
NeverCrashes == status # "crashed"

(* No two sessions share the data of a parser. *)
PrivateOwn ==
  status = "started" =>
    \A n, k \in DOMAIN media :
      n # k => \A pt \in ToSet(media[n].rtp.fmts) \cap ToSet(media[k].rtp.fmts) :
                 pt >= 96 \/ Parser(media[n].rtp, pt) \notin Initialised
=============================================================================
