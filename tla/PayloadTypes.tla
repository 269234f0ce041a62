----------------------------- MODULE PayloadTypes -----------------------------
(***************************************************************************)
(* The payload types of an RTP session (src/rtp/rtp_payload_type.c), the   *)
(* parsers registered for them and what these keep after their init        *)
(* function (src/parsers).                                                 *)
(*                                                                         *)
(* The definitions below 96 are static variables that all sessions share,  *)
(* those above belong to the session.  The operators take and give back a  *)
(* record w of the session (sess), the shared definitions (static) and how *)
(* it went (err): "ok", "fail", or "crash" when memory that is not there   *)
(* was used.                                                               *)
(***************************************************************************)
EXTENDS Naturals, Sequences, FiniteSets, SequencesExt, Functions, TLC

CONSTANT Pts    \* the payload types of this instance

RTP_ATTRS_ARRAY_DEF_SIZE == 3

Served == {"MPA", "MPV", "H264", "H263-1998", "speex", "theora", "vorbis",
           "MP4V-ES", "MPEG4-GENERIC"}
StaticPts == Pts \cap ({0} \cup 3 .. 18 \cup {25, 26, 28} \cup 31 .. 34)

NULL == <<0>>    \* no private data; not a sequence of lines

(* An fmtp array of allocated entries, or a pointer to one that is freed. *)
rtp_pt_new(type) == [type |-> type, name |-> "", rate |-> 0, attrs |-> <<>>,
                     allocated |-> 0, freed |-> FALSE, priv |-> NULL]
rtpptdefs_new == [pt \in StaticPts |-> rtp_pt_new("static")]

NewSession == [defs |-> <<>>, fmts |-> <<>>, parsers |-> <<>>]

rtp_parser_check(mime) == mime \in Served

(* The parser of a payload type; 14 and 32 have one of their own. *)
Parser(sess, pt) ==
  CASE pt \in DOMAIN sess.parsers -> sess.parsers[pt]
    [] pt = 14 -> "MPA"
    [] pt = 32 -> "MPV"
    [] OTHER -> "def"

Def(w, pt) == IF pt < 96 THEN w.static[pt] ELSE w.sess.defs[pt]
IsDefined(w, pt) == pt \in DOMAIN w.static \cup DOMAIN w.sess.defs
SetDef(w, pt, def) == IF pt < 96 THEN [w EXCEPT !.static[pt] = def]
                      ELSE [w EXCEPT !.sess.defs[pt] = def]
Failed(w)  == [w EXCEPT !.err = "fail"]
Crashed(w) == [w EXCEPT !.err = "crash"]

(* A type announced again loses what it had. *)
rtp_dynpt_set(w, pt, def) == [w EXCEPT !.sess.defs = (pt :> def) @@ @]

rtp_announce_pt(w, pt, type) ==
  IF pt > 127 THEN Failed(w)
  ELSE LET v == IF pt >= 96 THEN rtp_dynpt_set(w, pt, rtp_pt_new(type)) ELSE w
       IN  [v EXCEPT !.sess.fmts = Append(@, pt)]

rtp_parser_reg(w, pt, mime) ==
  IF rtp_parser_check(mime) THEN [w EXCEPT !.sess.parsers = (pt :> mime) @@ @]
  ELSE Failed(w)

(* Faulty variants of rtp_dynpt_reg and rtp_pt_attr_add; no specification  *)
(* uses them.                                                              *)
DynptRegUnchecked(w, pt, mime) ==
  IF ~IsDefined(w, pt) THEN Crashed(w)
  ELSE rtp_parser_reg(SetDef(w, pt, [Def(w, pt) EXCEPT !.name = mime]), pt, mime)
DynptRegNameOnly(w, pt, mime) ==
  IF ~IsDefined(w, pt) THEN Failed(w)
  ELSE SetDef(w, pt, [Def(w, pt) EXCEPT !.name = mime])
AttrAddInFront(w, pt, i) ==
  IF ~IsDefined(w, pt) THEN Crashed(w)
  ELSE SetDef(w, pt, [Def(w, pt) EXCEPT !.attrs = <<i>> \o @])

(* The encoding name, which needs a definition, and the parser. *)
rtp_dynpt_reg(w, pt, mime) ==
  IF ~IsDefined(w, pt) THEN Failed(w)
  ELSE rtp_parser_reg(SetDef(w, pt, [Def(w, pt) EXCEPT !.name = mime]), pt, mime)

(* An fmtp line; there need be no definition.  The array stops growing at  *)
(* RTP_ATTRS_ARRAY_DEF_SIZE, the entries do not.                           *)
rtp_pt_attr_add(w, pt, i) ==
  IF ~IsDefined(w, pt) THEN Crashed(w)
  ELSE LET def == Def(w, pt)
           size == Len(def.attrs)
           room == IF def.allocated # size THEN def.allocated
                   ELSE IF size < RTP_ATTRS_ARRAY_DEF_SIZE THEN size + 1
                   ELSE RTP_ATTRS_ARRAY_DEF_SIZE
       IN  IF def.freed \/ size >= room THEN Crashed(w)
           ELSE SetDef(w, pt, [def EXCEPT !.attrs = Append(@, i), !.allocated = room])

-----------------------------------------------------------------------------
(* Init functions: the private data or a failure, from the values of the   *)
(* type's fmtp lines. A value is "conf", a configuration; "bad", a mode or *)
(* size that is not supported or, for xiph, a configuration that cannot be *)
(* read; "empty", a xiph configuration of no headers; or "none" of these.  *)

Confs(attrs, arg) == SelectSeq(attrs, LAMBDA i : arg[i] = "conf")
Refuses(attrs, arg) == \E n \in DOMAIN attrs : arg[attrs[n]] = "bad"

Private(err, conf) == [err |-> err, conf |-> conf]

(* Of several sets of parameters h264 keeps the last. *)
h264_init_parser(attrs, arg) ==
  LET c == Confs(attrs, arg)
  IN  IF Refuses(attrs, arg) THEN Private("fail", <<>>)
      ELSE Private("ok", IF c = <<>> THEN c ELSE <<Last(c)>>)

aac_init_parser(attrs, arg) ==
  IF Refuses(attrs, arg) THEN Private("fail", <<>>) ELSE Private("ok", Confs(attrs, arg))

m4v_init_parser(attrs, arg) == Private("ok", Confs(attrs, arg))

mpv_init_parser(attrs, arg) == Private("ok", <<>>)

(* The first configuration that can be read, or a failure. *)
xiph_init_parser(attrs, arg) ==
  LET c == SelectSeq(attrs, LAMBDA i : arg[i] \in {"conf", "empty"})
  IN  IF c = <<>> THEN Private("fail", <<>>)
      ELSE Private(IF arg[Head(c)] = "empty" THEN "crash" ELSE "ok", <<Head(c)>>)

Initialised == Served \ {"MPA", "speex"}

parsers_init(parser, attrs, arg) ==
  CASE parser = "H264" -> h264_init_parser(attrs, arg)
    [] parser = "MPEG4-GENERIC" -> aac_init_parser(attrs, arg)
    [] parser = "MP4V-ES" -> m4v_init_parser(attrs, arg)
    [] parser \in {"MPV", "H263-1998"} -> mpv_init_parser(attrs, arg)
    [] parser \in {"vorbis", "theora"} -> xiph_init_parser(attrs, arg)

(* Faulty variant of InitFormat; no specification uses it. *)
InitFormatOnce(w, pt, arg) ==
  IF w.err # "ok" \/ Parser(w.sess, pt) \notin Initialised \/ pt # w.sess.fmts[1] THEN w
  ELSE LET p == parsers_init(Parser(w.sess, pt), Def(w, pt).attrs, arg)
       IN  IF p.err # "ok" THEN [w EXCEPT !.err = p.err]
           ELSE SetDef(w, pt, [Def(w, pt) EXCEPT !.priv = p.conf])

(* The init function of one announced format, whose private data hangs on  *)
(* the definition.                                                         *)
InitFormat(w, pt, arg) ==
  IF w.err # "ok" \/ Parser(w.sess, pt) \notin Initialised THEN w
  ELSE LET p == parsers_init(Parser(w.sess, pt), Def(w, pt).attrs, arg)
       IN  IF p.err # "ok" THEN [w EXCEPT !.err = p.err]
           ELSE SetDef(w, pt, [Def(w, pt) EXCEPT !.priv = p.conf])

parsers_inits(w, arg) ==
  FoldLeft(LAMBDA v, pt : InitFormat(v, pt, arg), w, w.sess.fmts)

-----------------------------------------------------------------------------
(* rtp_clean frees the fmtp arrays of every definition of every session,   *)
(* the shared ones once for each, and leaves their sizes. *)

Allocated(static) == {pt \in DOMAIN static : static[pt].allocated > 0}
CleanCrashes(static, sessions) ==
  \E pt \in Allocated(static) : static[pt].freed \/ sessions > 1
Cleaned(static) == [pt \in DOMAIN static |->
                      [static[pt] EXCEPT !.freed = pt \in Allocated(static)]]
=============================================================================
