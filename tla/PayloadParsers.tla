--------------------------- MODULE PayloadParsers ---------------------------
(***************************************************************************)
(* The payload parsers of src/parsers: what one call of the parse function *)
(* of each format does with the first packet of the playout buffer.        *)
(*                                                                         *)
(* A packet is a record                                                    *)
(*   stamp   its RTP timestamp                                             *)
(*   frag    "whole", or which fragment of a unit it carries: "start",     *)
(*           "mid" or "end"; the bits h263 P, mpv B, h264 S/E, xiph F and  *)
(*           the RTP marker, the offset of mpa                             *)
(*   pieces  the pieces it carries: one, or several whole units together   *)
(*   kind    "data"; "setup", a xiph packet of type 1; "alien", a packet   *)
(*           the parser rejects: an h264 STAP-B or MTAP, another codebook  *)
(*           of xiph, an mpa header without sync or with reserved fields   *)
(* A piece is a fragment of a unit: the no-th of the unit, and its bytes   *)
(* are left out.                                                           *)
(***************************************************************************)
EXTENDS Naturals, Sequences, SequencesExt

Piece(u, i) == [unit |-> u, no |-> i]

ConfPiece == Piece(0, 0)     \* the codec configuration of the description
Garbage   == Piece(0, 1)     \* bytes read beyond the units of a packet

Unset == 9                   \* an offset that is still 0: in the xiph header

(* The private data of a parser after its init function. Of what a format   *)
(* does not have, nothing below changes it. *)
NewPrivate(conf) ==
  [conf |-> conf,            \* conf, empty when conf_len is 0
   configured |-> FALSE,     \* configured
   part |-> <<>>,            \* data, up to len
   stamp |-> 0,              \* timestamp
   units |-> <<>>,           \* aac: the list at head
   pkts |-> 0,               \* xiph: pkts
   offset |-> Unset]         \* xiph: the units that offset has passed

(* What a call returns: the private data, the frame (the caller uses it when *)
(* the result is "OK"), whether rtp_rm_pkt removed the packet, the result. *)
Outcome(p, frame, gone, err) == [p |-> p, frame |-> frame, gone |-> gone, err |-> err]

Frame(p, frame) == Outcome(p, frame, TRUE, "OK")
Again(p)        == Outcome(p, <<>>, TRUE, "EAGAIN")
Dropped(p)      == Outcome(p, <<>>, TRUE, "PKT_UNKNOWN")
Retried(p)      == Outcome(p, <<>>, FALSE, "PKT_UNKNOWN")
Stuck(p)        == Outcome(p, <<>>, FALSE, "PARSE_ERROR")

Ends(pkt)   == pkt.frag \in {"whole", "end"}
Starts(pkt) == pkt.frag \in {"whole", "start"}

(* The end of m4v, h263 and mpv: the packet joins what is there of a frame. *)
Joined(p, pkt) ==
  LET all == p.part \o pkt.pieces
  IN  IF Ends(pkt) THEN Frame([p EXCEPT !.part = <<>>], all)
      ELSE Again([p EXCEPT !.part = all, !.stamp = pkt.stamp])

(* The final fragment of the frame was lost. *)
Cut(p, pkt) == p.part # <<>> /\ pkt.stamp # p.stamp

(* The configuration goes in front of the first frame. *)
Prefixed(p) ==
  IF ~p.configured /\ p.part = <<>> /\ p.conf # <<>>
  THEN [p EXCEPT !.part = p.conf, !.configured = TRUE]
  ELSE p

-----------------------------------------------------------------------------
(* Faulty variants of the parsers below; no specification uses them.       *)
M4vNeverCut(p, pkt) == Joined(Prefixed(p), pkt)
M4vForgetsConfigured(p, pkt) ==
  IF Cut(p, pkt) THEN Retried([p EXCEPT !.part = <<>>])
  ELSE Joined([Prefixed(p) EXCEPT !.configured = FALSE], pkt)
SpeexKeeps(p, pkt) == Frame([p EXCEPT !.part = pkt.pieces], pkt.pieces)
MpvAnyFragment(p, pkt) ==
  IF Cut(p, pkt) THEN Retried([p EXCEPT !.part = <<>>]) ELSE Joined(p, pkt)
AacKeepsPart(p, pkt) ==
  LET units == IF p.units = <<>> THEN pkt.pieces ELSE p.units
      all   == p.part \o <<Head(units)>>
  IN  IF Cut(p, pkt) THEN Outcome(p, p.part, FALSE, "OK")
      ELSE Outcome([p EXCEPT !.units = Tail(units), !.stamp = pkt.stamp,
                             !.part = IF Ends(pkt) THEN <<>> ELSE all],
                   IF Ends(pkt) THEN all ELSE <<>>, Tail(units) = <<>>,
                   IF Ends(pkt) THEN "OK" ELSE "EAGAIN")
-----------------------------------------------------------------------------

M4v(p, pkt) ==
  IF Cut(p, pkt) THEN Retried([p EXCEPT !.part = <<>>])
  ELSE Joined(Prefixed(p), pkt)

H263(p, pkt) ==
  IF Cut(p, pkt) THEN Retried([p EXCEPT !.part = <<>>])
  ELSE IF p.part = <<>> /\ ~Starts(pkt) THEN Dropped(p)
  ELSE Joined(p, pkt)

Mpv(p, pkt) ==
  IF Cut(p, pkt) THEN Retried([p EXCEPT !.part = <<>>])
  ELSE IF p.part = <<>> /\ ~Starts(pkt) THEN Dropped(p)
  ELSE Joined(p, pkt)

(* What is there of a frame whose end was lost is returned as a frame. The  *)
(* units of a packet are returned one a call, and the packet leaves with    *)
(* the last. *)
Aac(p, pkt) ==
  LET units == IF p.units = <<>> THEN pkt.pieces ELSE p.units
      all   == p.part \o <<Head(units)>>
      taken == [p EXCEPT !.units = Tail(units)]
      last  == Tail(units) = <<>>
  IN  IF Cut(p, pkt) THEN Outcome([p EXCEPT !.part = <<>>], p.part, FALSE, "OK")
      ELSE IF Ends(pkt) THEN Outcome([taken EXCEPT !.part = <<>>], all, last, "OK")
      ELSE Outcome([taken EXCEPT !.part = all, !.stamp = pkt.stamp], <<>>, last,
                   "EAGAIN")

Speex(p, pkt) == Frame(p, pkt.pieces)

-----------------------------------------------------------------------------
(* h264: single NAL units, STAP-A and FU-A packets.                        *)

(* Faulty variants of FuA and H264; no specification uses them. *)
FuAStuck(p, pkt) ==
  IF (pkt.frag # "start" \/ p.part # <<>>) /\ p.stamp # pkt.stamp
  THEN Retried([p EXCEPT !.part = <<>>])
  ELSE LET all == p.part \o pkt.pieces
       IN  IF pkt.frag = "end" THEN Frame([p EXCEPT !.part = <<>>, !.stamp = pkt.stamp], all)
           ELSE Again([p EXCEPT !.part = all, !.stamp = pkt.stamp])
FuAKeepsPart(p, pkt) ==
  IF (pkt.frag # "start" \/ p.part # <<>>) /\ p.stamp # pkt.stamp
  THEN Dropped([p EXCEPT !.part = <<>>])
  ELSE LET all == p.part \o pkt.pieces
       IN  IF pkt.frag = "end" THEN Frame([p EXCEPT !.part = all, !.stamp = pkt.stamp], all)
           ELSE Again([p EXCEPT !.part = all, !.stamp = pkt.stamp])

(* A start with nothing before it begins a unit; any other fragment must    *)
(* have the timestamp of the last, a start after an unfinished unit too. *)
FuA(p, pkt) ==
  IF (pkt.frag # "start" \/ p.part # <<>>) /\ p.stamp # pkt.stamp
  THEN Dropped([p EXCEPT !.part = <<>>])
  ELSE LET all == p.part \o pkt.pieces
       IN  IF pkt.frag = "end" THEN Frame([p EXCEPT !.part = <<>>, !.stamp = pkt.stamp], all)
           ELSE Again([p EXCEPT !.part = all, !.stamp = pkt.stamp])

(* The configuration goes in front whatever packet comes first. *)
H264(p, pkt) ==
  LET q == IF ~p.configured /\ p.conf # <<>>
           THEN [p EXCEPT !.part = p.part \o p.conf, !.configured = TRUE] ELSE p
  IN  IF pkt.kind = "alien" THEN Dropped(q)
      ELSE IF pkt.frag = "whole" THEN Frame([q EXCEPT !.part = <<>>], q.part \o pkt.pieces)
      ELSE FuA(q, pkt)

-----------------------------------------------------------------------------
(* vorbis and theora, which are the same text.                             *)

PktsOf(pkt) == IF pkt.frag = "whole" THEN Len(pkt.pieces) ELSE 0

(* The unit at offset. What is read becomes the construction buffer, too. *)
SingleParse(p, pkt) ==
  LET unit == <<IF p.offset < Len(pkt.pieces) THEN pkt.pieces[p.offset + 1] ELSE Garbage>>
      read == [p EXCEPT !.part = unit, !.pkts = p.pkts - 1]
  IN  IF pkt.kind = "alien" THEN Stuck(p)
      ELSE Outcome(read, unit, p.pkts = 1, IF pkt.kind = "setup" THEN "ERROR" ELSE "OK")

(* Only a start empties the construction buffer, not the end. *)
FragParse(p, pkt) ==
  LET all == (IF pkt.frag = "start" THEN <<>> ELSE p.part) \o pkt.pieces
  IN  IF pkt.frag # "end" THEN Again([p EXCEPT !.part = all])
      ELSE Outcome([p EXCEPT !.part = all], all, TRUE,
                   IF pkt.kind = "setup" THEN "ERROR" ELSE "OK")

(* The result of single_parse is not looked at: an alien unit gives a frame *)
(* without data, and leaves the packet. (offset also moves 2 bytes then.)  *)
PackParse(p, pkt) ==
  LET o == SingleParse(p, pkt)
  IN  [o EXCEPT !.err = "OK",
                !.p.offset = IF pkt.kind = "alien" THEN p.offset ELSE p.offset + 1]

(* pkts is set before the checks that return, and stays. *)
Xiph(p, pkt) ==
  LET q == IF p.pkts = 0 THEN [p EXCEPT !.pkts = PktsOf(pkt)] ELSE p
      r == [q EXCEPT !.offset = 0]
  IN  IF p.pkts > 0 THEN PackParse(p, pkt)
      ELSE IF q.pkts > 0 /\ pkt.kind = "setup" THEN Stuck(q)
      ELSE IF pkt.frag # "whole" THEN FragParse(q, pkt)
      ELSE IF q.pkts = 1 THEN SingleParse(r, pkt)
      ELSE PackParse(r, pkt)

-----------------------------------------------------------------------------
(* mpa and the default parser take further packets in the same call, as     *)
(* long as there are any: "MORE" says that the call goes on, with what it   *)
(* has of the frame.                                                       *)

More(p, frame) == Outcome(p, frame, TRUE, "MORE")

(* Fragments without their start are removed in one call, whatever their   *)
(* kind; a header that cannot be decoded leaves the packet. *)
MpaBegin(p, pkt, stamp) ==
  IF ~Starts(pkt) THEN Outcome(p, <<>>, TRUE, "EAGAIN")
  ELSE IF pkt.kind = "alien" THEN Stuck(p)
  ELSE IF pkt.stamp # stamp THEN Outcome(p, <<>>, FALSE, "OK")
  ELSE More(p, pkt.pieces)

(* Every fragment is copied from where the data of the first packet is. *)
MpaMore(p, frame, pkt, stamp, full) ==
  IF full \/ pkt.stamp # stamp THEN Outcome(p, frame, FALSE, "OK")
  ELSE More(p, Append(frame, frame[1]))

DefBegin(p, pkt) == More(p, pkt.pieces)

DefMore(p, frame, pkt, stamp) ==
  IF pkt.stamp # stamp THEN Outcome(p, frame, FALSE, "OK")
  ELSE More(p, frame \o pkt.pieces)
=============================================================================
