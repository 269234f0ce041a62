---------------------------- MODULE Depacketizer ----------------------------
(***************************************************************************)
(* Frames out of packets: rtp_fill_buffer and the payload parser of one    *)
(* source (PayloadParsers.tla), while the RTP thread appends what arrives  *)
(* to its playout buffer and, on a seek, empties it.                       *)
(*                                                                         *)
(* The sender sends the units of a stream one after the other: whole, cut  *)
(* into fragments, or, where the format allows, two in a packet. The       *)
(* network may lose any packet; the playout buffer restored the order.     *)
(***************************************************************************)
EXTENDS PayloadParsers, FiniteSets

CONSTANTS Formats,     \* the formats a run looks at
          Units,       \* units the sender sends
          MaxFragments,\* bound on the fragments of a unit
          MaxQueue,    \* slots of the buffer pool
          MaxFlushes,  \* seeks
          Aliens       \* formats that meet packets their parser rejects

ASSUME DepacketizerAssumption ==
  /\ {Units, MaxFragments, MaxQueue, MaxFlushes} \subseteq Nat
  /\ MaxQueue > 0 /\ MaxFragments > 0
  /\ Aliens \subseteq {"h264", "xiph", "mpa"}

VARIABLES fmt,       \* the format of the session's payload type
          unit, no, of,  \* what is sent next: fragment no of the of of unit
          queue,     \* the playout buffer, the packet of potail first
          private,   \* the private data of the parser
          pc,        \* the reader: "idle", "parse" or, in a parser that
                     \* takes more packets, "more"
          fr,        \* the frame being filled: its timestamp, its data, and
                     \* the unit of which it is complete (mpa)
          flushes,   \* seeks so far
          sent,      \* history: the pieces that arrived, in order
          whole,     \* history: FALSE once a packet was lost or flushed, or
                     \* one that has no media was sent
          out        \* history: the frames returned with data

stream == <<unit, no, of>>
vars == <<fmt, unit, no, of, queue, private, pc, fr, flushes, sent, whole, out>>

Aggregating == {"h264", "aac", "xiph"}
Fragmenting == {"m4v", "h263", "mpv", "aac", "h264", "xiph", "mpa", "def"}

(* Two NAL units of a picture have one timestamp. *)
Stamp(u) == IF fmt = "h264" THEN (u + 1) \div 2 ELSE u

Init ==
  /\ fmt \in Formats
  /\ unit = 1 /\ no = 1 /\ of = 0
  /\ queue = <<>>
  /\ \E conf \in {<<>>, <<ConfPiece>>} :
       /\ conf # <<>> => fmt \in {"m4v", "h264"}
       /\ private = NewPrivate(conf)
  /\ pc = "idle"
  /\ fr = [stamp |-> 0, data |-> <<>>]
  /\ flushes = 0
  /\ sent = <<>>
  /\ whole = TRUE
  /\ out = <<>>

-----------------------------------------------------------------------------
(* The sender, the network and the RTP thread.                             *)

Packet(frag, pieces, kind) ==
  [stamp |-> Stamp(unit), frag |-> frag, pieces |-> pieces, kind |-> kind]

Deliver(pkt) ==
  \/ /\ Len(queue) < MaxQueue
     /\ queue' = Append(queue, pkt)
     /\ sent' = IF pkt.kind = "data" THEN sent \o pkt.pieces ELSE sent
     /\ whole' = (whole /\ pkt.kind = "data")
  \/ /\ whole' = FALSE
     /\ UNCHANGED <<queue, sent>>

SendWhole ==
  /\ unit <= Units /\ of = 0
  /\ \E n \in {1, 2}, kind \in {"data", "setup", "alien"} :
       /\ n = 2 => /\ fmt \in Aggregating /\ unit < Units
                   /\ kind = "data"
                   /\ fmt = "h264" => Stamp(unit + 1) = Stamp(unit)
       /\ kind = "setup" => fmt = "xiph"
       /\ kind = "alien" => fmt \in Aliens
       /\ Deliver(Packet("whole", [i \in 1..n |-> Piece(unit + i - 1, 1)], kind))
       /\ unit' = unit + n
  /\ UNCHANGED <<fmt, no, of, private, pc, fr, flushes, out>>

SendFragment ==
  /\ unit <= Units /\ fmt \in Fragmenting
  /\ \E k \in IF of = 0 THEN 2..MaxFragments ELSE {of} :
       /\ Deliver(Packet(IF no = 1 THEN "start" ELSE IF no = k THEN "end" ELSE "mid",
                         <<Piece(unit, no)>>, "data"))
       /\ IF no = k THEN unit' = unit + 1 /\ no' = 1 /\ of' = 0
          ELSE unit' = unit /\ no' = no + 1 /\ of' = k
  /\ UNCHANGED <<fmt, private, pc, fr, flushes, out>>

(* rtp_rm_all_pkts, on the first packet after a seek. *)
Flush ==
  /\ flushes < MaxFlushes
  /\ flushes' = flushes + 1
  /\ queue # <<>>
  /\ queue' = <<>>
  /\ whole' = FALSE
  /\ UNCHANGED <<fmt, stream, private, pc, fr, sent, out>>

-----------------------------------------------------------------------------
(* The application's rtp_fill_buffer.                                      *)

FillBegins ==
  /\ pc = "idle"
  /\ queue # <<>>
  /\ pc' = "parse"
  /\ fr' = [stamp |-> Head(queue).stamp, data |-> <<>>]
  /\ UNCHANGED <<fmt, stream, queue, private, flushes, sent, whole, out>>

(* The call returns; a frame with data is one the application plays. *)
Returns(err, data) ==
  /\ pc' = "idle"
  /\ fr' = [stamp |-> 0, data |-> <<>>]
  /\ out' = IF err = "OK" /\ data # <<>>
            THEN Append(out, [stamp |-> fr.stamp, data |-> data]) ELSE out

Parse(pkt) ==
  CASE fmt = "m4v"   -> M4v(private, pkt)
    [] fmt = "h263"  -> H263(private, pkt)
    [] fmt = "mpv"   -> Mpv(private, pkt)
    [] fmt = "aac"   -> Aac(private, pkt)
    [] fmt = "speex" -> Speex(private, pkt)
    [] fmt = "h264"  -> H264(private, pkt)
    [] fmt = "xiph"  -> Xiph(private, pkt)
    [] fmt = "mpa"   -> MpaBegin(private, pkt, fr.stamp)
    [] fmt = "def"   -> DefBegin(private, pkt)

Applies(o) ==
  /\ private' = o.p
  /\ queue' = IF o.gone THEN Tail(queue) ELSE queue
  /\ CASE o.err = "EAGAIN" -> pc' = "parse" /\ UNCHANGED <<fr, out>>
       [] o.err = "MORE"   -> /\ pc' = "more"
                              /\ fr' = [fr EXCEPT !.data = o.frame]
                              /\ UNCHANGED out
       [] OTHER            -> Returns(o.err, o.frame)

ParseOne ==
  /\ pc = "parse"
  /\ queue # <<>>
  /\ Applies(Parse(Head(queue)))
  /\ UNCHANGED <<fmt, stream, flushes, sent, whole>>

(* mpa knows the length of the frame from its header; def takes all there   *)
(* is of the timestamp. *)
ParseMore ==
  /\ pc = "more"
  /\ queue # <<>>
  /\ Applies(IF fmt = "mpa"
             THEN MpaMore(private, fr.data, Head(queue), fr.stamp,
                          Head(queue).pieces[1].unit # fr.data[1].unit)
             ELSE DefMore(private, fr.data, Head(queue), fr.stamp))
  /\ UNCHANGED <<fmt, stream, flushes, sent, whole>>

(* RTP_BUFF_EMPTY, or the frame as far as there is one. *)
ParseEmpty ==
  /\ pc # "idle"
  /\ queue = <<>>
  /\ Returns(IF pc = "more" THEN "OK" ELSE "BUFF_EMPTY", fr.data)
  /\ UNCHANGED <<fmt, stream, queue, private, flushes, sent, whole>>

Reader == FillBegins \/ ParseOne \/ ParseMore \/ ParseEmpty

Next == SendWhole \/ SendFragment \/ Flush \/ Reader

(* The application calls rtp_fill_buffer in a loop.                        *)
Spec == Init /\ [][Next]_vars /\ WF_vars(Reader)
-----------------------------------------------------------------------------
(* Properties.                                                             *)

Pieces == [unit : 0..Units, no : 0..MaxFragments]

Packets == [stamp : 1..Units, frag : {"whole", "start", "mid", "end"},
            pieces : Seq(Pieces), kind : {"data", "setup", "alien"}]

(* The types; no more packets are queued than the pool has slots, an        *)
(* aggregate under way is one the queue still holds unless it was flushed, *)
(* and only the formats that keep data between calls do so.                *)
TypeOK ==
  /\ fmt \in Formats /\ unit \in 1..(Units + 1)
  /\ no \in 1..MaxFragments /\ of \in 0..MaxFragments /\ (of # 0 => no <= of)
  /\ queue \in Seq(Packets) /\ Len(queue) <= MaxQueue
  /\ private.part \in Seq(Pieces) /\ private.units \in Seq(Pieces)
  /\ private.configured \in BOOLEAN /\ private.stamp \in 0..Units
  /\ private.pkts \in 0..2 /\ private.offset \in Nat
  /\ pc \in {"idle", "parse", "more"}
  /\ fr.stamp \in 0..Units /\ fr.data \in Seq(Pieces)
  /\ fmt \in {"speex", "mpa", "def"} => private.part = <<>>
  /\ fmt # "aac" => private.units = <<>>

Media(data) == SelectSeq(data, LAMBDA p : p # ConfPiece)

(* What the application got with the first n frames. *)
Upto(n) == FlattenSeq([i \in 1..n |-> Media(out[i].data)])

Played == Upto(Len(out))

(* What was played is what was sent, in the same order, each frame ending   *)
(* with the end of a unit, and all of it once the buffer is empty. *)
Exact ==
  /\ IsPrefix(Played, sent)
  /\ \A n \in DOMAIN out :
       IF Upto(n) = sent THEN of = 0 ELSE sent[Len(Upto(n)) + 1].no = 1
  /\ queue = <<>> /\ pc = "idle" /\ of = 0 => Played = sent

(* While nothing is lost, that holds however the calls and the arrivals      *)
(* interleave: an EAGAIN that finds the buffer empty resumes later. The      *)
(* parsers that assemble a frame in one call (mpa, def), and h264 with a     *)
(* configuration, do not do this (FullFrame). *)
ExactWhenWhole ==
  whole /\ fmt \notin {"mpa", "def"} /\ (fmt = "h264" => private.conf = <<>>) => Exact

(* A frame of a format that compares timestamps has data of one timestamp,  *)
(* whatever fragments were lost: nothing of the frame before. It is the     *)
(* timestamp the caller is told, unless a seek emptied the buffer meanwhile. *)
(* (The units aac took from a packet outlive a seek.)                        *)
OneStamp ==
  \/ fmt \in {"m4v", "h263", "mpv", "speex", "mpa", "def"}
  \/ fmt = "aac" /\ flushes = 0
  =>
    \A i \in DOMAIN out :
      LET data == Media(out[i].data)
      IN  /\ \A j \in DOMAIN data : Stamp(data[j].unit) = Stamp(data[1].unit)
          /\ flushes = 0 /\ fmt # "aac" /\ data # <<>>
               => out[i].stamp = Stamp(data[1].unit)

(* A frame of h263, mpv and mpa starts with the start of a picture: the     *)
(* rest of one whose start was lost is never returned. *)
HeadFirst ==
  fmt \in {"h263", "mpv", "mpa"} => \A i \in DOMAIN out : out[i].data[1].no = 1

(* No piece is played twice, or after one that was sent later, whatever is  *)
(* lost and flushed: what was returned or given up leaves the buffer. *)
NotTwice ==
  fmt \notin {"xiph", "mpa"} =>
    \A i, j \in DOMAIN Played : i < j =>
      \/ Played[i].unit < Played[j].unit
      \/ Played[i].unit = Played[j].unit /\ Played[i].no < Played[j].no

(* The configuration is sent to the decoder at most once, and in front of   *)
(* the first frame that has anything. *)
ConfOnce ==
  \A i \in DOMAIN out : \A j \in DOMAIN out[i].data :
    out[i].data[j] = ConfPiece => i = 1 /\ j = 1

(* Whatever is lost, what is returned are frames that a decoder can take. *)
FramesOK == TypeOK /\ OneStamp /\ HeadFirst /\ NotTwice /\ ConfOnce

(* Once the sender has stopped, the reader empties the buffer: there is no  *)
(* packet a parser refuses and leaves. *)
Drains == (unit > Units) ~> (queue = <<>>)

-----------------------------------------------------------------------------
(* What the code does not do (README, "Further disagreements").            *)

(* src/parsers/rtp_h264.c:178: "In order to produce a compliant bitstream,  *)
(* a PPS NALU should prefix the data stream." *)
PrefixedStream ==
  private.conf # <<>> /\ out # <<>> => out[1].data[1] = ConfPiece

(* src/rtp/rtp_buffer.c:47: the frame gets "depacketized data (full frame or *)
(* sample group)". *)
FullFrame == whole => Exact
=============================================================================
