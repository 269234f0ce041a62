---------------------------- MODULE SdpDescription ----------------------------
(***************************************************************************)
(* The parser of session descriptions (src/sdp), on a sequence of lines.   *)
(* A line is a record; k is its letter:                                    *)
(*   "o"  a field of the session only (v, o, s, u, e, p, t, r, z)          *)
(*   "c"  a field that media have, too (i, c, b, k)                        *)
(*   "a"  an attribute, name: "control", "rtpmap", "fmtp", "med", or "flag" *)
(*        for one that holds no ':'; pt and arg are those of its value     *)
(*   "m"  a medium; parts: how many it has of type, port, transport and    *)
(*        formats; type "A", "V" or "N"; fmts                              *)
(* Media and attributes are named by the number of their line.             *)
(***************************************************************************)
EXTENDS Naturals, Sequences, FiniteSetsExt, SequencesExt

(* An attribute without a value is dropped.  Of one with a value the ':'   *)
(* is overwritten, and whoever reads the line again finds a flag.          *)
sdp_set_attr(attrs, i, line) == IF line.name = "flag" THEN attrs ELSE Append(attrs, i)
Cut(line) == IF line.k = "a" THEN [line EXCEPT !.name = "flag"] ELSE line

sdp_get_attr(body, attrs, name) == SelectSeq(attrs, LAMBDA i : body[i].name = name)

sdp_parse_m_descr(line) == line.parts = 4

Medium(i) == [m |-> i, c |-> 0, attrs |-> <<>>]

MediumLine(queue, i, line) ==
  CASE line.k = "m" -> Append(queue, Medium(i))
    [] line.k = "c" -> [queue EXCEPT ![Len(queue)].c = i]
    [] line.k = "a" -> [queue EXCEPT ![Len(queue)].attrs = sdp_set_attr(@, i, line)]
    [] OTHER -> queue

(* Faulty variant of sdp_media_setup; no specification uses it. *)
MediaSetupToNext(body, first, last) ==
  LET next == {i \in first + 1 .. last : body[i].k = "m"}
      end == IF next = {} THEN last ELSE Min(next) - 1
  IN  FoldLeft(LAMBDA queue, i : MediumLine(queue, i, body[i]), <<>>,
               [n \in 1 .. end - first + 1 |-> first + n - 1])

(* The media of the lines from first, which is an m line, to last; none if *)
(* an m line is malformed.                                                 *)
sdp_media_setup(body, first, last) ==
  IF \E i \in first .. last : body[i].k = "m" /\ ~sdp_parse_m_descr(body[i]) THEN <<>>
  ELSE FoldLeft(LAMBDA queue, i : MediumLine(queue, i, body[i]), <<>>,
                [n \in 1 .. last - first + 1 |-> first + n - 1])

Lines(body, k) == {i \in DOMAIN body : body[i].k = k}
LastOf(S) == IF S = {} THEN 0 ELSE Max(S)

(* sdp_media_setup takes all lines from the first m line on; it leaves them *)
(* cut, and the loop over the session's lines goes on with the one that    *)
(* follows.  If that is an m line, too, the media are parsed again from it, *)
(* as far as the next line, and replace those of the first time.           *)
sdp_session_setup(body) ==
  LET n == Len(body)
      f == IF Lines(body, "m") = {} THEN n + 1 ELSE Min(Lines(body, "m"))
      again == f < n /\ body[f + 1].k = "m"
      media == IF f > n THEN <<>> ELSE sdp_media_setup(body, f, n)
      second == IF again THEN sdp_media_setup([i \in 1 .. n |-> Cut(body[i])], f + 1,
                                              IF f + 2 > n THEN n ELSE f + 2)
                ELSE media
      seen == 1 .. f - 1 \cup {f + 1}
  IN  [ok    |-> n > 0 /\ (f <= n => media # <<>> /\ second # <<>>),
       o     |-> LastOf(Lines(body, "o") \cap seen),
       c     |-> LastOf(Lines(body, "c") \cap seen),
       attrs |-> SelectSeq([i \in 1 .. f - 1 |-> i],
                           LAMBDA i : body[i].k = "a" /\ body[i].name # "flag"),
       media |-> second]
=============================================================================
