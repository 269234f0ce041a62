---------------------------- MODULE MCRtpPlayout ----------------------------
(* Deliveries for TLC; a packet may be lost once the source is validated. *)
EXTENDS RtpPlayout, TLC

Seqs == INSTANCE SequencesExt

(* Four packets at least: enough to fill the prebuffer and to open it. *)
WithLosses == {<<1, 2>> \o Seqs!SetToSortSeq(S, <) :
                 S \in {T \in SUBSET (3 .. 5) : Cardinality(T) >= 2}}

(* A bad header before, between and after the packets. *)
WithBadHeaders == {<<Bad, 1, 2, 3, 4>>, <<1, 2, Bad, 3, Bad>>}

InOrderStreams == WithLosses \cup WithBadHeaders

Steady == {<<1, 2, 3, 4, 5, 6>>}
Reordered == {<<1, 2, 4, 5, 3>>}
Short == {<<1, 2>>}
=============================================================================
