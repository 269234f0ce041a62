-------------------------- MODULE MCPlayoutBuffer --------------------------
(* Deliveries for TLC. *)
EXTENDS PlayoutBuffer, TLC

Seqs == INSTANCE SequencesExt

(* Any order, any duplication, of four packets that follow one another. *)
Shuffled == UNION {[1 .. n -> 3 .. 6] : n \in 1 .. 5}

(* In order, over the wrap of the 16-bit number (packet 65536 has seq 0), with
   any losses once the first two packets have ended the source's probation. *)
OverTheWrap == {<<65532, 65533>> \o Seqs!SetToSortSeq(S, <) : S \in SUBSET (65534 .. 65538)}

ShuffledOrOverTheWrap == Shuffled \cup OverTheWrap

(* 65536 overtaken by 65537 while 65535 is still in the buffer. *)
OvertakenAtTheWrap == {<<65534, 65535, 65537, 65536>>}
=============================================================================
