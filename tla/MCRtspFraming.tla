---------------------------- MODULE MCRtspFraming ----------------------------
EXTENDS RtspFraming

MCEntries == <<[rtp |-> 2, rtcp |-> 3], [rtp |-> 0, rtcp |-> 1]>>
(* Payloads with the bytes the framing looks for, and an unknown channel. *)
MCPackets == {[ch |-> 0, data |-> <<NL, NL>>], [ch |-> 3, data |-> <<Dollar>>],
              [ch |-> 9, data |-> <<Text>>]}
MCReplies == {[status |-> Good, body |-> 0, crlf |-> TRUE],
              [status |-> Good, body |-> 2, crlf |-> FALSE],
              [status |-> Bad, body |-> 0, crlf |-> TRUE]}
NothingBeyond == {<<>>}
NewlineBeyond == {<<>>, <<NL>>, <<Text>>}
=============================================================================
