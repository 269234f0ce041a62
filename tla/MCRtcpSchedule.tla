--------------------------- MODULE MCRtcpSchedule ---------------------------
EXTENDS RtcpSchedule

(* The extremes of drand48(). *)
MCDraws == {0, 99}
=============================================================================
