---------------------------- MODULE MCDescription ----------------------------
EXTENDS Description

M(mtype, fmts) == [k |-> "m", parts |-> 4, type |-> mtype, fmts |-> fmts]
A(name, pt, arg) == [k |-> "a", name |-> name, pt |-> pt, arg |-> arg]

(* Two media that share a payload type, whose encodings keep data; what    *)
(* servers write of them, and the lines of which the code says something.  *)
MCAlphabet ==
  {[k |-> "c"], M("V", <<96, 32>>), M("A", <<96>>),
   [k |-> "m", parts |-> 3, type |-> "A", fmts |-> <<>>],
   A("control", 0, "none"),
   A("rtpmap", 96, "MP4V-ES"), A("rtpmap", 96, "vorbis"), A("rtpmap", 96, "unknown"),
   A("rtpmap", 96, "no slash"), A("rtpmap", 97, "H264"),
   A("fmtp", 96, "conf"), A("fmtp", 96, "bad"), A("fmtp", 96, "empty"),
   A("fmtp", 32, "none"), A("med", 97, "A")}

MCPts == {32, 96, 97}
=============================================================================
