--------------------------- MODULE MCRtspControl ---------------------------
(* Descriptions for TLC: a container of two media, two sessions of one medium
   each, and one that cannot be used. *)
EXTENDS RtspControl

Streams == {<<2>>, <<1, 1>>, <<>>}
=============================================================================
