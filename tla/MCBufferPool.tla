---------------------------- MODULE MCBufferPool ----------------------------
(* Small pools for TLC: the constants take their values in the .cfg files. *)
EXTENDS BufferPool, TLC
=============================================================================
