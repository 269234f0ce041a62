-------------------------- MODULE MCActiveSources --------------------------
(* Senders whose sequence numbers are about to wrap. *)
EXTENDS ActiveSources, TLC

Symmetry == Permutations(Sources)
=============================================================================
