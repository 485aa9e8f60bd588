---------------------------- MODULE MCLifecycle ----------------------------
(* Model values for the TLC runs of Lifecycle. *)
EXTENDS Lifecycle, TLC

CONSTANTS u1, u2, s1, s2

MCUarts == {u1, u2}
MCSenders == {s1, s2}
Symmetry == Permutations(MCUarts) \cup Permutations(MCSenders)
=============================================================================
