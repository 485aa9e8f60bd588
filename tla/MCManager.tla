----------------------------- MODULE MCManager -----------------------------
(* Model values for the TLC runs of Manager. *)
EXTENDS Manager, TLC

CONSTANTS t1, t2, m1, m2

MCTasks == {t1, t2}
MCCommands == {m1, m2}
Symmetry == Permutations(MCCommands)
=============================================================================
