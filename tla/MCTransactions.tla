--------------------------- MODULE MCTransactions ---------------------------
(* Model values for the TLC runs of Transactions. *)
EXTENDS Transactions, TLC

CONSTANTS c1, c2

MCCallers == {c1, c2}
Symmetry == Permutations(MCCallers)
=============================================================================
