----------------------------- MODULE MCPyClient -----------------------------
(* A small Python client: one application thread beside the callbacks of   *)
(* two RX threads, two sequence numbers.                                   *)
EXTENDS PyClient, TLC

CONSTANTS c1, WRITE, PING

MCCallers == {c1}
MCCommands == {WRITE, PING}

Symmetry == Permutations(MCCommands)
=============================================================================
