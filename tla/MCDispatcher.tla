---------------------------- MODULE MCDispatcher ----------------------------
(* Model values for the TLC runs of Dispatcher. *)
EXTENDS Dispatcher

CONSTANTS p1, p2, r1, r2, m1

MCProducers == {p1, p2}
MCRegistrars == {r1, r2}
MCCommands == {m1}
=============================================================================
