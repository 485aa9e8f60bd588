------------------------------ MODULE MCEspNow ------------------------------
(* Model values for the TLC runs of EspNow. *)
EXTENDS EspNow

CONSTANTS a, b

MCOnePeer == {a}
MCTwoPeers == {a, b}
=============================================================================
