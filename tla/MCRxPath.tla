------------------------------ MODULE MCRxPath ------------------------------
(* The frames and chunk sizes of the TLC runs of RxPath. *)
EXTENDS RxPath

(* The first payload ends in the bytes of a preamble, the second sequence  *)
(* id starts like one, and the third one is a length when the 7 bytes      *)
(* before it are lost: only the CRC tells the packet that results.         *)
MCFrames ==
  <<[seq_id |-> 7, version |-> VER1, command |-> 16, payload |-> <<170, 85, 170>>],
    [seq_id |-> 170, version |-> VER1, command |-> 48, payload |-> <<>>],
    [seq_id |-> 1, version |-> VER1, command |-> 16, payload |-> <<1>>]>>

MCChunks == {7, 13}
MCPacedChunks == 1..14
=============================================================================
