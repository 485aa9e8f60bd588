------------------------------ MODULE Framing ------------------------------
(***************************************************************************)
(* The wire format and the incremental parser, as operators: what          *)
(* SerialCommProtocol::encode() and SerialCommParser::parse_next_packet()  *)
(* compute.                                                                *)
(*                                                                         *)
(* A byte is a number of 0..255.  A CRC is the set of its 1 bits, which    *)
(* makes exclusive or a symmetric difference; compute_crc16() folds in a   *)
(* byte with one table lookup, here the eight shifts the table stands for. *)
(***************************************************************************)
EXTENDS Integers, Sequences

CONSTANT MaxPayload  \* SERIAL_COMM_MAX_PAYLOAD

UINT8_MAX == 255
UINT16_MAX == 65535
Bytes == 0..UINT8_MAX
Words == 0..UINT16_MAX

ASSUME MaxPayloadAssumption == MaxPayload \in Words

HEADER_0 == 170
HEADER_1 == 85
HEADER_2 == 170
VER1 == 1

Low(n) == n % 256
High(n) == (n \div 256) % 256

-----------------------------------------------------------------------------
Bits(n) == {b \in 0..15 : (n \div 2^b) % 2 = 1}
Xor(a, b) == (a \ b) \cup (b \ a)
ShiftLeft(a, n) == {b + n : b \in {d \in a : d + n <= 15}}
Polynomial == Bits(4129)  \* 0x1021

CrcBit(crc) ==
  IF 15 \in crc THEN Xor(ShiftLeft(crc, 1), Polynomial) ELSE ShiftLeft(crc, 1)

CrcByte(crc, byte) ==
  LET shifted[n \in 0..8] ==
        IF n = 0 THEN Xor(crc, ShiftLeft(Bits(byte), 8)) ELSE CrcBit(shifted[n - 1])
  IN  shifted[8]

(* compute_crc16(), seeded with 0xFFFF. *)
Crc(bytes) ==
  LET crc[n \in 0..Len(bytes)] ==
        IF n = 0 THEN 0..15 ELSE CrcByte(crc[n - 1], bytes[n])
  IN  crc[Len(bytes)]

(* The byte of crc that starts at bit first. *)
Byte(crc, first) == CHOOSE byte \in Bytes : \A b \in 0..7 : b \in Bits(byte) <=> first + b \in crc

(* The bytes the CRC covers: everything but the preamble and itself. *)
Covered(p) ==
  <<Low(p.seq_id), High(p.seq_id), p.version, p.command,
    Low(Len(p.payload)), High(Len(p.payload))>> \o p.payload

(* packet_size(): 3 bytes of preamble, 6 of header, 2 of CRC. *)
PacketSize(p) == 11 + Len(p.payload)

(* encode(): the frame of packet p. *)
Encode(p) ==
  LET crc == Crc(Covered(p))
  IN  <<HEADER_0, HEADER_1, HEADER_2>> \o Covered(p) \o <<Byte(crc, 0), Byte(crc, 8)>>

(* decode() when raw is a whole frame or more: its header, which the CRC   *)
(* must confirm; any version is taken.                                     *)
DecodeWhole(raw, len) ==
  LET packet == [seq_id  |-> raw[4] + 256 * raw[5], version |-> raw[6], command |-> raw[7],
                 payload |-> SubSeq(raw, 10, 9 + len)]
      crc == Bits(raw[10 + len]) \cup ShiftLeft(Bits(raw[11 + len]), 8)
  IN  IF Crc(Covered(packet)) = crc
      THEN [code |-> "OK", packets |-> <<packet>>]
      ELSE [code |-> "ERR_CRC", packets |-> <<>>]

(* decode(): the packet that raw starts with, or what is wrong with it.    *)
(* raw may be as long as a V2 packet, which has 3 bytes more.              *)
Decode(raw) ==
  LET Fails(code) == [code |-> code, packets |-> <<>>]
      len == raw[8] + 256 * raw[9]
  IN  IF Len(raw) > 14 + MaxPayload THEN Fails("ERR_OVERFLOW")
      ELSE IF Len(raw) < 11 THEN Fails("ERR_INVALID_ARG")
      ELSE IF SubSeq(raw, 1, 3) # <<HEADER_0, HEADER_1, HEADER_2>> THEN Fails("ERR_PARSER")
      ELSE IF len > MaxPayload THEN Fails("ERR_OVERFLOW")
      ELSE IF Len(raw) < 11 + len THEN Fails("ERR_INVALID_ARG")
      ELSE DecodeWhole(raw, len)

-----------------------------------------------------------------------------
(* The parser: its state, the packet being assembled, crc_l_.  The payload *)
(* read so far stands for payload_index_ too.                              *)
ParserInit ==
  [state |-> "WAIT_HEADER_0", seq_id |-> 0, version |-> VER1, command |-> 0,
   payload_len |-> 0, payload |-> <<>>, crc_l |-> 0]

(* reset(); seq_id, version and command keep what was read last. *)
ParserReset(p) ==
  [p EXCEPT !.state = "WAIT_HEADER_0", !.payload_len = 0, !.payload = <<>>, !.crc_l = 0]

Assembled(p) ==
  [seq_id |-> p.seq_id, version |-> p.version, command |-> p.command,
   payload |-> p.payload]

(* Mutant: the CRC is not compared. *)
ValidPacket_AnyCrc(p, crc_h) ==
  /\ p.version = VER1
  /\ p.payload_len <= MaxPayload

(* validate_packet() on what was assembled, with the CRC bytes received. *)
ValidPacket(p, crc_h) ==
  /\ p.version = VER1
  /\ p.payload_len <= MaxPayload
  /\ Crc(Covered(Assembled(p))) = Bits(p.crc_l) \cup ShiftLeft(Bits(crc_h), 8)

(* Mutant: the length is not checked. *)
LengthRead_Unchecked(p, len) ==
  [p EXCEPT !.payload_len = len, !.payload = <<>>,
            !.state = IF len = 0 THEN "READ_CRC_L" ELSE "READ_PAYLOAD"]

(* The payload length is complete: it must fit the buffer. *)
LengthRead(p, len) ==
  IF len > MaxPayload THEN ParserReset(p)
  ELSE [p EXCEPT !.payload_len = len, !.payload = <<>>,
                 !.state = IF len = 0 THEN "READ_CRC_L" ELSE "READ_PAYLOAD"]

(* What parse_byte() leaves of parser p after any byte but the last of a   *)
(* frame.                                                                  *)
Advance(p, byte) ==
  CASE p.state = "WAIT_HEADER_0" ->
         IF byte = HEADER_0 THEN [p EXCEPT !.state = "WAIT_HEADER_1"] ELSE p
    [] p.state = "WAIT_HEADER_1" ->
         IF byte = HEADER_1 THEN [p EXCEPT !.state = "WAIT_HEADER_2"] ELSE ParserReset(p)
    [] p.state = "WAIT_HEADER_2" ->
         IF byte = HEADER_2 THEN [p EXCEPT !.state = "GET_SEQ_ID_L"] ELSE ParserReset(p)
    [] p.state = "GET_SEQ_ID_L" ->
         [p EXCEPT !.seq_id = byte, !.state = "GET_SEQ_ID_H"]
    [] p.state = "GET_SEQ_ID_H" ->
         [p EXCEPT !.seq_id = @ + 256 * byte, !.state = "READ_VERSION"]
    [] p.state = "READ_VERSION" ->
         IF byte = VER1 THEN [p EXCEPT !.version = byte, !.state = "READ_COMMAND"]
         ELSE ParserReset([p EXCEPT !.version = byte])
    [] p.state = "READ_COMMAND" ->
         [p EXCEPT !.command = byte, !.state = "READ_LENGTH_L"]
    [] p.state = "READ_LENGTH_L" ->
         [p EXCEPT !.payload_len = byte, !.state = "READ_LENGTH_H"]
    [] p.state = "READ_LENGTH_H" ->
         LengthRead(p, p.payload_len + 256 * byte)
    [] p.state = "READ_PAYLOAD" ->
         [p EXCEPT !.payload = Append(@, byte),
                   !.state = IF Len(p.payload) + 1 >= p.payload_len THEN "READ_CRC_L" ELSE @]
    [] p.state = "READ_CRC_L" ->
         [p EXCEPT !.crc_l = byte, !.state = "READ_CRC_H"]

(* parse_byte(): the parser, and the packets it completed (none or one). *)
ParseByte(p, byte) ==
  IF p.state # "READ_CRC_H" THEN [parser |-> Advance(p, byte), packets |-> <<>>]
  ELSE [parser  |-> ParserReset(p),
        packets |-> IF ValidPacket(p, byte) THEN <<Assembled(p)>> ELSE <<>>]

(* parse_next_packet(): bytes are taken from data up to the end of the     *)
(* first valid packet; consumed is their number.                           *)
ParseNextPacket(p, data) ==
  LET parse[n \in 0..Len(data)] ==
        IF n = 0 THEN [parser |-> p, packets |-> <<>>, consumed |-> 0]
        ELSE LET before == parse[n - 1]
                 next == ParseByte(before.parser, data[n])
             IN  IF before.packets # <<>> THEN before
                 ELSE [parser |-> next.parser, packets |-> next.packets, consumed |-> n]
  IN  parse[Len(data)]
=============================================================================
