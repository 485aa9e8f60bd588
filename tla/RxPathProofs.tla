---------------------------- MODULE RxPathProofs ----------------------------
(***************************************************************************)
(* Proofs of what module RxPath promises, whatever the frames, the chunks  *)
(* and the losses.                                                         *)
(*                                                                         *)
(* The prover is told how a recursive function computes by showing that a  *)
(* function with its defining equation exists, by way of a least           *)
(* counterexample; what the parser does is then an induction over the      *)
(* bytes of a chunk.                                                       *)
(***************************************************************************)
EXTENDS RxPath, WellFoundedInduction, TLAPS

LEMMA LeastNumber ==
  ASSUME NEW T, T \subseteq Nat, T # {}
  PROVE  \E x \in T : \A y \in T : x <= y
<1> DEFINE R == OpToRel(<, Nat)
<1>1. IsWellFoundedOn(R, Nat)
  BY NatLessThanWellFounded
<1>2. \A a, b \in Nat : a < b => <<a, b>> \in R
  BY DEF OpToRel
<1> HIDE DEF R
<1>3. PICK x \in T : \A y \in T : ~ (<<y, x>> \in R)
  BY <1>1, WFMin
<1>4. ASSUME NEW y \in T PROVE x <= y
  <2>1. x \in Nat /\ y \in Nat
    OBVIOUS
  <2>2. ~ (y < x)
    BY <1>2, <1>3, <2>1
  <2> QED BY <2>1, <2>2
<1> QED BY <1>4

(* Induction up to N. *)
LEMMA UpTo ==
  ASSUME NEW N \in Nat, NEW T, 0 \in T, \A n \in 1..N : n - 1 \in T => n \in T
  PROVE  0..N \subseteq T
<1> DEFINE U == {n \in 0..N : n \notin T}
<1>1. U \subseteq Nat
  OBVIOUS
<1>2. CASE U # {}
  <2>1. PICK n \in U : \A k \in U : n <= k
    BY <1>1, <1>2, LeastNumber
  <2>2. n \in 1..N /\ n - 1 \in 0..N /\ ~(n <= n - 1)
    BY <2>1
  <2> QED BY <2>1, <2>2
<1> QED BY <1>2

LEMMA RangeIs ==
  /\ \A b : b \in Bytes <=> b \in Nat /\ b <= 255
  /\ \A w : w \in Words <=> w \in Nat /\ w <= 65535
<1>1. \A b : b \in Bytes <=> b \in Nat /\ b <= UINT8_MAX
  <2>1. UINT8_MAX \in Nat
    BY DEF UINT8_MAX
  <2> QED BY <2>1 DEF Bytes
<1>2. \A w : w \in Words <=> w \in Nat /\ w <= UINT16_MAX
  <2>1. UINT16_MAX \in Nat
    BY DEF UINT16_MAX
  <2> QED BY <2>1 DEF Words
<1> QED BY <1>1, <1>2 DEF UINT8_MAX, UINT16_MAX

LEMMA MaxPayloadIs ==
  MaxPayload \in Nat /\ MaxPayload <= 65535
BY MaxPayloadAssumption, RangeIs

-----------------------------------------------------------------------------
(* The parser: its types, and what it has assembled so far. *)

Early == {"WAIT_HEADER_0", "WAIT_HEADER_1", "WAIT_HEADER_2", "GET_SEQ_ID_L",
          "GET_SEQ_ID_H", "READ_VERSION", "READ_COMMAND", "READ_LENGTH_L",
          "READ_LENGTH_H"}

Parsers == [state : States, seq_id : Words, version : Bytes, command : Bytes,
            payload_len : Words, payload : Seq(Bytes), crc_l : Bytes]

ParserOK(p) ==
  /\ p \in Parsers
  /\ p.payload_len <= IF p.state = "READ_LENGTH_H" THEN 255 ELSE MaxPayload
  /\ Len(p.payload) <= p.payload_len
  /\ p.state = "GET_SEQ_ID_H" => p.seq_id <= 255
  /\ p.state \in Early => p.payload = <<>>
  /\ p.state = "READ_PAYLOAD" => Len(p.payload) < p.payload_len

LEMMA ResetOK ==
  ASSUME NEW p \in Parsers
  PROVE  ParserOK(ParserReset(p)) /\ ParserReset(p).state = "WAIT_HEADER_0"
<1>1. <<>> \in Seq(Bytes) /\ Len(<<>>) = 0 /\ 0 \in Bytes /\ 0 \in Words
  BY RangeIs
<1> DEFINE q == ParserReset(p)
<1>2. q \in Parsers
  BY <1>1 DEF Parsers, ParserReset, States
<1>3. q.state = "WAIT_HEADER_0" /\ q.payload_len = 0 /\ q.payload = <<>>
  BY DEF Parsers, ParserReset
<1> HIDE DEF q
<1>4. ParserOK(q)
  BY <1>1, <1>2, <1>3, MaxPayloadIs DEF ParserOK
<1> QED BY <1>3, <1>4 DEF q

(* parse_byte() keeps the types: it never takes more payload than fits. *)
LEMMA AdvanceOK ==
  ASSUME NEW p, ParserOK(p), p.state # "READ_CRC_H", NEW byte \in Bytes
  PROVE  ParserOK(Advance(p, byte))
<1>0. /\ p \in Parsers /\ byte \in Nat /\ byte <= 255
      /\ p.payload_len \in Nat /\ p.seq_id \in Nat
  BY RangeIs DEF ParserOK, Parsers
<1>1. CASE p.state = "WAIT_HEADER_0"
  <2>1. Advance(p, byte) =
          IF byte = HEADER_0 THEN [p EXCEPT !.state = "WAIT_HEADER_1"] ELSE p
    BY <1>1, Zenon DEF Advance
  <2> QED BY <1>1, <2>1 DEF ParserOK, Parsers, States, Early
<1>2. CASE p.state = "WAIT_HEADER_1"
  <2>1. Advance(p, byte) =
          IF byte = HEADER_1 THEN [p EXCEPT !.state = "WAIT_HEADER_2"] ELSE ParserReset(p)
    BY <1>2, Zenon DEF Advance
  <2> QED BY <1>0, <1>2, <2>1, ResetOK DEF ParserOK, Parsers, States, Early
<1>3. CASE p.state = "WAIT_HEADER_2"
  <2>1. Advance(p, byte) =
          IF byte = HEADER_2 THEN [p EXCEPT !.state = "GET_SEQ_ID_L"] ELSE ParserReset(p)
    BY <1>3, Zenon DEF Advance
  <2> QED BY <1>0, <1>3, <2>1, ResetOK DEF ParserOK, Parsers, States, Early
<1>4. CASE p.state = "GET_SEQ_ID_L"
  <2>1. Advance(p, byte) = [p EXCEPT !.seq_id = byte, !.state = "GET_SEQ_ID_H"]
    BY <1>4, Zenon DEF Advance
  <2> DEFINE q == Advance(p, byte)
  <2>2. q \in Parsers
    <3>1. byte \in Words /\ "GET_SEQ_ID_H" \in States
      BY <1>0, RangeIs DEF States
    <3> QED BY <1>0, <2>1, <3>1 DEF Parsers
  <2>3. /\ q.state = "GET_SEQ_ID_H" /\ q.seq_id = byte
        /\ q.payload_len = p.payload_len /\ q.payload = p.payload
    BY <1>0, <2>1 DEF Parsers
  <2>4. p.payload_len <= MaxPayload /\ p.payload = <<>> /\ Len(p.payload) <= p.payload_len
    BY <1>4 DEF ParserOK, Early
  <2> HIDE DEF q
  <2>5. ParserOK(q)
    BY <1>0, <2>2, <2>3, <2>4 DEF ParserOK
  <2> QED BY <2>5 DEF q
<1>5. CASE p.state = "GET_SEQ_ID_H"
  <2>1. Advance(p, byte) = [p EXCEPT !.seq_id = @ + 256 * byte, !.state = "READ_VERSION"]
    BY <1>5, Zenon DEF Advance
  <2>2. p.seq_id + 256 * byte \in Words
    <3>1. p.seq_id <= 255
      BY <1>5 DEF ParserOK
    <3> QED BY <1>0, <3>1, RangeIs
  <2> DEFINE q == Advance(p, byte)
  <2>3. q \in Parsers
    <3>1. "READ_VERSION" \in States
      BY DEF States
    <3> QED BY <1>0, <2>1, <2>2, <3>1 DEF Parsers
  <2>4. /\ q.state = "READ_VERSION"
        /\ q.payload_len = p.payload_len /\ q.payload = p.payload
    BY <1>0, <2>1 DEF Parsers
  <2>5. p.payload_len <= MaxPayload /\ p.payload = <<>> /\ Len(p.payload) <= p.payload_len
    BY <1>5 DEF ParserOK, Early
  <2> HIDE DEF q
  <2>6. ParserOK(q)
    BY <1>0, <2>3, <2>4, <2>5 DEF ParserOK
  <2> QED BY <2>6 DEF q
<1>6. CASE p.state = "READ_VERSION"
  <2>1. Advance(p, byte) =
          IF byte = VER1 THEN [p EXCEPT !.version = byte, !.state = "READ_COMMAND"]
          ELSE ParserReset([p EXCEPT !.version = byte])
    BY <1>6, Zenon DEF Advance
  <2>2. [p EXCEPT !.version = byte] \in Parsers
    BY <1>0 DEF Parsers
  <2>3. ParserOK([p EXCEPT !.version = byte, !.state = "READ_COMMAND"])
    BY <1>6 DEF ParserOK, Parsers, States, Early
  <2> QED BY <2>1, <2>2, <2>3, ResetOK
<1>7. CASE p.state = "READ_COMMAND"
  <2>1. Advance(p, byte) = [p EXCEPT !.command = byte, !.state = "READ_LENGTH_L"]
    BY <1>7, Zenon DEF Advance
  <2> QED BY <1>7, <2>1 DEF ParserOK, Parsers, States, Early
<1>8. CASE p.state = "READ_LENGTH_L"
  <2>1. Advance(p, byte) = [p EXCEPT !.payload_len = byte, !.state = "READ_LENGTH_H"]
    BY <1>8, Zenon DEF Advance
  <2>2. p.payload = <<>> /\ byte \in Words
    BY <1>0, <1>8, RangeIs DEF ParserOK, Early
  <2> DEFINE q == Advance(p, byte)
  <2>3. q \in Parsers
    BY <1>0, <2>1, <2>2 DEF Parsers, States
  <2>4. q.state = "READ_LENGTH_H" /\ q.payload_len = byte /\ q.payload = p.payload
    BY <1>0, <2>1 DEF Parsers
  <2> HIDE DEF q
  <2>5. ParserOK(q)
    BY <1>0, <2>2, <2>3, <2>4 DEF ParserOK
  <2> QED BY <2>5 DEF q
<1>9. CASE p.state = "READ_LENGTH_H"
  <2> DEFINE len == p.payload_len + 256 * byte
  <2>1. Advance(p, byte) = LengthRead(p, len)
    BY <1>9, Zenon DEF Advance
  <2>2. len \in Nat /\ p.payload = <<>>
    BY <1>0, <1>9 DEF ParserOK, Parsers, Early
  <2> HIDE DEF len
  <2>3. CASE len > MaxPayload
    <3>1. Advance(p, byte) = ParserReset(p)
      BY <2>1, <2>3 DEF LengthRead
    <3> QED BY <1>0, <3>1, ResetOK
  <2>4. CASE ~(len > MaxPayload)
    <3>1. Advance(p, byte) =
            [p EXCEPT !.payload_len = len, !.payload = <<>>,
                      !.state = IF len = 0 THEN "READ_CRC_L" ELSE "READ_PAYLOAD"]
      BY <2>1, <2>4 DEF LengthRead
    <3>2. len \in Words /\ len <= MaxPayload
      BY <2>2, <2>4, MaxPayloadIs, RangeIs
    <3> DEFINE q == Advance(p, byte)
    <3>3. q \in Parsers
      <4>1. /\ (IF len = 0 THEN "READ_CRC_L" ELSE "READ_PAYLOAD") \in States
            /\ <<>> \in Seq(Bytes)
        BY DEF States
      <4> QED BY <1>0, <3>1, <3>2, <4>1 DEF Parsers
    <3>4. /\ q.state = IF len = 0 THEN "READ_CRC_L" ELSE "READ_PAYLOAD"
          /\ q.payload_len = len /\ q.payload = <<>>
      BY <1>0, <3>1 DEF Parsers
    <3> HIDE DEF q
    <3>5. ParserOK(q)
      BY <2>2, <3>2, <3>3, <3>4 DEF ParserOK, Early
    <3> QED BY <3>5 DEF q
  <2> QED BY <2>3, <2>4
<1>10. CASE p.state = "READ_PAYLOAD"
  <2>1. Advance(p, byte) =
          [p EXCEPT !.payload = Append(@, byte),
                    !.state = IF Len(p.payload) + 1 >= p.payload_len THEN "READ_CRC_L" ELSE @]
    BY <1>10, Zenon DEF Advance
  <2>2. p.payload \in Seq(Bytes) /\ p.payload_len \in Nat /\ Len(p.payload) < p.payload_len
    BY <1>0, <1>10 DEF ParserOK, Parsers
  <2>3. Append(p.payload, byte) \in Seq(Bytes)
        /\ Len(Append(p.payload, byte)) = Len(p.payload) + 1 /\ Len(p.payload) \in Nat
    BY <2>2
  <2> DEFINE q == Advance(p, byte)
  <2>4. q \in Parsers
    BY <1>0, <2>1, <2>3 DEF Parsers, States
  <2>5. /\ q.state = IF Len(p.payload) + 1 >= p.payload_len THEN "READ_CRC_L" ELSE "READ_PAYLOAD"
        /\ q.payload_len = p.payload_len /\ q.payload = Append(p.payload, byte)
    BY <1>0, <1>10, <2>1 DEF Parsers
  <2>6. p.payload_len <= MaxPayload
    BY <1>10 DEF ParserOK
  <2> HIDE DEF q
  <2>7. ParserOK(q)
    BY <2>2, <2>3, <2>4, <2>5, <2>6 DEF ParserOK, Early
  <2> QED BY <2>7 DEF q
<1>11. CASE p.state = "READ_CRC_L"
  <2>1. Advance(p, byte) = [p EXCEPT !.crc_l = byte, !.state = "READ_CRC_H"]
    BY <1>11, Zenon DEF Advance
  <2> QED BY <1>11, <2>1 DEF ParserOK, Parsers, States, Early
<1>12. p.state \in States
  BY <1>0 DEF Parsers
<1> QED BY <1>1, <1>2, <1>3, <1>4, <1>5, <1>6, <1>7, <1>8, <1>9, <1>10, <1>11, <1>12
        DEF States

LEMMA ParseByteOK ==
  ASSUME NEW p, ParserOK(p), NEW byte \in Bytes
  PROVE  /\ ParserOK(ParseByte(p, byte).parser)
         /\ ParseByte(p, byte).packets \in Seq(Packets)
         /\ ParseByte(p, byte).packets # <<>> =>
              ParseByte(p, byte).packets = <<Assembled(p)>>
<1>0. p \in Parsers
  BY DEF ParserOK
<1>1. CASE p.state # "READ_CRC_H"
  <2>1. <<>> \in Seq(Packets)
    OBVIOUS
  <2> QED BY <1>1, <2>1, AdvanceOK DEF ParseByte
<1>2. CASE p.state = "READ_CRC_H"
  <2>1. ParserOK(ParserReset(p))
    BY <1>0, ResetOK
  <2>2. ValidPacket(p, byte) => Assembled(p) \in Packets
    BY <1>0 DEF ValidPacket, Assembled, Packets, Parsers
  <2>3. ParseByte(p, byte) =
          [parser  |-> ParserReset(p),
           packets |-> IF ValidPacket(p, byte) THEN <<Assembled(p)>> ELSE <<>>]
    BY <1>2 DEF ParseByte
  <2> HIDE DEF Packets
  <2>4. /\ ParseByte(p, byte).parser = ParserReset(p)
        /\ ParseByte(p, byte).packets =
             IF ValidPacket(p, byte) THEN <<Assembled(p)>> ELSE <<>>
    BY <2>3
  <2>5. CASE ValidPacket(p, byte)
    <3>1. <<Assembled(p)>> \in Seq(Packets)
      BY <2>2, <2>5
    <3> QED BY <2>1, <2>4, <2>5, <3>1
  <2>6. CASE ~ValidPacket(p, byte)
    BY <2>1, <2>4, <2>6
  <2> QED BY <2>5, <2>6
<1> QED BY <1>1, <1>2

-----------------------------------------------------------------------------
(* Recursive functions: a function with the defining equation exists. *)

LEMMA RecursionExists ==
  ASSUME NEW S, NEW start \in S, NEW N \in Nat, NEW G \in [1..N -> [S -> S]]
  PROVE  \E f \in [0..N -> S] : f[0] = start /\ \A n \in 1..N : f[n] = G[n][f[n - 1]]
<1> DEFINE Defined(m) ==
             \E f \in [0..m -> S] : f[0] = start /\ \A n \in 1..m : f[n] = G[n][f[n - 1]]
           T == {m \in 0..N : ~Defined(m)}
<1>1. Defined(0)
  <2> DEFINE f == [n \in 0..0 |-> start]
  <2>1. f \in [0..0 -> S] /\ f[0] = start /\ \A n \in 1..0 : f[n] = G[n][f[n - 1]]
    OBVIOUS
  <2> QED BY <2>1
<1>2. ASSUME NEW m \in 1..N, Defined(m - 1)
      PROVE  Defined(m)
  <2>1. PICK f \in [0..m - 1 -> S] :
          f[0] = start /\ \A n \in 1..m - 1 : f[n] = G[n][f[n - 1]]
    BY <1>2
  <2> DEFINE h == [n \in 0..m |-> IF n = m THEN G[m][f[m - 1]] ELSE f[n]]
  <2>2. m \in Nat /\ m - 1 \in 0..m - 1 /\ 0 # m
    OBVIOUS
  <2>3. G[m][f[m - 1]] \in S
    <3>1. f[m - 1] \in S /\ G[m] \in [S -> S]
      BY <2>1, <2>2
    <3> QED BY <3>1
  <2>4. h \in [0..m -> S]
    BY <2>1, <2>2, <2>3
  <2>5. h[0] = start
    BY <2>1, <2>2
  <2>6. ASSUME NEW n \in 1..m
        PROVE  h[n] = G[n][h[n - 1]]
    <3>1. n \in 0..m /\ n - 1 \in 0..m /\ n - 1 # m
      BY <2>2
    <3>2. h[n - 1] = f[n - 1]
      BY <3>1
    <3>3. CASE n = m
      BY <3>1, <3>2, <3>3
    <3>4. CASE n # m
      <4>1. n \in 1..m - 1
        BY <2>2, <3>4
      <4> QED BY <2>1, <3>1, <3>2, <3>4, <4>1
    <3> QED BY <3>3, <3>4
  <2> HIDE DEF h
  <2> QED BY <2>4, <2>5, <2>6
<1> HIDE DEF Defined
<1>3. CASE T = {}
  <2>1. N \in 0..N
    OBVIOUS
  <2>2. Defined(N)
    BY <1>3, <2>1
  <2> QED BY <2>2 DEF Defined
<1>4. CASE T # {}
  <2>1. T \subseteq Nat
    OBVIOUS
  <2>2. PICK m \in T : \A k \in T : m <= k
    BY <1>4, <2>1, LeastNumber
  <2>3. m \in 0..N /\ ~Defined(m)
    OBVIOUS
  <2>4. m # 0
    BY <1>1, <2>3
  <2>5. m - 1 \in 0..N /\ ~(m <= m - 1) /\ m \in 1..N
    BY <2>3, <2>4
  <2>6. Defined(m - 1)
    BY <2>2, <2>5
  <2> QED BY <1>2, <2>3, <2>5, <2>6
<1> QED BY <1>3, <1>4

(* parse_next_packet(), byte by byte. *)
Runs(N) == [parser : {q \in Parsers : ParserOK(q)}, packets : Seq(Packets), consumed : 0..N]

RunNext(r, byte, n) ==
  IF r.packets # <<>> THEN r
  ELSE [parser |-> ParseByte(r.parser, byte).parser,
        packets |-> ParseByte(r.parser, byte).packets, consumed |-> n]

LEMMA ParseRuns ==
  ASSUME NEW p, ParserOK(p), NEW data \in Seq(Bytes)
  PROVE  \E f \in [0..Len(data) -> Runs(Len(data))] :
           /\ f[0] = [parser |-> p, packets |-> <<>>, consumed |-> 0]
           /\ \A n \in 1..Len(data) : f[n] = RunNext(f[n - 1], data[n], n)
           /\ ParseNextPacket(p, data) = f[Len(data)]
<1> DEFINE N == Len(data)
           S == Runs(N)
           start == [parser |-> p, packets |-> <<>>, consumed |-> 0]
           G == [n \in 1..N |-> [r \in S |-> RunNext(r, data[n], n)]]
           Is(f) == f = [n \in 0..N |-> IF n = 0 THEN start
                                        ELSE RunNext(f[n - 1], data[n], n)]
<1>0. N \in Nat /\ \A n \in 1..N : data[n] \in Bytes
  OBVIOUS
<1>1. start \in S
  <2>1. p \in Parsers /\ <<>> \in Seq(Packets) /\ 0 \in 0..N
    BY <1>0 DEF ParserOK
  <2> QED BY <2>1 DEF Runs
<1>2. G \in [1..N -> [S -> S]]
  <2>1. ASSUME NEW n \in 1..N, NEW r \in S
        PROVE  RunNext(r, data[n], n) \in S
    <3>1. ParserOK(r.parser)
      BY DEF Runs
    <3>2. /\ ParserOK(ParseByte(r.parser, data[n]).parser)
          /\ ParseByte(r.parser, data[n]).packets \in Seq(Packets)
      BY <1>0, <3>1, ParseByteOK
    <3>3. ParseByte(r.parser, data[n]).parser \in Parsers
      BY <3>2 DEF ParserOK
    <3>4. n \in 0..N
      BY <1>0
    <3> QED BY <3>2, <3>3, <3>4 DEF RunNext, Runs
  <2> QED BY <2>1
<1> HIDE DEF S, G, N, start
<1>3. \E f \in [0..N -> S] : f[0] = start /\ \A n \in 1..N : f[n] = G[n][f[n - 1]]
  <2>1. N \in Nat
    BY <1>0
  <2> QED BY ONLY <1>1, <1>2, <2>1, RecursionExists
<1>4. PICK f \in [0..N -> S] : f[0] = start /\ \A n \in 1..N : f[n] = G[n][f[n - 1]]
  BY <1>3
<1> USE DEF N
<1>5. ASSUME NEW n \in 1..N
      PROVE  f[n] = RunNext(f[n - 1], data[n], n)
  <2>1. n - 1 \in 0..N
    BY <1>0
  <2>2. f[n - 1] \in S
    BY <1>4, <2>1
  <2>3. G[n][f[n - 1]] = RunNext(f[n - 1], data[n], n)
    BY <2>2 DEF G
  <2> QED BY <1>4, <2>3
<1>6. Is(f)
  <2>1. \A n \in 0..N : f[n] = IF n = 0 THEN start ELSE RunNext(f[n - 1], data[n], n)
    <3>1. ASSUME NEW n \in 0..N, n # 0
          PROVE  n \in 1..N
      BY <1>0, <3>1
    <3> QED BY <1>4, <1>5, <3>1
  <2> QED BY <1>4, <2>1
<1>7. ASSUME NEW g, Is(g)
      PROVE  \A n \in 0..N : g[n] = f[n]
  <2> DEFINE T == {n \in 0..N : g[n] # f[n]}
  <2>1. CASE T = {}
    BY <2>1
  <2>2. CASE T # {}
    <3>1. T \subseteq Nat
      BY <1>0
    <3>2. PICK n \in T : \A k \in T : n <= k
      BY <2>2, <3>1, LeastNumber
    <3>3. n # 0
      BY <1>0, <1>4, <1>7
    <3>4. n \in 1..N /\ n - 1 \in 0..N /\ ~(n <= n - 1)
      BY <1>0, <3>3
    <3>5. g[n - 1] = f[n - 1]
      BY <3>2, <3>4
    <3> QED BY <1>5, <1>7, <3>3, <3>4, <3>5
  <2> QED BY <2>1, <2>2
<1>8. ParseNextPacket(p, data) = f[N]
  <2> DEFINE c == CHOOSE g : Is(g)
  <2>1. Is(c)
    BY <1>6
  <2>2. ParseNextPacket(p, data) = c[N]
    BY Zenon DEF ParseNextPacket, RunNext, start
  <2> QED BY <1>0, <1>7, <2>1, <2>2
<1> QED BY <1>4, <1>5, <1>8 DEF S, start

-----------------------------------------------------------------------------
(* Bytes and the CRC. *)

LEMMA BitsIs ==
  ASSUME NEW n \in Bytes
  PROVE  /\ 0 \in Bits(n) <=> n % 2 = 1
         /\ 1 \in Bits(n) <=> (n \div 2) % 2 = 1
         /\ 2 \in Bits(n) <=> (n \div 4) % 2 = 1
         /\ 3 \in Bits(n) <=> (n \div 8) % 2 = 1
         /\ 4 \in Bits(n) <=> (n \div 16) % 2 = 1
         /\ 5 \in Bits(n) <=> (n \div 32) % 2 = 1
         /\ 6 \in Bits(n) <=> (n \div 64) % 2 = 1
         /\ 7 \in Bits(n) <=> (n \div 128) % 2 = 1
         /\ Bits(n) \subseteq 0..7
<1>0. n \in Nat /\ n <= 255
  BY RangeIs
<1>1. /\ 2^0 = 1 /\ 2^1 = 2 /\ 2^2 = 4 /\ 2^3 = 8
      /\ 2^4 = 16 /\ 2^5 = 32 /\ 2^6 = 64 /\ 2^7 = 128
  OBVIOUS
<1>2. n \div 1 = n
  BY <1>0
<1>3. \A b \in 0..15 : b \in Bits(n) <=> (n \div 2^b) % 2 = 1
  BY DEF Bits
<1>4. /\ 0 \in Bits(n) <=> n % 2 = 1
      /\ 1 \in Bits(n) <=> (n \div 2) % 2 = 1
      /\ 2 \in Bits(n) <=> (n \div 4) % 2 = 1
      /\ 3 \in Bits(n) <=> (n \div 8) % 2 = 1
  BY <1>0, <1>1, <1>2, <1>3
<1>5. /\ 4 \in Bits(n) <=> (n \div 16) % 2 = 1
      /\ 5 \in Bits(n) <=> (n \div 32) % 2 = 1
      /\ 6 \in Bits(n) <=> (n \div 64) % 2 = 1
      /\ 7 \in Bits(n) <=> (n \div 128) % 2 = 1
  BY <1>0, <1>1, <1>3
<1>6. ASSUME NEW b \in Bits(n)
      PROVE  b \in 0..7
  <2>0. b \in 0..15
    BY DEF Bits
  <2>1. /\ 2^8 = 256 /\ 2^9 = 512 /\ 2^10 = 1024 /\ 2^11 = 2048
        /\ 2^12 = 4096 /\ 2^13 = 8192 /\ 2^14 = 16384 /\ 2^15 = 32768
    OBVIOUS
  <2>2. /\ n \div 256 = 0 /\ n \div 512 = 0 /\ n \div 1024 = 0 /\ n \div 2048 = 0
        /\ n \div 4096 = 0 /\ n \div 8192 = 0 /\ n \div 16384 = 0 /\ n \div 32768 = 0
    BY <1>0
  <2>3. 0 % 2 # 1
    OBVIOUS
  <2>4. 8 \notin Bits(n) /\ 9 \notin Bits(n) /\ 10 \notin Bits(n) /\ 11 \notin Bits(n)
    BY <1>3, <2>1, <2>2, <2>3
  <2>5. 12 \notin Bits(n) /\ 13 \notin Bits(n) /\ 14 \notin Bits(n) /\ 15 \notin Bits(n)
    BY <1>3, <2>1, <2>2, <2>3
  <2> QED BY <2>0, <2>4, <2>5
<1> QED BY <1>4, <1>5, <1>6

LEMMA DigitsIs ==
  ASSUME NEW n,
         NEW d0 \in 0..1, NEW d1 \in 0..1, NEW d2 \in 0..1, NEW d3 \in 0..1,
         NEW d4 \in 0..1, NEW d5 \in 0..1, NEW d6 \in 0..1, NEW d7 \in 0..1,
         n = d0 + 2 * d1 + 4 * d2 + 8 * d3 + 16 * d4 + 32 * d5 + 64 * d6 + 128 * d7
  PROVE  /\ n \in Nat /\ n <= 255
         /\ n % 2 = d0 /\ (n \div 2) % 2 = d1 /\ (n \div 4) % 2 = d2
         /\ (n \div 8) % 2 = d3 /\ (n \div 16) % 2 = d4 /\ (n \div 32) % 2 = d5
         /\ (n \div 64) % 2 = d6 /\ (n \div 128) % 2 = d7
OBVIOUS

(* Any eight bits make a byte. *)
LEMMA ByteIs ==
  ASSUME NEW crc, NEW first \in Nat
  PROVE  /\ Byte(crc, first) \in Bytes
         /\ \A b \in 0..7 : b \in Bits(Byte(crc, first)) <=> first + b \in crc
<1> DEFINE d(b) == IF first + b \in crc THEN 1 ELSE 0
           n == d(0) + 2 * d(1) + 4 * d(2) + 8 * d(3)
                + 16 * d(4) + 32 * d(5) + 64 * d(6) + 128 * d(7)
<1>1. /\ d(0) \in 0..1 /\ d(1) \in 0..1 /\ d(2) \in 0..1 /\ d(3) \in 0..1
      /\ d(4) \in 0..1 /\ d(5) \in 0..1 /\ d(6) \in 0..1 /\ d(7) \in 0..1
  OBVIOUS
<1>2. \A b : d(b) = 1 <=> first + b \in crc
  OBVIOUS
<1> HIDE DEF d
<1>3. /\ n \in Nat /\ n <= 255
      /\ n % 2 = d(0) /\ (n \div 2) % 2 = d(1) /\ (n \div 4) % 2 = d(2)
      /\ (n \div 8) % 2 = d(3) /\ (n \div 16) % 2 = d(4) /\ (n \div 32) % 2 = d(5)
      /\ (n \div 64) % 2 = d(6) /\ (n \div 128) % 2 = d(7)
  BY ONLY <1>1, DigitsIs
<1> HIDE DEF n
<1>4. n \in Bytes
  BY <1>3, RangeIs
<1>5. \A b \in 0..7 : b \in Bits(n) <=> first + b \in crc
  BY <1>2, <1>3, <1>4, BitsIs
<1> QED BY <1>4, <1>5, Zenon DEF Byte

(* The two bytes of a CRC give it back. *)
LEMMA BytesGiveCrc ==
  ASSUME NEW crc, crc \subseteq 0..15
  PROVE  Bits(Byte(crc, 0)) \cup ShiftLeft(Bits(Byte(crc, 8)), 8) = crc
<1> DEFINE low == Bits(Byte(crc, 0))  high == Bits(Byte(crc, 8))
<1>1. /\ low \subseteq 0..7 /\ high \subseteq 0..7
      /\ \A b \in 0..7 : (b \in low <=> b \in crc) /\ (b \in high <=> b + 8 \in crc)
  BY BitsIs, ByteIs
<1> HIDE DEF low, high
<1>2. ASSUME NEW b
      PROVE  b \in ShiftLeft(high, 8) <=> b \in 8..15 /\ b \in crc
  <2>1. ASSUME b \in ShiftLeft(high, 8)
        PROVE  b \in 8..15 /\ b \in crc
    <3>1. PICK d \in high : b = d + 8
      BY <2>1 DEF ShiftLeft
    <3> QED BY <1>1, <3>1
  <2>2. ASSUME b \in 8..15, b \in crc
        PROVE  b \in ShiftLeft(high, 8)
    <3>1. b - 8 \in 0..7 /\ (b - 8) + 8 = b /\ (b - 8) + 8 <= 15
      BY <2>2
    <3>2. b - 8 \in high
      BY <1>1, <2>2, <3>1
    <3> QED BY <3>1, <3>2 DEF ShiftLeft
  <2> QED BY <2>1, <2>2
<1>3. \A b \in crc : b \in 0..7 \/ b \in 8..15
  OBVIOUS
<1> QED BY <1>1, <1>2, <1>3 DEF low, high

LEMMA CrcByteBits ==
  ASSUME NEW crc, crc \subseteq 0..15, NEW byte
  PROVE  CrcByte(crc, byte) \subseteq 0..15
<1> DEFINE S == SUBSET (0..15)
           start == Xor(crc, ShiftLeft(Bits(byte), 8))
           N == 8
           G == [n \in 1..N |-> [c \in S |-> CrcBit(c)]]
           Is(f) == f = [n \in 0..N |-> IF n = 0 THEN start ELSE CrcBit(f[n - 1])]
<1>1. \A a \in S, n \in Nat : ShiftLeft(a, n) \in S
  BY DEF ShiftLeft
<1>2. \A a, b \in S : Xor(a, b) \in S
  BY DEF Xor
<1>3. \A n : Bits(n) \in S
  BY DEF Bits
<1> HIDE DEF S
<1>4. start \in S
  BY <1>1, <1>2, <1>3 DEF S
<1>5. \A c \in S : CrcBit(c) \in S
  BY <1>1, <1>2, <1>3 DEF CrcBit, Polynomial
<1>6. N \in Nat
  OBVIOUS
<1> HIDE DEF N
<1>7. G \in [1..N -> [S -> S]]
  BY <1>5
<1> HIDE DEF G, start
<1>8. \E f \in [0..N -> S] : f[0] = start /\ \A n \in 1..N : f[n] = G[n][f[n - 1]]
  BY ONLY <1>4, <1>6, <1>7, RecursionExists
<1>9. PICK f \in [0..N -> S] : f[0] = start /\ \A n \in 1..N : f[n] = G[n][f[n - 1]]
  BY <1>8
<1> USE DEF N
<1>10. ASSUME NEW n \in 1..N
      PROVE  f[n] = CrcBit(f[n - 1])
  <2>1. f[n - 1] \in S
    BY <1>9
  <2> QED BY <1>9, <2>1 DEF G
<1>11. Is(f)
  <2>1. \A n \in 0..N : f[n] = IF n = 0 THEN start ELSE CrcBit(f[n - 1])
    BY <1>9, <1>10
  <2> QED BY <1>9, <2>1
<1>12. ASSUME NEW g, Is(g)
       PROVE  g[N] \in S
  <2>1. g[0] = start /\ \A n \in 1..8 : g[n] = CrcBit(g[n - 1])
    BY <1>12
  <2>2. g[0] \in S /\ g[1] \in S /\ g[2] \in S /\ g[3] \in S /\ g[4] \in S
    BY <1>4, <1>5, <2>1
  <2>3. g[5] \in S /\ g[6] \in S /\ g[7] \in S /\ g[8] \in S
    BY <1>5, <2>1, <2>2
  <2> QED BY <2>3
<1>13. CrcByte(crc, byte) \in S
  <2> DEFINE c == CHOOSE g : Is(g)
  <2>1. Is(c)
    BY <1>11
  <2>2. CrcByte(crc, byte) = c[N]
    BY Zenon DEF CrcByte, start
  <2> HIDE DEF c
  <2> QED BY <1>12, <2>1, <2>2
<1> QED BY <1>13 DEF S

LEMMA CrcIs ==
  ASSUME NEW R, NEW bytes \in Seq(R)
  PROVE  Crc(bytes) \subseteq 0..15
<1> DEFINE N == Len(bytes)
           S == SUBSET (0..15)
           G == [n \in 1..N |-> [c \in S |-> CrcByte(c, bytes[n])]]
           start == 0..15
           Is(f) == f = [n \in 0..N |-> IF n = 0 THEN start ELSE CrcByte(f[n - 1], bytes[n])]
<1>0. N \in Nat
  OBVIOUS
<1>1. start \in S
  OBVIOUS
<1>2. \A byte : \A c \in S : CrcByte(c, byte) \in S
  BY CrcByteBits
<1> HIDE DEF S
<1>3. G \in [1..N -> [S -> S]]
  BY <1>2
<1> HIDE DEF G, N, start
<1>4. \E f \in [0..N -> S] : f[0] = start /\ \A n \in 1..N : f[n] = G[n][f[n - 1]]
  BY ONLY <1>0, <1>1, <1>3, RecursionExists
<1>5. PICK f \in [0..N -> S] : f[0] = start /\ \A n \in 1..N : f[n] = G[n][f[n - 1]]
  BY <1>4
<1>6. ASSUME NEW n \in 1..N
      PROVE  f[n] = CrcByte(f[n - 1], bytes[n])
  <2>1. f[n - 1] \in S
    BY <1>0, <1>5
  <2> QED BY <1>5, <2>1 DEF G
<1>7. Is(f)
  <2>1. \A n \in 0..N : f[n] = IF n = 0 THEN start ELSE CrcByte(f[n - 1], bytes[n])
    <3>1. ASSUME NEW n \in 0..N, n # 0
          PROVE  n \in 1..N
      BY <1>0, <3>1
    <3> QED BY <1>5, <1>6, <3>1
  <2> QED BY <1>5, <2>1
<1>8. ASSUME NEW g, Is(g)
      PROVE  \A n \in 0..N : g[n] \in S
  <2> DEFINE T == {n \in 0..N : g[n] \notin S}
  <2>1. CASE T = {}
    BY <2>1
  <2>2. CASE T # {}
    <3>1. T \subseteq Nat
      BY <1>0
    <3>2. PICK n \in T : \A k \in T : n <= k
      BY <2>2, <3>1, LeastNumber
    <3>3. n # 0
      BY <1>0, <1>1, <1>8
    <3>4. n \in 1..N /\ n - 1 \in 0..N /\ ~(n <= n - 1)
      BY <1>0, <3>3
    <3>5. g[n - 1] \in S
      BY <3>2, <3>4
    <3> QED BY <1>2, <1>8, <3>3, <3>4, <3>5
  <2> QED BY <2>1, <2>2
<1>9. Crc(bytes) \in S
  <2> DEFINE c == CHOOSE g : Is(g)
  <2>1. Is(c)
    BY <1>7
  <2>2. Crc(bytes) = c[N]
    BY Zenon DEF Crc, N, start
  <2> HIDE DEF c
  <2> QED BY <1>0, <1>8, <2>1, <2>2
<1> QED BY <1>9 DEF S

-----------------------------------------------------------------------------
(* The line: what encode() puts on it, frame after frame. *)

LEMMA PacketSizeIs ==
  ASSUME NEW n \in Numbers
  PROVE  /\ Frames[n] \in Packets /\ PacketSize(Frames[n]) \in Nat
         /\ Len(Frames[n].payload) \in Nat
         /\ PacketSize(Frames[n]) = 11 + Len(Frames[n].payload)
         /\ Len(Frames[n].payload) <= MaxPayload
<1>1. Frames[n] \in Packets
  BY RxPathAssumption DEF Numbers
<1>2. Frames[n].payload \in Seq(Bytes)
  BY <1>1 DEF Packets
<1> QED BY <1>1, <1>2, RxPathAssumption DEF PacketSize, Numbers

LEMMA CountIs == Len(Frames) \in Nat /\ Numbers = 1..Len(Frames)
BY RxPathAssumption DEF Numbers

(* The ends of the frames. *)
LEMMA EndOfIs ==
  /\ EndOf \in [0..Len(Frames) -> Nat]
  /\ EndOf[0] = 0
  /\ \A n \in Numbers : EndOf[n] = EndOf[n - 1] + PacketSize(Frames[n])
<1> DEFINE N == Len(Frames)
           G == [n \in 1..N |-> [e \in Nat |-> e + PacketSize(Frames[n])]]
           start == 0
           S == Nat
           Is(f) == f = [n \in 0..N |-> IF n = 0 THEN 0 ELSE f[n - 1] + PacketSize(Frames[n])]
<1>1. N \in Nat /\ start \in S
  BY CountIs
<1>2. G \in [1..N -> [S -> S]]
  BY PacketSizeIs, CountIs
<1>a. Numbers = 1..N
  BY CountIs
<1> HIDE DEF N, G, start, S
<1>3. \E f \in [0..N -> S] : f[0] = start /\ \A n \in 1..N : f[n] = G[n][f[n - 1]]
  BY ONLY <1>1, <1>2, RecursionExists
<1>4. PICK f \in [0..N -> S] : f[0] = start /\ \A n \in 1..N : f[n] = G[n][f[n - 1]]
  BY <1>3
<1>5. \A n \in 1..N : f[n] = f[n - 1] + PacketSize(Frames[n])
  <2>1. ASSUME NEW n \in 1..N PROVE f[n - 1] \in S
    BY <1>1, <1>4
  <2> QED BY <1>4, <2>1 DEF G, S
<1>6. Is(f)
  <2>1. \A n \in 0..N : f[n] = IF n = 0 THEN 0 ELSE f[n - 1] + PacketSize(Frames[n])
    <3>1. ASSUME NEW n \in 0..N, n # 0
          PROVE  n \in 1..N
      BY <1>1, <3>1
    <3> QED BY <1>4, <1>5, <3>1 DEF start
  <2> QED BY <1>4, <2>1
<1> DEFINE c == CHOOSE g : Is(g)
<1>7. Is(c)
  BY <1>6
<1>8. EndOf = c
  BY Zenon DEF EndOf, N
<1> HIDE DEF c
<1>9. \A n \in 0..N : c[n] = f[n]
  <2> DEFINE T == {n \in 0..N : c[n] = f[n]}
  <2>1. 0 \in T
    BY <1>1, <1>4, <1>7 DEF start
  <2>2. ASSUME NEW n \in 1..N, n - 1 \in T PROVE n \in T
    <3>1. n \in 0..N /\ n # 0
      BY <1>1
    <3> QED BY <1>5, <1>7, <2>2, <3>1
  <2> HIDE DEF T
  <2>3. 0..N \subseteq T
    BY <1>1, <2>1, <2>2, UpTo
  <2>4. ASSUME NEW n \in 0..N PROVE c[n] = f[n]
    <3>1. n \in T
      BY <2>3
    <3> QED BY <3>1 DEF T
  <2> QED BY <2>4
<1>10. c = f
  BY <1>4, <1>7, <1>9
<1> QED BY <1>4, <1>5, <1>8, <1>10, <1>a DEF start, S, N

LEMMA EndOfGrows ==
  ASSUME NEW m \in 0..Len(Frames), NEW n \in 0..Len(Frames), m < n
  PROVE  EndOf[m] + 11 <= EndOf[n]
<1> DEFINE N == Len(Frames)
           T == {d \in 0..N : m + d <= N => EndOf[m] + 11 * d <= EndOf[m + d]}
<1>0. N \in Nat /\ m \in Nat /\ n \in Nat /\ \A k \in 0..N : EndOf[k] \in Nat
  BY CountIs, EndOfIs
<1> HIDE DEF N
<1>1. 0 \in T
  <2>1. m + 0 = m /\ EndOf[m] \in Nat
    BY <1>0 DEF N
  <2> QED BY <1>0, <2>1
<1>2. ASSUME NEW d \in 1..N, d - 1 \in T PROVE d \in T
  <2> SUFFICES ASSUME m + d <= N PROVE EndOf[m] + 11 * d <= EndOf[m + d]
    BY <1>0
  <2>1. /\ m + d \in 1..N /\ (m + d) - 1 = m + (d - 1) /\ d - 1 \in Nat
        /\ m + (d - 1) \in 0..N /\ m + (d - 1) <= N
    BY <1>0
  <2>2. EndOf[m + d] = EndOf[m + (d - 1)] + PacketSize(Frames[m + d])
    BY <2>1, EndOfIs DEF N, Numbers
  <2>3. EndOf[m] + 11 * (d - 1) <= EndOf[m + (d - 1)]
    BY <1>2, <2>1
  <2>4. PacketSize(Frames[m + d]) \in Nat /\ PacketSize(Frames[m + d]) >= 11
    BY <2>1, PacketSizeIs DEF N, Numbers
  <2>5. EndOf[m] \in Nat /\ EndOf[m + (d - 1)] \in Nat /\ d \in Nat
    BY <1>0, <2>1 DEF N
  <2> QED BY <2>2, <2>3, <2>4, <2>5
<1> HIDE DEF T
<1>3. 0..N \subseteq T
  BY <1>0, <1>1, <1>2, UpTo
<1>4. n - m \in 0..N /\ 1 <= n - m /\ m + (n - m) = n /\ n <= N
  BY <1>0 DEF N
<1>5. n - m \in T
  BY <1>3, <1>4
<1>6. EndOf[m] + 11 * (n - m) <= EndOf[n]
  BY <1>4, <1>5 DEF T
<1>7. EndOf[m] \in Nat /\ EndOf[n] \in Nat
  BY <1>0 DEF N
<1> QED BY <1>0, <1>4, <1>6, <1>7

LEMMA HalvesIs ==
  ASSUME NEW w \in Words
  PROVE  Low(w) \in Bytes /\ High(w) \in Bytes /\ Low(w) + 256 * High(w) = w
<1>1. w \in Nat /\ w <= 65535
  BY RangeIs
<1>2. /\ w % 256 \in Nat /\ w % 256 <= 255
      /\ (w \div 256) % 256 \in Nat /\ (w \div 256) % 256 <= 255
      /\ (w % 256) + 256 * ((w \div 256) % 256) = w
  BY <1>1
<1> QED BY <1>2, RangeIs DEF Low, High

LEMMA Joined ==
  ASSUME NEW S, NEW a \in Seq(S), NEW b \in Seq(S), NEW c, c = a \o b
  PROVE  /\ c \in Seq(S)
         /\ Len(c) = Len(a) + Len(b)
         /\ \A k \in 1..Len(a) : c[k] = a[k]
         /\ \A k \in 1..Len(b) : c[Len(a) + k] = b[k]
OBVIOUS

(* What encode() puts on the line. *)
LEMMA CoveredIs ==
  ASSUME NEW p \in Packets, Len(p.payload) <= MaxPayload
  PROVE  /\ Covered(p) \in Seq(Bytes)
         /\ Len(Covered(p)) = 6 + Len(p.payload)
         /\ Covered(p)[1] = Low(p.seq_id) /\ Covered(p)[2] = High(p.seq_id)
         /\ Covered(p)[3] = VER1 /\ Covered(p)[4] = p.command
         /\ Covered(p)[5] = Low(Len(p.payload)) /\ Covered(p)[6] = High(Len(p.payload))
         /\ \A k \in 1..Len(p.payload) : Covered(p)[6 + k] = p.payload[k]
<1> DEFINE head == <<Low(p.seq_id), High(p.seq_id), p.version, p.command,
                     Low(Len(p.payload)), High(Len(p.payload))>>
<1>1. /\ p.seq_id \in Words /\ p.version = VER1 /\ VER1 \in Bytes /\ p.command \in Bytes
      /\ p.payload \in Seq(Bytes) /\ Len(p.payload) \in Nat
  BY RangeIs DEF Packets, VER1
<1>2. Len(p.payload) \in Words
  BY <1>1, MaxPayloadIs, RangeIs
<1>3. /\ Low(p.seq_id) \in Bytes /\ High(p.seq_id) \in Bytes
      /\ Low(Len(p.payload)) \in Bytes /\ High(Len(p.payload)) \in Bytes
  BY <1>1, <1>2, HalvesIs
<1>4. /\ head \in Seq(Bytes) /\ Len(head) = 6
      /\ head[1] = Low(p.seq_id) /\ head[2] = High(p.seq_id) /\ head[3] = VER1
      /\ head[4] = p.command /\ head[5] = Low(Len(p.payload))
      /\ head[6] = High(Len(p.payload))
  BY <1>1, <1>3
<1>5. Covered(p) = head \o p.payload
  BY Zenon DEF Covered
<1> HIDE DEF head
<1> DEFINE tail == p.payload
<1>6. tail \in Seq(Bytes) /\ Covered(p) = head \o tail
  BY <1>1, <1>5
<1> HIDE DEF tail
<1>7. /\ Covered(p) \in Seq(Bytes) /\ Len(Covered(p)) = Len(head) + Len(tail)
      /\ \A k \in 1..Len(head) : Covered(p)[k] = head[k]
      /\ \A k \in 1..Len(tail) : Covered(p)[Len(head) + k] = tail[k]
  <2>1. head \in Seq(Bytes) /\ tail \in Seq(Bytes) /\ Covered(p) = head \o tail
    BY <1>4, <1>6
  <2> DEFINE c == Covered(p)
  <2>2. c = head \o tail
    BY <2>1
  <2> HIDE DEF c
  <2>3. /\ c \in Seq(Bytes) /\ Len(c) = Len(head) + Len(tail)
        /\ \A k \in 1..Len(head) : c[k] = head[k]
        /\ \A k \in 1..Len(tail) : c[Len(head) + k] = tail[k]
    BY ONLY <2>1, <2>2, Joined
  <2> QED BY <2>3 DEF c
<1> QED BY <1>1, <1>4, <1>7 DEF tail

LEMMA EncodeIs ==
  ASSUME NEW p \in Packets, Len(p.payload) <= MaxPayload
  PROVE  /\ Encode(p) \in Seq(Bytes)
         /\ Len(Encode(p)) = PacketSize(p)
         /\ Encode(p)[1] = HEADER_0 /\ Encode(p)[2] = HEADER_1 /\ Encode(p)[3] = HEADER_2
         /\ \A k \in 1..6 + Len(p.payload) : Encode(p)[3 + k] = Covered(p)[k]
         /\ Encode(p)[10 + Len(p.payload)] = Byte(Crc(Covered(p)), 0)
         /\ Encode(p)[11 + Len(p.payload)] = Byte(Crc(Covered(p)), 8)
<1> DEFINE pre == <<HEADER_0, HEADER_1, HEADER_2>>
           body == Covered(p)
           post == <<Byte(Crc(Covered(p)), 0), Byte(Crc(Covered(p)), 8)>>
<1>1. /\ pre \in Seq(Bytes) /\ Len(pre) = 3
      /\ pre[1] = HEADER_0 /\ pre[2] = HEADER_1 /\ pre[3] = HEADER_2
  <2>1. HEADER_0 \in Bytes /\ HEADER_1 \in Bytes /\ HEADER_2 \in Bytes
    BY RangeIs DEF HEADER_0, HEADER_1, HEADER_2
  <2> QED BY <2>1
<1>2. body \in Seq(Bytes) /\ Len(body) = 6 + Len(p.payload) /\ Len(p.payload) \in Nat
  <2>1. p.payload \in Seq(Bytes)
    BY DEF Packets
  <2> QED BY <2>1, CoveredIs
<1>3. /\ post \in Seq(Bytes) /\ Len(post) = 2
      /\ post[1] = Byte(Crc(Covered(p)), 0) /\ post[2] = Byte(Crc(Covered(p)), 8)
  <2>1. Byte(Crc(Covered(p)), 0) \in Bytes /\ Byte(Crc(Covered(p)), 8) \in Bytes
    BY ByteIs
  <2> QED BY <2>1
<1>4. Encode(p) = (pre \o body) \o post
  BY Zenon DEF Encode
<1> HIDE DEF pre, post, body
<1> DEFINE front == pre \o body
           whole == front \o post
<1>5. /\ front \in Seq(Bytes) /\ Len(front) = Len(pre) + Len(body)
      /\ \A k \in 1..Len(pre) : front[k] = pre[k]
      /\ \A k \in 1..Len(body) : front[Len(pre) + k] = body[k]
  <2>1. pre \in Seq(Bytes) /\ body \in Seq(Bytes) /\ front = pre \o body
    BY <1>1, <1>2
  <2> HIDE DEF front
  <2> QED BY ONLY <2>1, Joined
<1> HIDE DEF front
<1>6. /\ whole \in Seq(Bytes) /\ Len(whole) = Len(front) + Len(post)
      /\ \A k \in 1..Len(front) : whole[k] = front[k]
      /\ \A k \in 1..Len(post) : whole[Len(front) + k] = post[k]
  <2>1. front \in Seq(Bytes) /\ post \in Seq(Bytes) /\ whole = front \o post
    BY <1>3, <1>5
  <2> HIDE DEF whole
  <2> QED BY ONLY <2>1, Joined
<1>7. Encode(p) = whole
  BY <1>4 DEF whole, front
<1> HIDE DEF whole
<1>8. whole[1] = HEADER_0 /\ whole[2] = HEADER_1 /\ whole[3] = HEADER_2
  <2>1. \A k \in 1..3 : k \in 1..Len(pre) /\ k \in 1..Len(front)
    <3>1. Len(front) = 9 + Len(p.payload)
      BY <1>1, <1>2, <1>5
    <3> QED BY <1>1, <1>2, <3>1
  <2>2. \A k \in 1..3 : whole[k] = pre[k]
    BY <1>5, <1>6, <2>1
  <2> QED BY <1>1, <2>2
<1>9. \A k \in 1..6 + Len(p.payload) : whole[3 + k] = body[k]
  BY <1>1, <1>2, <1>3, <1>5, <1>6
<1>10. /\ whole[10 + Len(p.payload)] = Byte(Crc(Covered(p)), 0)
       /\ whole[11 + Len(p.payload)] = Byte(Crc(Covered(p)), 8)
  <2>1. /\ 1 \in 1..Len(post) /\ 2 \in 1..Len(post)
        /\ Len(front) + 1 = 10 + Len(p.payload)
        /\ Len(front) + 2 = 11 + Len(p.payload)
    BY <1>1, <1>2, <1>3, <1>5
  <2>2. whole[Len(front) + 1] = post[1] /\ whole[Len(front) + 2] = post[2]
    BY <1>6, <2>1
  <2> QED BY <1>3, <2>1, <2>2
<1>11. PacketSize(p) = 11 + Len(p.payload)
  BY DEF PacketSize
<1>12. Len(whole) = 11 + Len(p.payload)
  BY <1>1, <1>2, <1>3, <1>5, <1>6
<1> QED BY <1>6, <1>7, <1>8, <1>9, <1>10, <1>11, <1>12 DEF body

LEMMA LineIs ==
  /\ Line \in Seq(Bytes)
  /\ Len(Line) = EndOf[Len(Frames)]
  /\ \A n \in Numbers : \A k \in 1..PacketSize(Frames[n]) :
       Line[EndOf[n - 1] + k] = Encode(Frames[n])[k]
<1> DEFINE N == Len(Frames)
           S == Seq(Bytes)
           start == <<>>
           E(n) == Encode(Frames[n])
           G == [n \in 1..N |-> [s \in S |-> s \o E(n)]]
           Is(f) == f = [n \in 0..N |-> IF n = 0 THEN <<>> ELSE f[n - 1] \o Encode(Frames[n])]
<1>1. N \in Nat /\ start \in S /\ Numbers = 1..N
  BY CountIs
<1>2. \A n \in 1..N : E(n) \in S /\ Len(E(n)) = PacketSize(Frames[n])
  BY <1>1, PacketSizeIs, EncodeIs
<1>3. \A s, t \in S : s \o t \in S
  OBVIOUS
<1>4. \A n \in 0..N : EndOf[n] \in Nat
  BY EndOfIs
<1>5. \A n \in 1..N : EndOf[n] = EndOf[n - 1] + PacketSize(Frames[n])
  BY <1>1, EndOfIs
<1> HIDE DEF E, S, N
<1>6. G \in [1..N -> [S -> S]]
  BY <1>2, <1>3
<1> HIDE DEF G, start
<1>7. \E f \in [0..N -> S] : f[0] = start /\ \A n \in 1..N : f[n] = G[n][f[n - 1]]
  BY ONLY <1>1, <1>6, RecursionExists
<1>8. PICK f \in [0..N -> S] : f[0] = start /\ \A n \in 1..N : f[n] = G[n][f[n - 1]]
  BY <1>7
<1>9. \A n \in 1..N : f[n - 1] \in S /\ f[n] = f[n - 1] \o E(n)
  <2>1. ASSUME NEW n \in 1..N PROVE f[n - 1] \in S
    BY <1>1, <1>8
  <2> QED BY <1>8, <2>1 DEF G
<1>10. Is(f)
  <2>1. \A n \in 0..N : f[n] = IF n = 0 THEN <<>> ELSE f[n - 1] \o Encode(Frames[n])
    <3>1. ASSUME NEW n \in 0..N, n # 0
          PROVE  n \in 1..N
      BY <1>1, <3>1
    <3> QED BY <1>8, <1>9, <3>1 DEF start, E
  <2> QED BY <1>8, <2>1
<1>11. Line = f[N]
  <2> DEFINE c == CHOOSE g : Is(g)
             T == {n \in 0..N : c[n] = f[n]}
  <2>1. Is(c)
    BY <1>10
  <2>2. Line = c[N]
    BY Zenon DEF Line, N
  <2> HIDE DEF c
  <2>3. 0 \in T
    BY <1>1, <1>8, <2>1 DEF start
  <2>4. ASSUME NEW n \in 1..N, n - 1 \in T PROVE n \in T
    <3>1. n \in 0..N /\ n # 0
      BY <1>1
    <3> QED BY <1>9, <2>1, <2>4, <3>1 DEF E
  <2> HIDE DEF T
  <2>5. 0..N \subseteq T
    BY <1>1, <2>3, <2>4, UpTo
  <2>6. N \in T
    BY <1>1, <2>5
  <2> QED BY <2>2, <2>6 DEF T
<1> DEFINE Holds(n) == /\ Len(f[n]) = EndOf[n]
                       /\ \A m \in 1..n : \A k \in 1..PacketSize(Frames[m]) :
                            f[n][EndOf[m - 1] + k] = E(m)[k]
           T == {n \in 0..N : Holds(n)}
<1>12. 0 \in T
  BY <1>1, <1>8, EndOfIs DEF start
<1>13. ASSUME NEW n \in 1..N, n - 1 \in T PROVE n \in T
  <2>1. n \in 0..N /\ n \in Nat /\ n - 1 \in 0..N /\ EndOf[n - 1] \in Nat
    BY <1>1, <1>4
  <2>2. f[n - 1] \in Seq(Bytes) /\ E(n) \in Seq(Bytes) /\ f[n] = f[n - 1] \o E(n)
    BY <1>2, <1>9 DEF S
  <2>3. /\ Len(f[n]) = Len(f[n - 1]) + Len(E(n))
        /\ \A k \in 1..Len(f[n - 1]) : f[n][k] = f[n - 1][k]
        /\ \A k \in 1..Len(E(n)) : f[n][Len(f[n - 1]) + k] = E(n)[k]
    BY ONLY <2>2, Joined
  <2>4. Holds(n - 1)
    BY <1>13
  <2>5. Len(f[n]) = EndOf[n]
    BY <1>2, <1>5, <2>3, <2>4
  <2>6. ASSUME NEW m \in 1..n, NEW k \in 1..PacketSize(Frames[m])
        PROVE  f[n][EndOf[m - 1] + k] = E(m)[k]
    <3>1. CASE m = n
      BY <1>2, <2>3, <2>4, <3>1
    <3>2. CASE m # n
      <4>1. m \in 1..n - 1 /\ m \in 1..N /\ m \in Nat
        BY <1>1, <2>1, <3>2
      <4>2. PacketSize(Frames[m]) \in Nat /\ EndOf[m - 1] \in Nat
        BY <1>1, <1>4, <4>1, PacketSizeIs
      <4>3. EndOf[m] <= EndOf[n - 1]
        <5>1. m \in 0..N /\ n - 1 \in 0..N /\ EndOf[m] \in Nat /\ EndOf[n - 1] \in Nat
          BY <1>1, <1>4, <2>1, <4>1
        <5>2. m = n - 1 \/ m < n - 1
          BY <2>1, <4>1
        <5>3. m < n - 1 => EndOf[m] + 11 <= EndOf[n - 1]
          BY <5>1, EndOfGrows DEF N
        <5> QED BY <5>1, <5>2, <5>3
      <4>4. EndOf[m - 1] + k \in 1..Len(f[n - 1])
        BY <1>5, <2>1, <2>4, <4>1, <4>2, <4>3
      <4> QED BY <2>3, <2>4, <4>1, <4>4
    <3> QED BY <3>1, <3>2
  <2> QED BY <2>1, <2>5, <2>6
<1> HIDE DEF T, Holds
<1>14. 0..N \subseteq T
  BY <1>1, <1>12, <1>13, UpTo
<1>15. N \in T /\ N \in 0..N
  BY <1>1, <1>14
<1>16. Holds(N)
  BY <1>15 DEF T
<1>17. f[N] \in S
  BY <1>8, <1>15
<1> QED BY <1>1, <1>11, <1>16, <1>17 DEF Holds, S, E, N

LEMMA EndsInLine ==
  ASSUME NEW n \in 0..Len(Frames)
  PROVE  EndOf[n] \in 0..Len(Line)
<1>1. Len(Frames) \in 0..Len(Frames) /\ n <= Len(Frames) /\ EndOf[n] \in Nat
  BY CountIs, EndOfIs
<1>2. EndOf[n] <= EndOf[Len(Frames)]
  <2>1. CASE n = Len(Frames)
    BY <1>1, <2>1, EndOfIs
  <2>2. CASE n # Len(Frames)
    <3>1. n < Len(Frames)
      BY <1>1, <2>2, CountIs
    <3> QED BY <1>1, <3>1, EndOfGrows, EndOfIs
  <2> QED BY <2>1, <2>2
<1> QED BY <1>1, <1>2, LineIs, EndOfIs

LEMMA ParseOK ==
  ASSUME NEW p, ParserOK(p), NEW data \in Seq(Bytes), NEW r, r = ParseNextPacket(p, data)
  PROVE  ParserOK(r.parser) /\ r.packets \in Seq(Packets) /\ r.consumed \in 0..Len(data)
<1>1. PICK f \in [0..Len(data) -> Runs(Len(data))] :
        ParseNextPacket(p, data) = f[Len(data)]
  BY ParseRuns
<1>2. r \in Runs(Len(data))
  BY <1>1
<1> QED BY <1>2 DEF Runs

LEMMA CutIs ==
  ASSUME NEW S, NEW s \in Seq(S), NEW i \in Nat, NEW j \in Nat, i <= j, j <= Len(s)
  PROVE  /\ SubSeq(s, i + 1, j) \in Seq(S)
         /\ Len(SubSeq(s, i + 1, j)) = j - i
         /\ \A k \in 1..j - i : SubSeq(s, i + 1, j)[k] = s[i + k]
OBVIOUS

-----------------------------------------------------------------------------
(* Types. *)

Labels == {"idle", "wait", "done", "stop_check", "stop_timer", "stop_flag",
           "start_check", "start_timer", "start_flag", "parse", "callback"}

TypesHold == TypeOK /\ ParserOK(parser)

LEMMA TypesInit == Init => TypesHold
<1> SUFFICES ASSUME Init PROVE TypesHold
  OBVIOUS
<1>1. LineTypeOK
  <2>1. Len(Line) \in Nat
    BY LineIs
  <2> QED BY <2>1 DEF Init, LineTypeOK
<1>2. ParserOK(parser)
  <2>1. <<>> \in Seq(Bytes) /\ Len(<<>>) = 0 /\ 0 \in Bytes /\ 0 \in Words /\ VER1 \in Bytes
    BY RangeIs DEF VER1
  <2>2. parser = ParserInit
    BY DEF Init
  <2>3. ParserInit \in Parsers
    BY <2>1 DEF Parsers, ParserInit, States
  <2>4. /\ ParserInit.state = "WAIT_HEADER_0" /\ ParserInit.payload_len = 0
        /\ ParserInit.payload = <<>>
    BY DEF ParserInit
  <2> QED BY <2>1, <2>2, <2>3, <2>4, MaxPayloadIs DEF ParserOK
<1>3. ParserTypeOK
  <2>1. chunk = <<>> /\ delivered = <<>> /\ Len(Line) \in Nat
    BY LineIs DEF Init
  <2>2. chunk \in Seq(Bytes) /\ Len(chunk) <= Len(Line) /\ delivered \in Seq(Packets)
    BY <2>1
  <2> QED BY <1>2, <2>2 DEF ParserTypeOK, ParserOK, Parsers
<1>4. TaskTypeOK
  BY DEF Init, TaskTypeOK, Tasks
<1> QED BY <1>1, <1>2, <1>3, <1>4 DEF TypesHold, TypeOK

LEMMA GotoOK ==
  ASSUME TaskTypeOK, NEW t \in Tasks, NEW label \in Labels, Goto(t, label)
  PROVE  tpc' \in [Tasks -> Labels]
BY DEF TaskTypeOK, Goto, Labels

Flagged == raced' = (raced \/ Racing') /\ UNCHANGED paced

LEMMA NextCases ==
  ASSUME Next
  PROVE  \/ Finished
         \/ /\ Flagged
            /\ \/ \E n \in Nat \ {0} : Receive(n) \/ Lose(n)
               \/ \E t \in Tasks : TimerStep(t)
               \/ Parse \/ Wake \/ Timeout \/ Alarm
<1>1. "rx" \in Tasks /\ "watchdog" \in Tasks /\ "start" \in Tasks
  BY DEF Tasks
<1>2. PacedChunks \subseteq Nat \ {0} /\ Chunks \subseteq Nat \ {0}
  BY RxPathAssumption
<1>3. (IF paced THEN PacedChunks ELSE Chunks) \subseteq Nat \ {0}
  BY <1>2
<1> QED BY <1>1, <1>3, Zenon DEF Next, Flagged, RxStep, WatchdogStep, StartStep

LEMMA FlaggedIs ==
  ASSUME Flagged
  PROVE  (paced \in BOOLEAN => paced' \in BOOLEAN) /\ raced' \in BOOLEAN /\ paced' = paced
         /\ (~raced' => ~raced /\ ~Racing')
<1>1. raced' \in BOOLEAN
  BY Zenon DEF Flagged
<1>2. ~raced' => ~raced /\ ~Racing'
  BY Zenon DEF Flagged
<1>3. paced' = paced
  BY DEF Flagged
<1> QED BY <1>1, <1>2, <1>3

(* The chunk that is read or lost. *)
LEMMA ReachesIs ==
  ASSUME LineTypeOK, NEW n \in Nat \ {0}, NEW end \in Boundary \cup {pos + n}, Reaches(n, end)
  PROVE  pos \in Nat /\ end \in Nat /\ pos < end /\ end <= Len(Line)
<1>1. pos \in Nat
  <2>1. Len(Line) \in Nat
    BY LineIs
  <2> QED BY <2>1 DEF LineTypeOK
<1>2. pos < end /\ end <= Len(Line)
  BY LineIs DEF Reaches
<1>3. end \in Nat
  BY <1>1, EndOfIs DEF Boundary
<1> QED BY <1>1, <1>2, <1>3

LEMMA TypesKept ==
  ASSUME TypesHold, Next
  PROVE  TypesHold'
<1>0. /\ ParserOK(parser) /\ LineTypeOK /\ ParserTypeOK /\ TaskTypeOK
      /\ Len(Line) \in Nat
  BY LineIs DEF TypesHold, TypeOK
<1>1. CASE Finished
  BY <1>0, <1>1 DEF Finished, vars, pathVars, lineVars, parserVars, timerVars, TypesHold, TypeOK,
                    LineTypeOK, ParserTypeOK, TaskTypeOK
<1> SUFFICES ASSUME Flagged,
                    \/ \E n \in Nat \ {0} : Receive(n) \/ Lose(n)
                    \/ \E t \in Tasks : TimerStep(t)
                    \/ Parse \/ Wake \/ Timeout \/ Alarm
             PROVE  ParserOK(parser)' /\ LineTypeOK' /\ ParserTypeOK' /\ TaskTypeOK'
  BY <1>1, NextCases DEF TypesHold, TypeOK
<1>2. (UNCHANGED parserVars) => ParserOK(parser)' /\ ParserTypeOK'
  BY <1>0 DEF parserVars, ParserTypeOK
<1>3. UNCHANGED lineVars => LineTypeOK'
  BY <1>0 DEF lineVars, LineTypeOK
<1>4. /\ armed \in BOOLEAN /\ running \in BOOLEAN /\ notified \in BOOLEAN /\ reset \in BOOLEAN
      /\ timer \in {"enabled", "run"} /\ tpc \in [Tasks -> Labels]
  BY <1>0 DEF TaskTypeOK, Labels
<1>5. /\ armed' \in BOOLEAN /\ running' \in BOOLEAN /\ notified' \in BOOLEAN /\ reset' \in BOOLEAN
      /\ timer' \in {"enabled", "run"} /\ tpc' \in [Tasks -> Labels]
      => TaskTypeOK'
  BY <1>0, FlaggedIs DEF TaskTypeOK, Labels
<1>6. \A t, label : label \in Labels /\ Goto(t, label) => tpc' \in [Tasks -> Labels]
  BY <1>4 DEF Goto
<1>7. UNCHANGED timerVars =>
        armed' = armed /\ running' = running /\ notified' = notified /\ timer' = timer
  BY DEF timerVars
<1>8. UNCHANGED parserVars => reset' = reset
  BY DEF parserVars
<1>9. {"idle", "wait", "done", "stop_check", "stop_timer", "stop_flag",
       "start_check", "start_timer", "start_flag", "parse", "callback"} = Labels
  BY DEF Labels
<1>10. ASSUME NEW n \in Nat \ {0}, Receive(n)
       PROVE  ParserOK(parser)' /\ LineTypeOK' /\ ParserTypeOK' /\ TaskTypeOK'
  <2>1. PICK end \in Boundary \cup {pos + n} :
          Reaches(n, end) /\ pos' = end /\ chunk' = SubSeq(Line, pos + 1, end)
    BY <1>10 DEF Receive
  <2>2. /\ Goto("rx", "stop_check")
        /\ UNCHANGED <<damaged, losses, parser, delivered, reset, timerVars>>
    BY <1>10 DEF Receive
  <2>3. pos \in Nat /\ end \in Nat /\ pos < end /\ end <= Len(Line)
    BY <1>0, <2>1, ReachesIs
  <2>4. chunk' \in Seq(Bytes) /\ Len(chunk') <= Len(Line)
    <3>1. Line \in Seq(Bytes) /\ pos <= end
      BY <2>3, LineIs
    <3>2. chunk' \in Seq(Bytes) /\ Len(chunk') = end - pos
      BY <2>1, <2>3, <3>1, CutIs
    <3> QED BY <2>3, <3>2
  <2>5. LineTypeOK'
    BY <1>0, <2>1, <2>2, <2>3 DEF LineTypeOK
  <2>6. ParserOK(parser)' /\ ParserTypeOK'
    BY <1>0, <2>2, <2>4 DEF ParserTypeOK
  <2>7. TaskTypeOK'
    BY <1>4, <1>5, <1>6, <1>7, <2>2 DEF Labels
  <2> QED BY <2>5, <2>6, <2>7
<1>11. ASSUME NEW n \in Nat \ {0}, Lose(n)
       PROVE  ParserOK(parser)' /\ LineTypeOK' /\ ParserTypeOK' /\ TaskTypeOK'
  <2>1. PICK end \in Boundary \cup {pos + n} :
          Reaches(n, end) /\ pos' = end /\ damaged' = damaged \cup Touched(pos + 1, end)
    BY <1>11 DEF Lose
  <2>2. losses' = losses + 1 /\ UNCHANGED <<parserVars, timerVars, tpc>>
    BY <1>11 DEF Lose
  <2>3. pos \in Nat /\ end \in Nat /\ pos < end /\ end <= Len(Line)
    BY <1>0, <2>1, ReachesIs
  <2>4. LineTypeOK'
    BY <1>0, <2>1, <2>2, <2>3 DEF LineTypeOK, Touched
  <2> QED BY <1>2, <1>4, <1>5, <1>7, <1>8, <2>2, <2>4
<1>12. ASSUME NEW t \in Tasks, TimerStep(t)
       PROVE  ParserOK(parser)' /\ LineTypeOK' /\ ParserTypeOK' /\ TaskTypeOK'
  <2>1. UNCHANGED <<lineVars, parserVars>> /\ notified' = notified
    BY <1>12 DEF TimerStep, StopCheck, StopTimer, StopFlag, StartCheck, StartTimer, StartFlag, timerVars
  <2>2. armed' \in BOOLEAN
    BY <1>4, <1>12 DEF TimerStep, StopCheck, StopTimer, StopFlag, StartCheck, StartTimer, StartFlag, timerVars
  <2>3. running' \in BOOLEAN
    BY <1>4, <1>12 DEF TimerStep, StopCheck, StopTimer, StopFlag, StartCheck, StartTimer, StartFlag, timerVars
  <2>4. timer' \in {"enabled", "run"}
    BY <1>4, <1>12 DEF TimerStep, StopCheck, StopTimer, StopFlag, StartCheck, StartTimer, StartFlag, timerVars
  <2>5. \E label \in Labels : Goto(t, label)
    <3>1. \A label : label \in {"stop_timer", "stop_flag", "start_timer", "start_flag", "callback",
                                "start_check", "parse", "done"} => label \in Labels
      BY DEF Labels
    <3>2. AfterStop(t) => Goto(t, "callback") \/ Goto(t, "start_check")
      BY DEF AfterStop
    <3>3. AfterStart(t) => Goto(t, "parse") \/ Goto(t, "done")
      BY DEF AfterStart
    <3> QED BY <1>12, <3>1, <3>2, <3>3
            DEF TimerStep, StopCheck, StopTimer, StopFlag, StartCheck, StartTimer, StartFlag
  <2>6. tpc' \in [Tasks -> Labels]
    BY <1>6, <2>5
  <2> QED BY <1>2, <1>3, <1>4, <1>5, <1>8, <2>1, <2>2, <2>3, <2>4, <2>6
<1>13. CASE Parse
  <2> DEFINE r == ParseNextPacket(parser, chunk)
  <2>1. /\ parser' = r.parser /\ delivered' = delivered \o r.packets
        /\ chunk' = SubSeq(chunk, r.consumed + 1, Len(chunk))
        /\ UNCHANGED <<lineVars, reset, timerVars>>
    BY <1>13 DEF Parse
  <2>2. tpc' \in [Tasks -> Labels]
    BY <1>4, <1>6, <1>13 DEF Parse, Labels
  <2>3. chunk \in Seq(Bytes) /\ delivered \in Seq(Packets) /\ Len(chunk) <= Len(Line)
    BY <1>0 DEF ParserTypeOK
  <2>4. ParserOK(r.parser) /\ r.packets \in Seq(Packets) /\ r.consumed \in 0..Len(chunk)
    BY <1>0, <2>3, ParseOK
  <2> HIDE DEF r
  <2>5. chunk' \in Seq(Bytes) /\ Len(chunk') <= Len(Line)
    <3>1. r.consumed \in Nat /\ Len(chunk) \in Nat /\ r.consumed <= Len(chunk)
      BY <2>3, <2>4
    <3>2. chunk' \in Seq(Bytes) /\ Len(chunk') = Len(chunk) - r.consumed
      BY <2>1, <2>3, <3>1, CutIs
    <3> QED BY <1>0, <2>3, <3>1, <3>2
  <2>6. delivered' \in Seq(Packets)
    BY <2>1, <2>3, <2>4
  <2>7. ParserOK(parser)' /\ ParserTypeOK'
    BY <2>1, <2>4, <2>5, <2>6 DEF ParserTypeOK, ParserOK, Parsers
  <2> QED BY <1>3, <1>4, <1>5, <1>7, <2>1, <2>2, <2>7
<1>14. CASE Wake
  BY <1>2, <1>3, <1>4, <1>5, <1>6, <1>8, <1>9, <1>14 DEF Wake
<1>15. CASE Timeout
  <2>1. parser' = parser \/ parser' = ParserReset(parser)
    BY <1>15 DEF Timeout
  <2>2. /\ UNCHANGED <<lineVars, chunk, delivered, timerVars>> /\ Goto("watchdog", "wait")
        /\ reset' = TRUE \/ reset' = reset
    BY <1>15 DEF Timeout
  <2>3. ParserOK(parser)'
    BY <1>0, <2>1, ResetOK DEF ParserOK
  <2>4. ParserTypeOK'
    BY <1>0, <2>2, <2>3 DEF ParserTypeOK, ParserOK, Parsers
  <2> QED BY <1>3, <1>4, <1>5, <1>6, <1>7, <1>9, <2>2, <2>3, <2>4
<1>16. CASE Alarm
  BY <1>2, <1>3, <1>4, <1>5, <1>8, <1>16 DEF Alarm
<1> QED BY <1>10, <1>11, <1>12, <1>13, <1>14, <1>15, <1>16

(* Every variable has its type. *)
THEOREM TypeCorrect == Spec => []TypeOK
<1>1. TypesHold /\ [Next]_vars => TypesHold'
  <2>1. TypesHold /\ UNCHANGED vars => TypesHold'
    BY DEF vars, pathVars, lineVars, parserVars, timerVars, TypesHold, TypeOK,
           LineTypeOK, ParserTypeOK, TaskTypeOK
  <2> QED BY <2>1, TypesKept
<1>2. TypesHold => TypeOK
  BY DEF TypesHold
<1> QED BY <1>1, <1>2, TypesInit, PTL DEF Spec

-----------------------------------------------------------------------------
(* The timer: what flag, driver and notification have to do with each      *)
(* other while no two tasks are at it at once.                             *)

(* A timeout will be handled. *)
Coming == (timer = "run" /\ armed) \/ notified

Places ==
  /\ tpc["rx"] \notin {"wait", "done", "callback"}
  /\ tpc["watchdog"] \in {"wait", "stop_check", "stop_timer", "stop_flag", "callback"}
  /\ tpc["start"] \in {"start_check", "start_timer", "start_flag", "done"}

(* The flag says what the timer does, but while a task is between the two. *)
FlagAgrees ==
  \/ \E t \in Tasks : tpc[t] = "stop_flag" /\ timer = "enabled" /\ running
  \/ \E t \in Tasks : tpc[t] = "start_flag" /\ timer = "run" /\ ~running
  \/ /\ \A t \in Tasks : tpc[t] \notin {"stop_flag", "start_flag"}
     /\ running <=> timer = "run"

(* What a task has read of the flag still holds. *)
PlaceAgrees ==
  /\ \A t \in Tasks : tpc[t] = "stop_timer" => running
  /\ \A t \in Tasks : tpc[t] = "start_timer" => ~running
  /\ tpc["rx"] = "start_check" => ~running

(* Bytes are never parsed without a timeout to come, and a partial packet *)
(* is left with one. *)
Kicked ==
  /\ tpc["rx"] \in {"start_flag", "parse"} => Coming
  /\ tpc["start"] # "done" => tpc["rx"] = "idle" /\ parser.state = "WAIT_HEADER_0"
  /\ tpc["rx"] = "idle" /\ parser.state # "WAIT_HEADER_0" =>
       Coming \/ tpc["watchdog"] # "wait"

(* On a paced line the watchdog works in the pauses only. *)
Paced ==
  /\ tpc["watchdog"] # "wait" \/ notified => pos \in Boundary /\ tpc["rx"] = "idle"
  /\ tpc["start"] \in {"start_check", "start_timer"} =>
       tpc["watchdog"] = "wait" /\ ~notified /\ timer = "enabled"
  /\ tpc["start"] # "done" => pos = 0 /\ tpc["rx"] = "idle"
  /\ tpc["start"] = "start_flag" => tpc["watchdog"] \in {"wait", "stop_check", "callback"}
  /\ tpc["start"] # "done" => ~running

TimerHolds ==
  /\ Places
  /\ ~raced => ~Racing
  /\ ~raced \/ paced => FlagAgrees /\ PlaceAgrees /\ Kicked
  /\ paced => Paced

LEMMA TimerInit == Init => TimerHolds
<1> SUFFICES ASSUME Init PROVE TimerHolds
  OBVIOUS
<1>1. tpc["rx"] = "idle" /\ tpc["watchdog"] = "wait" /\ tpc["start"] = "start_check"
  BY DEF Init, Tasks
<1>2. \A t \in Tasks : tpc[t] \in {"idle", "wait", "start_check"}
  BY <1>1 DEF Tasks
<1>3. Places
  BY <1>1 DEF Places
<1>4. ~Racing
  BY <1>1 DEF Racing, InTimer, Tasks
<1>5. timer = "enabled" /\ running = FALSE /\ notified = FALSE /\ pos = 0
      /\ parser.state = "WAIT_HEADER_0"
  BY DEF Init, ParserInit
<1>6. FlagAgrees
  BY <1>2, <1>5 DEF FlagAgrees
<1>7. PlaceAgrees
  BY <1>1, <1>2, <1>5 DEF PlaceAgrees
<1>8. Kicked
  BY <1>1, <1>5 DEF Kicked
<1>9. Paced
  BY <1>1, <1>5 DEF Paced
<1> QED BY <1>3, <1>4, <1>6, <1>7, <1>8, <1>9 DEF TimerHolds

(* The steps of the timer, all in one. *)
Moves(t) ==
  /\ tpc' \in [Tasks -> Labels] /\ \A u \in Tasks : u # t => tpc'[u] = tpc[u]
  /\ UNCHANGED <<lineVars, parserVars, notified>>
  /\ \/ /\ tpc[t] = "stop_check" /\ tpc'[t] = "stop_timer" /\ running
        /\ UNCHANGED <<timer, armed, running>>
     \/ /\ tpc[t] = "stop_check" /\ ~running
        /\ tpc'[t] = IF t = "watchdog" THEN "callback" ELSE "start_check"
        /\ UNCHANGED <<timer, armed, running>>
     \/ /\ tpc[t] = "stop_timer" /\ tpc'[t] = "stop_flag" /\ timer' = "enabled"
        /\ UNCHANGED <<armed, running>>
     \/ /\ tpc[t] = "stop_flag" /\ running' = FALSE
        /\ tpc'[t] = IF t = "watchdog" THEN "callback" ELSE "start_check"
        /\ UNCHANGED <<timer, armed>>
     \/ /\ tpc[t] = "start_check" /\ running
        /\ tpc'[t] = IF t = "rx" THEN "parse" ELSE "done"
        /\ UNCHANGED <<timer, armed, running>>
     \/ /\ tpc[t] = "start_check" /\ ~running /\ tpc'[t] = "start_timer"
        /\ UNCHANGED <<timer, armed, running>>
     \/ /\ tpc[t] = "start_timer" /\ timer = "enabled"
        /\ timer' = "run" /\ armed' = TRUE /\ tpc'[t] = "start_flag"
        /\ UNCHANGED running
     \/ /\ tpc[t] = "start_timer" /\ timer # "enabled"
        /\ tpc'[t] = IF t = "rx" THEN "parse" ELSE "done"
        /\ UNCHANGED <<timer, armed, running>>
     \/ /\ tpc[t] = "start_flag" /\ running' = TRUE
        /\ tpc'[t] = IF t = "rx" THEN "parse" ELSE "done"
        /\ UNCHANGED <<timer, armed>>

LEMMA TimerStepIs ==
  ASSUME NEW t \in Tasks, TimerStep(t), TaskTypeOK
  PROVE  Moves(t)
<1>1. tpc \in [Tasks -> Labels]
  BY DEF TaskTypeOK, Labels
<1>2. \A label : Goto(t, label) => tpc'[t] = label /\ \A u \in Tasks : u # t => tpc'[u] = tpc[u]
  BY <1>1 DEF Goto
<1>3. \A label \in Labels : Goto(t, label) => tpc' \in [Tasks -> Labels]
  BY <1>1 DEF Goto
<1>4. AfterStop(t) => /\ tpc'[t] = IF t = "watchdog" THEN "callback" ELSE "start_check"
                      /\ tpc' \in [Tasks -> Labels] /\ \A u \in Tasks : u # t => tpc'[u] = tpc[u]
  <2>1. "callback" \in Labels /\ "start_check" \in Labels
    BY DEF Labels
  <2> QED BY <1>2, <1>3, <2>1 DEF AfterStop
<1>5. AfterStart(t) => /\ tpc'[t] = IF t = "rx" THEN "parse" ELSE "done"
                       /\ tpc' \in [Tasks -> Labels] /\ \A u \in Tasks : u # t => tpc'[u] = tpc[u]
  <2>1. "parse" \in Labels /\ "done" \in Labels
    BY DEF Labels
  <2> QED BY <1>2, <1>3, <2>1 DEF AfterStart
<1>6. /\ "stop_timer" \in Labels /\ "stop_flag" \in Labels
      /\ "start_timer" \in Labels /\ "start_flag" \in Labels
  BY DEF Labels
<1>7. CASE StopCheck(t)
  BY <1>2, <1>3, <1>4, <1>6, <1>7 DEF StopCheck, timerVars, Moves
<1>8. CASE StopTimer(t)
  BY <1>2, <1>3, <1>6, <1>8 DEF StopTimer, Moves
<1>9. CASE StopFlag(t)
  BY <1>4, <1>9 DEF StopFlag, Moves
<1>10. CASE StartCheck(t)
  BY <1>2, <1>3, <1>5, <1>6, <1>10 DEF StartCheck, timerVars, Moves
<1>11. CASE StartTimer(t)
  BY <1>2, <1>3, <1>5, <1>6, <1>11 DEF StartTimer, Moves
<1>12. CASE StartFlag(t)
  BY <1>5, <1>12 DEF StartFlag, Moves
<1> QED BY <1>7, <1>8, <1>9, <1>10, <1>11, <1>12 DEF TimerStep

(* Who is at the timer leaves the others out of it; the watchdog may look  *)
(* at the flag before start() has set it.                                  *)
Apart ==
  /\ InTimer("rx") => ~InTimer("watchdog") /\ ~InTimer("start")
  /\ InTimer("watchdog") =>
       /\ tpc["rx"] # "parse"
       /\ InTimer("start") => tpc["start"] = "start_flag" /\ tpc["watchdog"] = "stop_check"

LEMMA PlacesKept ==
  ASSUME TaskTypeOK, Places, Next
  PROVE  Places'
<1>0. /\ "rx" \in Tasks /\ "watchdog" \in Tasks /\ "start" \in Tasks
      /\ \A t \in Tasks : t \in {"rx", "watchdog", "start"}
      /\ tpc \in [Tasks -> Labels]
  BY DEF Tasks, TaskTypeOK, Labels
<1>1. UNCHANGED tpc => Places'
  BY DEF Places
<1>2. CASE Finished
  BY <1>1, <1>2 DEF Finished, vars, pathVars
<1>3. ASSUME NEW n, Receive(n) \/ Lose(n)
      PROVE  Places'
  BY <1>0, <1>1, <1>3 DEF Receive, Lose, Goto, Places
<1>4. ASSUME NEW t \in Tasks, Moves(t)
      PROVE  Places'
  BY <1>0, <1>4 DEF Moves, Places
<1>5. CASE Parse
  BY <1>0, <1>1, <1>5 DEF Parse, Goto, Places
<1>6. CASE Wake \/ Timeout
  BY <1>0, <1>6 DEF Wake, Timeout, Goto, Places
<1>7. CASE Alarm
  BY <1>1, <1>7 DEF Alarm
<1> QED BY <1>2, <1>3, <1>4, <1>5, <1>6, <1>7, NextCases, TimerStepIs

LEMMA PacedKept ==
  ASSUME TaskTypeOK, Places, paced, Paced, Next
  PROVE  Paced'
<1>0. /\ "rx" \in Tasks /\ "watchdog" \in Tasks /\ "start" \in Tasks
      /\ \A t \in Tasks : t \in {"rx", "watchdog", "start"}
      /\ tpc \in [Tasks -> Labels]
  BY DEF Tasks, TaskTypeOK, Labels
<1>2. CASE Finished
  BY <1>2 DEF Finished, vars, pathVars, lineVars, timerVars, Paced, Boundary
<1>3. ASSUME NEW n, Receive(n) \/ Lose(n)
      PROVE  Paced'
  <2>1. \E end : Reaches(n, end)
    BY <1>3 DEF Receive, Lose
  <2>2. tpc["start"] = "done" /\ (pos \in Boundary => Quiet) /\ tpc["rx"] = "idle"
    BY <2>1 DEF Reaches
  <2>3. tpc["watchdog"] = "wait" /\ ~notified
    BY <2>2 DEF Paced, Quiet
  <2>4. tpc'["start"] = "done" /\ tpc'["watchdog"] = "wait" /\ notified' = notified
    BY <1>0, <1>3, <2>2, <2>3 DEF Receive, Lose, Goto, timerVars
  <2> QED BY <2>3, <2>4 DEF Paced
<1>4. ASSUME NEW t \in Tasks, Moves(t)
      PROVE  Paced'
  <2>1. pos' = pos /\ notified' = notified
    BY <1>4 DEF Moves, lineVars
  <2>2. CASE t = "rx"
    BY <1>0, <1>4, <2>1, <2>2 DEF Moves, Paced, Boundary
  <2>3. CASE t = "watchdog"
    BY <1>0, <1>4, <2>1, <2>3 DEF Moves, Paced, Boundary, Places
  <2>4. CASE t = "start"
    BY <1>0, <1>4, <2>1, <2>4 DEF Moves, Paced, Boundary, Places
  <2> QED BY <1>0, <2>2, <2>3, <2>4
<1>5. CASE Parse
  BY <1>0, <1>5 DEF Parse, Goto, Paced, Boundary, lineVars, timerVars
<1>6. CASE Wake
  BY <1>0, <1>6 DEF Wake, Goto, Paced, Boundary, lineVars
<1>7. CASE Timeout
  BY <1>0, <1>7 DEF Timeout, Goto, Paced, Boundary, lineVars, timerVars
<1>8. CASE Alarm
  BY <1>0, <1>8 DEF Alarm, Paced, Boundary, lineVars
<1> QED BY <1>2, <1>3, <1>4, <1>5, <1>6, <1>7, <1>8, NextCases, TimerStepIs

LEMMA CalmKept ==
  ASSUME TypesHold, TimerHolds, Next, Places', paced => Paced', paced' = paced,
         ~raced' \/ paced, ~raced' => ~raced /\ ~Racing'
  PROVE  (FlagAgrees /\ PlaceAgrees /\ Kicked)'
<1>0. /\ "rx" \in Tasks /\ "watchdog" \in Tasks /\ "start" \in Tasks
      /\ "rx" # "watchdog" /\ "rx" # "start" /\ "watchdog" # "start"
      /\ \A t \in Tasks : t \in {"rx", "watchdog", "start"}
  BY DEF Tasks
<1>1. /\ TaskTypeOK /\ ParserOK(parser) /\ tpc \in [Tasks -> Labels]
      /\ timer \in {"enabled", "run"}
  BY DEF TypesHold, TypeOK, TaskTypeOK, Labels
<1>2. Places /\ FlagAgrees /\ PlaceAgrees /\ Kicked /\ (paced => Paced) /\ (~raced => ~Racing)
  BY DEF TimerHolds
<1>3. Apart
  <2>1. CASE ~Racing
    BY <1>0, <1>2, <2>1 DEF Racing, Apart
  <2>2. CASE paced
    BY <1>2, <2>2 DEF Paced, Places, Apart, InTimer
  <2> QED BY <1>2, <2>1, <2>2
<1>4. Apart'
  <2>1. CASE ~Racing'
    BY <1>0, <1>2, <2>1 DEF Racing, Apart
  <2>2. CASE paced
    BY <2>2 DEF Paced, Places, Apart, InTimer
  <2> QED BY <2>1, <2>2
<1>5. UNCHANGED <<timer, running, tpc>> => (FlagAgrees /\ PlaceAgrees)'
  BY <1>2 DEF FlagAgrees, PlaceAgrees
<1>6. UNCHANGED <<timer, armed, notified, tpc, parser>> => Kicked'
  BY <1>2 DEF Kicked, Coming
<1>7. CASE Finished
  BY <1>5, <1>6, <1>7 DEF Finished, vars, pathVars, timerVars, parserVars
<1>8. ASSUME NEW n, Receive(n)
      PROVE  (FlagAgrees /\ PlaceAgrees /\ Kicked)'
  <2>1. /\ tpc["rx"] = "idle" /\ tpc'["rx"] = "stop_check"
        /\ tpc'["watchdog"] = tpc["watchdog"] /\ tpc'["start"] = tpc["start"]
        /\ UNCHANGED <<timer, armed, running, notified, parser>>
    BY <1>0, <1>1, <1>8 DEF Receive, Reaches, Goto, timerVars
  <2>2. FlagAgrees'
    BY <1>0, <1>2, <2>1 DEF FlagAgrees
  <2>3. PlaceAgrees'
    BY <1>0, <1>2, <2>1 DEF PlaceAgrees
  <2>4. tpc["start"] = "done"
    BY <1>4, <2>1, <1>2, Places' DEF Apart, InTimer, Places
  <2>5. Kicked'
    BY <2>1, <2>4 DEF Kicked
  <2> QED BY <2>2, <2>3, <2>5
<1>9. ASSUME NEW n, Lose(n)
      PROVE  (FlagAgrees /\ PlaceAgrees /\ Kicked)'
  BY <1>5, <1>6, <1>9 DEF Lose, parserVars, timerVars
<1>10. ASSUME NEW t \in Tasks, Moves(t)
       PROVE  (FlagAgrees /\ PlaceAgrees /\ Kicked)'
  <2>1. parser' = parser /\ notified' = notified
    BY <1>10 DEF Moves, parserVars
  <2>2. CASE t = "rx"
    <3>1. tpc'["watchdog"] = tpc["watchdog"] /\ tpc'["start"] = tpc["start"]
      BY <1>0, <1>10, <2>2 DEF Moves
    <3>2. FlagAgrees'
      BY <1>0, <1>1, <1>2, <1>3, <1>10, <2>2, <3>1 DEF Moves, FlagAgrees, PlaceAgrees, Apart, InTimer, Places
    <3>3. PlaceAgrees'
      BY <1>0, <1>1, <1>2, <1>3, <1>10, <2>2, <3>1 DEF Moves, FlagAgrees, PlaceAgrees, Apart, InTimer, Places
    <3>4. Kicked'
      BY <1>0, <1>1, <1>2, <1>3, <1>10, <2>1, <2>2, <3>1 DEF Moves, FlagAgrees, PlaceAgrees, Apart, InTimer, Places, Kicked, Coming
    <3> QED BY <3>2, <3>3, <3>4
  <2>3. CASE t = "watchdog"
    <3>1. tpc'["rx"] = tpc["rx"] /\ tpc'["start"] = tpc["start"]
      BY <1>0, <1>10, <2>3 DEF Moves
    <3>2. FlagAgrees'
      BY <1>0, <1>1, <1>2, <1>3, <1>10, <2>3, <3>1 DEF Moves, FlagAgrees, PlaceAgrees, Apart, InTimer, Places
    <3>3. PlaceAgrees'
      BY <1>0, <1>1, <1>2, <1>3, <1>10, <2>3, <3>1 DEF Moves, FlagAgrees, PlaceAgrees, Apart, InTimer, Places
    <3>4. Kicked'
      BY <1>0, <1>1, <1>2, <1>3, <1>10, <2>1, <2>3, <3>1 DEF Moves, FlagAgrees, PlaceAgrees, Apart, InTimer, Places, Kicked, Coming
    <3> QED BY <3>2, <3>3, <3>4
  <2>4. CASE t = "start"
    <3>1. tpc'["rx"] = tpc["rx"] /\ tpc'["watchdog"] = tpc["watchdog"]
      BY <1>0, <1>10, <2>4 DEF Moves
    <3>2. FlagAgrees'
      BY <1>0, <1>1, <1>2, <1>3, <1>10, <2>4, <3>1 DEF Moves, FlagAgrees, PlaceAgrees, Apart, InTimer, Places
    <3>3. PlaceAgrees'
      BY <1>0, <1>1, <1>2, <1>3, <1>10, <2>4, <3>1 DEF Moves, FlagAgrees, PlaceAgrees, Apart, InTimer, Places
    <3>4. Kicked'
      BY <1>0, <1>1, <1>2, <1>3, <1>10, <2>1, <2>4, <3>1 DEF Moves, FlagAgrees, PlaceAgrees, Apart, InTimer, Places, Kicked, Coming
    <3> QED BY <3>2, <3>3, <3>4
  <2> QED BY <1>0, <2>2, <2>3, <2>4
<1>11. CASE Parse
  <2>1. /\ tpc["rx"] = "parse" /\ tpc'["rx"] \in {"idle", "parse"}
        /\ tpc'["watchdog"] = tpc["watchdog"] /\ tpc'["start"] = tpc["start"]
        /\ UNCHANGED <<timer, armed, running, notified>>
    BY <1>0, <1>1, <1>11 DEF Parse, Goto, timerVars
  <2>2. FlagAgrees'
    BY <1>0, <1>2, <2>1 DEF FlagAgrees
  <2>3. PlaceAgrees'
    BY <1>0, <1>2, <2>1 DEF PlaceAgrees
  <2>4. Coming /\ tpc["start"] = "done"
    BY <1>2, <2>1 DEF Kicked
  <2>5. Kicked'
    BY <2>1, <2>4 DEF Kicked, Coming
  <2> QED BY <2>2, <2>3, <2>5
<1>12. CASE Wake
  <2>1. /\ tpc["watchdog"] = "wait" /\ tpc'["watchdog"] = "stop_check"
        /\ tpc'["rx"] = tpc["rx"] /\ tpc'["start"] = tpc["start"]
        /\ UNCHANGED <<timer, armed, running, parser>>
    BY <1>0, <1>1, <1>12 DEF Wake, Goto, parserVars
  <2>2. FlagAgrees'
    BY <1>0, <1>2, <2>1 DEF FlagAgrees
  <2>3. PlaceAgrees'
    BY <1>0, <1>2, <2>1 DEF PlaceAgrees
  <2>4. tpc["rx"] = "idle"
    BY <1>4, <2>1, Places' DEF Apart, InTimer, Places
  <2>5. Kicked'
    BY <1>2, <2>1, <2>4 DEF Kicked
  <2> QED BY <2>2, <2>3, <2>5
<1>13. CASE Timeout
  <2>1. /\ tpc["watchdog"] = "callback" /\ tpc'["watchdog"] = "wait"
        /\ tpc'["rx"] = tpc["rx"] /\ tpc'["start"] = tpc["start"]
        /\ UNCHANGED <<timer, armed, running, notified>>
    BY <1>0, <1>1, <1>13 DEF Timeout, Goto, timerVars
  <2>2. parser'.state = "WAIT_HEADER_0"
    <3>1. parser \in Parsers
      BY <1>1 DEF ParserOK
    <3> QED BY <1>13, <3>1, ResetOK DEF Timeout
  <2>3. FlagAgrees'
    BY <1>0, <1>2, <2>1 DEF FlagAgrees
  <2>4. PlaceAgrees'
    BY <1>0, <1>2, <2>1 DEF PlaceAgrees
  <2>5. Kicked'
    BY <1>2, <2>1, <2>2 DEF Kicked, Coming
  <2> QED BY <2>3, <2>4, <2>5
<1>14. CASE Alarm
  <2>1. UNCHANGED <<timer, running, tpc, parser>> /\ Coming'
    BY <1>14 DEF Alarm, parserVars, Coming
  <2>2. Kicked'
    BY <1>2, <2>1 DEF Kicked
  <2> QED BY <1>5, <2>1, <2>2
<1> QED BY <1>1, <1>7, <1>8, <1>9, <1>10, <1>11, <1>12, <1>13, <1>14, NextCases, TimerStepIs

LEMMA TimerKept ==
  ASSUME TypesHold, TimerHolds, Next
  PROVE  TimerHolds'
<1>1. CASE Finished
  BY <1>1 DEF Finished, vars, pathVars, lineVars, parserVars, timerVars, TimerHolds, Places,
              FlagAgrees, PlaceAgrees, Kicked, Coming, Paced, Racing, InTimer, Boundary
<1>2. CASE Flagged
  <2>1. paced' = paced /\ (~raced' => ~raced /\ ~Racing')
    BY <1>2, FlaggedIs
  <2>2. Places'
    BY PlacesKept DEF TypesHold, TypeOK, TimerHolds
  <2>3. paced => Paced'
    BY PacedKept DEF TypesHold, TypeOK, TimerHolds
  <2>4. ~raced' \/ paced => (FlagAgrees /\ PlaceAgrees /\ Kicked)'
    BY <2>1, <2>2, <2>3, CalmKept
  <2> QED BY <2>1, <2>2, <2>3, <2>4 DEF TimerHolds
<1> QED BY <1>1, <1>2, NextCases

LEMMA HoldsAlways == Spec => [](TypesHold /\ TimerHolds)
<1>1. Init => TypesHold /\ TimerHolds
  BY TypesInit, TimerInit
<1>2. TypesHold /\ TimerHolds /\ [Next]_vars => (TypesHold /\ TimerHolds)'
  <2>1. TypesHold /\ TimerHolds /\ UNCHANGED vars => (TypesHold /\ TimerHolds)'
    BY DEF vars, pathVars, lineVars, parserVars, timerVars, TypesHold, TypeOK,
           LineTypeOK, ParserTypeOK, TaskTypeOK, TimerHolds, Places,
           FlagAgrees, PlaceAgrees, Kicked, Coming, Paced, Racing, InTimer, Boundary
  <2> QED BY <2>1, TypesKept, TimerKept
<1> QED BY <1>1, <1>2, PTL DEF Spec

(* A partial packet is left without a timeout to come only when two tasks  *)
(* were at the timer at once, whatever the frames, the chunks and the      *)
(* losses.                                                                 *)
THEOREM RaceStrands == Spec => []StrandedOnlyByRace
<1>1. TypesHold /\ TimerHolds => StrandedOnlyByRace
  <2> SUFFICES ASSUME TimerHolds, ~raced, tpc["rx"] = "idle",
                      parser.state # "WAIT_HEADER_0", Quiet
               PROVE  FALSE
    BY DEF StrandedOnlyByRace
  <2>1. Coming \/ tpc["watchdog"] # "wait"
    BY DEF TimerHolds, Kicked
  <2> QED BY <2>1 DEF Quiet, Coming
<1> QED BY <1>1, HoldsAlways, PTL

-----------------------------------------------------------------------------
(* What the parser makes of the bytes that encode() wrote.                 *)

Prefix(s, t, n) == Len(s) = n /\ \A i \in 1..n : s[i] = t[i]

(* Parser p has taken the first k bytes of the frame of packet f. *)
At(f, k, p) ==
  LET len == Len(f.payload)
  IN  /\ k \in {0, 11 + len} => p.state = "WAIT_HEADER_0"
      /\ k = 1 => p.state = "WAIT_HEADER_1"
      /\ k = 2 => p.state = "WAIT_HEADER_2"
      /\ k = 3 => p.state = "GET_SEQ_ID_L"
      /\ k = 4 => p.state = "GET_SEQ_ID_H" /\ p.seq_id = Low(f.seq_id)
      /\ k = 5 => p.state = "READ_VERSION"
      /\ k = 6 => p.state = "READ_COMMAND"
      /\ k = 7 => p.state = "READ_LENGTH_L"
      /\ k = 8 => p.state = "READ_LENGTH_H" /\ p.payload_len = Low(len)
      /\ k \in 9..8 + len => p.state = "READ_PAYLOAD" /\ Prefix(p.payload, f.payload, k - 9)
      /\ k = 9 + len => p.state = "READ_CRC_L"
      /\ k = 10 + len => p.state = "READ_CRC_H" /\ p.crc_l = Byte(Crc(Covered(f)), 0)
      /\ k \in 5..10 + len => p.seq_id = f.seq_id
      /\ k \in 6..10 + len => p.version = VER1
      /\ k \in 7..10 + len => p.command = f.command
      /\ k \in 9..10 + len => p.payload_len = len
      /\ k \in 9 + len..10 + len => Prefix(p.payload, f.payload, len)

LEMMA PrefixAll ==
  ASSUME NEW S, NEW s \in Seq(S), NEW t \in Seq(S), Prefix(s, t, Len(t))
  PROVE  s = t
BY DEF Prefix

LEMMA PrefixGrows ==
  ASSUME NEW S, NEW s \in Seq(S), NEW t \in Seq(S), NEW n \in Nat, Prefix(s, t, n),
         n + 1 <= Len(t)
  PROVE  Prefix(Append(s, t[n + 1]), t, n + 1)
BY DEF Prefix

(* The header. *)
LEMMA HeaderStep ==
  ASSUME NEW f \in Packets, Len(f.payload) <= MaxPayload, NEW k \in 0..8,
         NEW p, ParserOK(p), At(f, k, p), NEW byte, byte = Encode(f)[k + 1]
  PROVE  At(f, k + 1, Advance(p, byte)) /\ p.state # "READ_CRC_H"
<1> DEFINE len == Len(f.payload)
           q == Advance(p, byte)
<1>0. /\ len \in Nat /\ p \in Parsers /\ f.seq_id \in Words /\ len \in Words
      /\ f.payload \in Seq(Bytes)
  <2>1. f.payload \in Seq(Bytes) /\ f.seq_id \in Words
    BY DEF Packets
  <2>2. len \in Nat /\ len <= MaxPayload
    BY <2>1
  <2>3. len \in Words
    BY <2>2, MaxPayloadIs, RangeIs
  <2> QED BY <2>1, <2>2, <2>3 DEF ParserOK
<1>1. /\ Encode(f)[1] = HEADER_0 /\ Encode(f)[2] = HEADER_1 /\ Encode(f)[3] = HEADER_2
      /\ Encode(f)[4] = Low(f.seq_id) /\ Encode(f)[5] = High(f.seq_id)
      /\ Encode(f)[6] = VER1 /\ Encode(f)[7] = f.command
      /\ Encode(f)[8] = Low(len) /\ Encode(f)[9] = High(len)
  <2>1. \A i \in 1..6 : i \in 1..6 + len
    BY <1>0
  <2>2. \A i \in 1..6 : Encode(f)[3 + i] = Covered(f)[i]
    BY <2>1, EncodeIs
  <2>3. /\ Encode(f)[4] = Covered(f)[1] /\ Encode(f)[5] = Covered(f)[2]
        /\ Encode(f)[6] = Covered(f)[3] /\ Encode(f)[7] = Covered(f)[4]
        /\ Encode(f)[8] = Covered(f)[5] /\ Encode(f)[9] = Covered(f)[6]
    BY <2>2
  <2> QED BY <2>3, EncodeIs, CoveredIs
<1> HIDE DEF len
<1>2. CASE k = 0
  <2>1. p.state = "WAIT_HEADER_0" /\ byte = HEADER_0
    BY <1>1, <1>2 DEF At
  <2>2. q = [p EXCEPT !.state = "WAIT_HEADER_1"]
    BY <2>1, Zenon DEF Advance
  <2>3. q.state = "WAIT_HEADER_1"
    BY <1>0, <2>2 DEF Parsers
  <2> HIDE DEF q
  <2> QED BY <1>0, <1>2, <2>1, <2>3 DEF At, len, q
<1>3. CASE k = 1
  <2>1. p.state = "WAIT_HEADER_1" /\ byte = HEADER_1
    BY <1>1, <1>3 DEF At
  <2>2. q = [p EXCEPT !.state = "WAIT_HEADER_2"]
    BY <2>1, Zenon DEF Advance
  <2>3. q.state = "WAIT_HEADER_2"
    BY <1>0, <2>2 DEF Parsers
  <2> HIDE DEF q
  <2> QED BY <1>0, <1>3, <2>1, <2>3 DEF At, len, q
<1>4. CASE k = 2
  <2>1. p.state = "WAIT_HEADER_2" /\ byte = HEADER_2
    BY <1>1, <1>4 DEF At
  <2>2. q = [p EXCEPT !.state = "GET_SEQ_ID_L"]
    BY <2>1, Zenon DEF Advance
  <2>3. q.state = "GET_SEQ_ID_L"
    BY <1>0, <2>2 DEF Parsers
  <2> HIDE DEF q
  <2> QED BY <1>0, <1>4, <2>1, <2>3 DEF At, len, q
<1>5. CASE k = 3
  <2>1. p.state = "GET_SEQ_ID_L" /\ byte = Low(f.seq_id)
    BY <1>1, <1>5 DEF At
  <2>2. q = [p EXCEPT !.seq_id = byte, !.state = "GET_SEQ_ID_H"]
    BY <2>1, Zenon DEF Advance
  <2>3. q.state = "GET_SEQ_ID_H" /\ q.seq_id = byte
    BY <1>0, <2>2 DEF Parsers
  <2> HIDE DEF q
  <2> QED BY <1>0, <1>5, <2>1, <2>3 DEF At, len, q
<1>6. CASE k = 4
  <2>1. p.state = "GET_SEQ_ID_H" /\ p.seq_id = Low(f.seq_id) /\ byte = High(f.seq_id)
    BY <1>1, <1>6 DEF At
  <2>2. q = [p EXCEPT !.seq_id = @ + 256 * byte, !.state = "READ_VERSION"]
    BY <2>1, Zenon DEF Advance
  <2>3. q.state = "READ_VERSION" /\ q.seq_id = p.seq_id + 256 * byte
    BY <1>0, <2>2 DEF Parsers
  <2>4. q.seq_id = f.seq_id
    BY <1>0, <2>1, <2>3, HalvesIs
  <2> HIDE DEF q
  <2> QED BY <1>0, <1>6, <2>1, <2>3, <2>4 DEF At, len, q
<1>7. CASE k = 5
  <2>1. p.state = "READ_VERSION" /\ p.seq_id = f.seq_id /\ byte = VER1
    BY <1>0, <1>1, <1>7 DEF At, len
  <2>2. q = [p EXCEPT !.version = byte, !.state = "READ_COMMAND"]
    BY <2>1, Zenon DEF Advance
  <2>3. q.state = "READ_COMMAND" /\ q.version = VER1 /\ q.seq_id = f.seq_id
    BY <1>0, <2>1, <2>2 DEF Parsers
  <2> HIDE DEF q
  <2> QED BY <1>0, <1>7, <2>1, <2>3 DEF At, len, q
<1>8. CASE k = 6
  <2>1. /\ p.state = "READ_COMMAND" /\ p.seq_id = f.seq_id /\ p.version = VER1
        /\ byte = f.command
    BY <1>0, <1>1, <1>8 DEF At, len
  <2>2. q = [p EXCEPT !.command = byte, !.state = "READ_LENGTH_L"]
    BY <2>1, Zenon DEF Advance
  <2>3. /\ q.state = "READ_LENGTH_L" /\ q.version = VER1 /\ q.seq_id = f.seq_id
        /\ q.command = f.command
    BY <1>0, <2>1, <2>2 DEF Parsers
  <2> HIDE DEF q
  <2> QED BY <1>0, <1>8, <2>1, <2>3 DEF At, len, q
<1>9. CASE k = 7
  <2>1. /\ p.state = "READ_LENGTH_L" /\ p.seq_id = f.seq_id /\ p.version = VER1
        /\ p.command = f.command /\ byte = Low(len)
    BY <1>0, <1>1, <1>9 DEF At, len
  <2>2. q = [p EXCEPT !.payload_len = byte, !.state = "READ_LENGTH_H"]
    BY <2>1, Zenon DEF Advance
  <2>3. /\ q.state = "READ_LENGTH_H" /\ q.version = VER1 /\ q.seq_id = f.seq_id
        /\ q.command = f.command /\ q.payload_len = Low(len)
    BY <1>0, <2>1, <2>2 DEF Parsers
  <2> HIDE DEF q
  <2> QED BY <1>0, <1>9, <2>1, <2>3 DEF At, len, q
<1>10. CASE k = 8
  <2>1. /\ p.state = "READ_LENGTH_H" /\ p.seq_id = f.seq_id /\ p.version = VER1
        /\ p.command = f.command /\ p.payload_len = Low(len) /\ byte = High(len)
    BY <1>0, <1>1, <1>10 DEF At, len
  <2>2. p.payload_len + 256 * byte = len
    BY <1>0, <2>1, HalvesIs
  <2>3. q = LengthRead(p, len)
    BY <2>1, <2>2, Zenon DEF Advance
  <2>4. ~(len > MaxPayload)
    BY <1>0, MaxPayloadIs DEF len
  <2>5. q = [p EXCEPT !.payload_len = len, !.payload = <<>>,
                      !.state = IF len = 0 THEN "READ_CRC_L" ELSE "READ_PAYLOAD"]
    BY <2>3, <2>4, Zenon DEF LengthRead
  <2>6. /\ q.state = IF len = 0 THEN "READ_CRC_L" ELSE "READ_PAYLOAD"
        /\ q.version = VER1 /\ q.seq_id = f.seq_id
        /\ q.command = f.command /\ q.payload_len = len /\ q.payload = <<>>
    BY <1>0, <2>1, <2>5 DEF Parsers
  <2>7. Prefix(<<>>, f.payload, 0)
    BY DEF Prefix
  <2> HIDE DEF q
  <2> QED BY <1>0, <1>10, <2>1, <2>6, <2>7 DEF At, len, q
<1> QED BY <1>2, <1>3, <1>4, <1>5, <1>6, <1>7, <1>8, <1>9, <1>10

(* The payload. *)
LEMMA PayloadStep ==
  ASSUME NEW f \in Packets, Len(f.payload) <= MaxPayload, NEW k \in 9..8 + Len(f.payload),
         NEW p, ParserOK(p), At(f, k, p), NEW byte, byte = Encode(f)[k + 1]
  PROVE  At(f, k + 1, Advance(p, byte)) /\ p.state # "READ_CRC_H"
<1> DEFINE len == Len(f.payload)
           q == Advance(p, byte)
<1>0. len \in Nat /\ p \in Parsers /\ f.payload \in Seq(Bytes) /\ p.payload \in Seq(Bytes)
  <2>1. f.payload \in Seq(Bytes)
    BY DEF Packets
  <2> QED BY <2>1 DEF ParserOK, Parsers
<1>1. byte = f.payload[k - 8]
  <2>1. k - 2 \in 1..6 + len /\ 3 + (k - 2) = k + 1 /\ k - 8 \in 1..len /\ 6 + (k - 8) = k - 2
    BY <1>0
  <2>2. Encode(f)[k + 1] = Covered(f)[k - 2]
    BY <2>1, EncodeIs
  <2>3. Covered(f)[k - 2] = f.payload[k - 8]
    BY <2>1, CoveredIs
  <2> QED BY <2>2, <2>3
<1>2. /\ p.state = "READ_PAYLOAD" /\ Prefix(p.payload, f.payload, k - 9)
      /\ p.seq_id = f.seq_id /\ p.version = VER1 /\ p.command = f.command
      /\ p.payload_len = len
  BY <1>0 DEF At
<1>3. q = [p EXCEPT !.payload = Append(@, byte),
                    !.state = IF Len(p.payload) + 1 >= p.payload_len THEN "READ_CRC_L" ELSE @]
  BY <1>2, Zenon DEF Advance
<1>4. Len(p.payload) = k - 9
  BY <1>2 DEF Prefix
<1>5. /\ q.payload = Append(p.payload, byte)
      /\ q.state = IF k = 8 + len THEN "READ_CRC_L" ELSE "READ_PAYLOAD"
      /\ q.seq_id = f.seq_id /\ q.version = VER1 /\ q.command = f.command
      /\ q.payload_len = len
  <2>1. (k - 9) + 1 >= len <=> k = 8 + len
    BY <1>0
  <2> QED BY <1>0, <1>2, <1>3, <1>4, <2>1 DEF Parsers
<1>6. Prefix(q.payload, f.payload, k - 8)
  <2>1. k - 9 \in Nat /\ (k - 9) + 1 = k - 8 /\ k - 8 <= len
    BY <1>0
  <2>2. Prefix(Append(p.payload, f.payload[(k - 9) + 1]), f.payload, (k - 9) + 1)
    BY <1>0, <1>2, <2>1, PrefixGrows
  <2> QED BY <1>1, <1>5, <2>1, <2>2
<1> HIDE DEF q, len
<1>7. CASE k = 8 + len
  <2>1. 1 <= len /\ k + 1 = 9 + len /\ k - 8 = len
    BY <1>0, <1>7 DEF len
  <2>2. Prefix(q.payload, f.payload, len)
    BY <1>6, <2>1
  <2>3. q.state = "READ_CRC_L"
    BY <1>5, <1>7
  <2>4. At(f, 9 + len, q)
    BY <1>0, <1>5, <2>1, <2>2, <2>3 DEF At, len
  <2> QED BY <1>2, <2>1, <2>4 DEF q
<1>8. CASE k # 8 + len
  BY <1>0, <1>2, <1>5, <1>6, <1>8 DEF At, len, q
<1> QED BY <1>7, <1>8

(* The CRC: the packet that was sent is found in the frame. *)
LEMMA CrcStep ==
  ASSUME NEW f \in Packets, Len(f.payload) <= MaxPayload, NEW p, ParserOK(p)
  PROVE  /\ At(f, 9 + Len(f.payload), p) =>
              /\ p.state # "READ_CRC_H"
              /\ At(f, 10 + Len(f.payload), Advance(p, Byte(Crc(Covered(f)), 0)))
         /\ At(f, 10 + Len(f.payload), p) =>
              /\ p.state = "READ_CRC_H"
              /\ At(f, 11 + Len(f.payload), ParserReset(p))
              /\ Assembled(p) = f
              /\ ValidPacket(p, Byte(Crc(Covered(f)), 8))
<1> DEFINE len == Len(f.payload)
<1>0. /\ len \in Nat /\ p \in Parsers /\ f.payload \in Seq(Bytes) /\ p.payload \in Seq(Bytes)
      /\ f.version = VER1
  <2>1. f.payload \in Seq(Bytes) /\ f.version = VER1
    BY DEF Packets
  <2> QED BY <2>1 DEF ParserOK, Parsers
<1>1. ASSUME At(f, 9 + len, p)
      PROVE  /\ p.state # "READ_CRC_H"
             /\ At(f, 10 + len, Advance(p, Byte(Crc(Covered(f)), 0)))
  <2> DEFINE byte == Byte(Crc(Covered(f)), 0)
             q == Advance(p, byte)
  <2>1. /\ p.state = "READ_CRC_L" /\ Prefix(p.payload, f.payload, len)
        /\ p.seq_id = f.seq_id /\ p.version = VER1 /\ p.command = f.command
        /\ p.payload_len = len
    BY <1>0, <1>1 DEF At
  <2>2. q = [p EXCEPT !.crc_l = byte, !.state = "READ_CRC_H"]
    BY <2>1, Zenon DEF Advance
  <2>3. /\ q.state = "READ_CRC_H" /\ q.crc_l = byte /\ q.payload = p.payload
        /\ q.seq_id = f.seq_id /\ q.version = VER1 /\ q.command = f.command
        /\ q.payload_len = len
    BY <1>0, <2>1, <2>2 DEF Parsers
  <2> HIDE DEF q
  <2>4. At(f, 10 + len, q)
    <3> HIDE DEF len
    <3> QED BY <1>0, <2>1, <2>3 DEF At, len
  <2> QED BY <2>1, <2>4 DEF q
<1>2. ASSUME At(f, 10 + len, p)
      PROVE  /\ p.state = "READ_CRC_H"
             /\ At(f, 11 + len, ParserReset(p))
             /\ Assembled(p) = f
             /\ ValidPacket(p, Byte(Crc(Covered(f)), 8))
  <2>1. /\ p.state = "READ_CRC_H" /\ Prefix(p.payload, f.payload, len)
        /\ p.seq_id = f.seq_id /\ p.version = VER1 /\ p.command = f.command
        /\ p.payload_len = len /\ p.crc_l = Byte(Crc(Covered(f)), 0)
    BY <1>0, <1>2 DEF At
  <2>2. p.payload = f.payload
    BY <1>0, <2>1, PrefixAll
  <2>3. Assembled(p) = f
    BY <1>0, <2>1, <2>2 DEF Assembled, Packets
  <2>4. Bits(p.crc_l) \cup ShiftLeft(Bits(Byte(Crc(Covered(f)), 8)), 8) = Crc(Covered(f))
    <3>1. Crc(Covered(f)) \subseteq 0..15
      BY CrcIs, CoveredIs
    <3> QED BY <2>1, <3>1, BytesGiveCrc
  <2>5. ValidPacket(p, Byte(Crc(Covered(f)), 8))
    <3>1. p.payload_len <= MaxPayload
      BY <2>1
    <3> QED BY <2>1, <2>3, <2>4, <3>1 DEF ValidPacket
  <2>6. ParserReset(p).state = "WAIT_HEADER_0"
    BY <1>0, ResetOK
  <2>7. At(f, 11 + len, ParserReset(p))
    <3> DEFINE q == ParserReset(p)
    <3> HIDE DEF q, len
    <3>1. At(f, 11 + len, q)
      BY <1>0, <2>6 DEF At, len, q
    <3> QED BY <3>1 DEF q, len
  <2> QED BY <2>1, <2>3, <2>5, <2>7
<1> QED BY <1>1, <1>2

(* Byte k + 1 of the frame takes the parser one byte further, and the last *)
(* one completes the packet that was sent.                                 *)
LEMMA FrameStep ==
  ASSUME NEW f \in Packets, Len(f.payload) <= MaxPayload, NEW k \in 0..10 + Len(f.payload),
         NEW p, ParserOK(p), At(f, k, p), NEW byte, byte = Encode(f)[k + 1]
  PROVE  /\ At(f, k + 1, ParseByte(p, byte).parser)
         /\ k = 10 + Len(f.payload) => ParseByte(p, byte).packets = <<f>>
<1> DEFINE len == Len(f.payload)
<1>0. len \in Nat
  BY DEF Packets
<1>1. ASSUME p.state # "READ_CRC_H", At(f, k + 1, Advance(p, byte)), k # 10 + len
      PROVE  /\ At(f, k + 1, ParseByte(p, byte).parser)
             /\ k = 10 + len => ParseByte(p, byte).packets = <<f>>
  <2>1. ParseByte(p, byte).parser = Advance(p, byte)
    BY <1>1 DEF ParseByte
  <2> QED BY <1>1, <2>1
<1>2. CASE k \in 0..8
  BY <1>0, <1>1, <1>2, HeaderStep
<1>3. CASE k \in 9..8 + len
  BY <1>0, <1>1, <1>3, PayloadStep
<1>4. CASE k = 9 + len
  <2>1. byte = Byte(Crc(Covered(f)), 0)
    BY <1>0, <1>4, EncodeIs
  <2>2. p.state # "READ_CRC_H" /\ At(f, k + 1, Advance(p, byte))
    BY <1>0, <1>4, <2>1, CrcStep
  <2> QED BY <1>0, <1>1, <1>4, <2>2
<1>5. CASE k = 10 + len
  <2>1. byte = Byte(Crc(Covered(f)), 8)
    BY <1>0, <1>5, EncodeIs
  <2>2. /\ p.state = "READ_CRC_H" /\ At(f, 11 + len, ParserReset(p))
        /\ Assembled(p) = f /\ ValidPacket(p, byte)
    BY <1>5, <2>1, CrcStep
  <2>3. ParseByte(p, byte) = [parser |-> ParserReset(p), packets |-> <<f>>]
    BY <2>2 DEF ParseByte
  <2>4. k + 1 = 11 + len
    BY <1>0, <1>5
  <2> QED BY <2>2, <2>3, <2>4
<1> QED BY <1>0, <1>2, <1>3, <1>4, <1>5

(* The parser is in step with the line at byte x: it has taken as much of  *)
(* the frame there as the line has carried.  A frame that lost bytes does  *)
(* not count, and one that has not begun only when it is about to.         *)
InStep(x, p) ==
  \A m \in Numbers : \A k \in 0..PacketSize(Frames[m]) :
    /\ x = EndOf[m - 1] + k
    /\ m \notin damaged
    /\ k = 0 => x < pos
    => At(Frames[m], k, p)

(* The frames that end in the bytes after x, up to y. *)
Ending(x, y) == {m \in Numbers : x < EndOf[m] /\ EndOf[m] <= y}
OneEnds(x, y) == \E m \in Numbers : Ending(x, y) = {m}

LEMMA WaitIs ==
  ASSUME NEW m \in Numbers, NEW p
  PROVE  /\ At(Frames[m], 0, p) <=> p.state = "WAIT_HEADER_0"
         /\ At(Frames[m], PacketSize(Frames[m]), p) <=> p.state = "WAIT_HEADER_0"
BY PacketSizeIs DEF At

(* One more byte of the line. *)
LEMMA LineStep ==
  ASSUME NEW p, ParserOK(p), NEW x, InStep(x, p), x \in Nat, x < pos, pos \in Nat
  PROVE  \A m \in Numbers \ damaged : \A k \in 1..PacketSize(Frames[m]) :
           x + 1 = EndOf[m - 1] + k =>
             /\ At(Frames[m], k, ParseByte(p, Line[x + 1]).parser)
             /\ k = PacketSize(Frames[m]) =>
                  ParseByte(p, Line[x + 1]).packets = <<Frames[m]>>
<1> DEFINE byte == Line[x + 1]
<1> HIDE DEF byte
<1> SUFFICES ASSUME NEW m \in Numbers \ damaged, NEW k \in 1..PacketSize(Frames[m]),
                    x + 1 = EndOf[m - 1] + k
             PROVE  /\ At(Frames[m], k, ParseByte(p, byte).parser)
                    /\ k = PacketSize(Frames[m]) => ParseByte(p, byte).packets = <<Frames[m]>>
  BY DEF byte
<1> DEFINE f == Frames[m]
           size == PacketSize(f)
<1>1. /\ f \in Packets /\ Len(f.payload) \in Nat /\ Len(f.payload) <= MaxPayload
      /\ size = 11 + Len(f.payload) /\ EndOf[m - 1] \in Nat
  <2>1. m - 1 \in 0..Len(Frames)
    BY CountIs
  <2> QED BY <2>1, PacketSizeIs, EndOfIs
<1>2. k - 1 \in 0..10 + Len(f.payload) /\ (k - 1) + 1 = k /\ k - 1 \in 0..size
  BY <1>1
<1>3. x = EndOf[m - 1] + (k - 1)
  BY <1>1, <1>2
<1>4. At(f, k - 1, p)
  BY <1>2, <1>3 DEF InStep
<1>5. byte = Encode(f)[(k - 1) + 1]
  BY <1>2, LineIs DEF byte
<1> HIDE DEF f, size
<1>6. /\ At(f, (k - 1) + 1, ParseByte(p, byte).parser)
      /\ k - 1 = 10 + Len(f.payload) => ParseByte(p, byte).packets = <<f>>
  BY <1>1, <1>2, <1>4, <1>5, FrameStep
<1> QED BY <1>1, <1>2, <1>6 DEF f, size

(* Where the frames lie. *)
LEMMA FrameIs ==
  ASSUME NEW m \in Numbers
  PROVE  /\ EndOf[m] \in Nat /\ EndOf[m - 1] \in Nat
         /\ EndOf[m] = EndOf[m - 1] + PacketSize(Frames[m])
         /\ PacketSize(Frames[m]) \in Nat /\ PacketSize(Frames[m]) >= 11
<1>1. m - 1 \in 0..Len(Frames) /\ m \in 0..Len(Frames)
  BY CountIs
<1> QED BY <1>1, EndOfIs, PacketSizeIs

(* Frames end apart. *)
LEMMA EndsDiffer ==
  ASSUME NEW m \in Numbers, NEW n \in Numbers, m # n
  PROVE  EndOf[m] # EndOf[n]
<1>1. m \in 0..Len(Frames) /\ n \in 0..Len(Frames) /\ EndOf[m] \in Nat /\ EndOf[n] \in Nat
  BY CountIs, EndOfIs
<1>2. m < n \/ n < m
  BY <1>1
<1> QED BY <1>1, <1>2, EndOfGrows

(* Every byte of the line lies in a frame. *)
LEMMA ByteInFrame ==
  ASSUME NEW x \in Nat, x < Len(Line)
  PROVE  \E m \in Numbers : EndOf[m - 1] <= x /\ x < EndOf[m]
<1> DEFINE T == {n \in 0..Len(Frames) : x < EndOf[n]}
<1>1. Len(Frames) \in T
  BY CountIs, LineIs
<1>2. T \subseteq Nat
  BY CountIs
<1>3. PICK n \in T : \A k \in T : n <= k
  BY <1>1, <1>2, LeastNumber
<1>4. n # 0
  BY EndOfIs
<1>5. n \in Numbers /\ n - 1 \in 0..Len(Frames) /\ ~(n <= n - 1)
  BY <1>4, CountIs
<1>6. ~(x < EndOf[n - 1]) /\ EndOf[n - 1] \in Nat
  BY <1>3, <1>5, EndOfIs
<1> QED BY <1>5, <1>6

(* On an undamaged line nothing but the last byte of a frame completes a   *)
(* packet.                                                                 *)
LEMMA PacketAtEnd ==
  ASSUME NEW p, ParserOK(p), NEW x, InStep(x, p), x \in Nat, x < pos, pos \in Nat,
         pos <= Len(Line), damaged = {}, NEW byte, ParseByte(p, byte).packets # <<>>
  PROVE  \E m \in Numbers : x + 1 = EndOf[m]
<1>0. x < Len(Line)
  BY LineIs
<1>1. PICK m \in Numbers : EndOf[m - 1] <= x /\ x < EndOf[m]
  BY <1>0, ByteInFrame
<1> DEFINE f == Frames[m]
           k == x - EndOf[m - 1]
<1>2. /\ Len(f.payload) \in Nat /\ PacketSize(f) = 11 + Len(f.payload)
      /\ EndOf[m] \in Nat /\ EndOf[m - 1] \in Nat
      /\ EndOf[m] = EndOf[m - 1] + PacketSize(f)
  <2>1. m \in 0..Len(Frames) /\ m - 1 \in 0..Len(Frames)
    BY CountIs
  <2> QED BY <2>1, PacketSizeIs, EndOfIs
<1>3. k \in 0..10 + Len(f.payload) /\ x = EndOf[m - 1] + k /\ k \in 0..PacketSize(f)
  <2> DEFINE from == EndOf[m - 1]
             to == EndOf[m]
             len == Len(f.payload)
  <2>1. from \in Nat /\ to = from + (11 + len) /\ len \in Nat /\ from <= x /\ x < to
    BY <1>1, <1>2
  <2> HIDE DEF from, to, len
  <2>2. x - from \in 0..10 + len /\ x = from + (x - from) /\ x - from \in 0..11 + len
    BY ONLY <2>1, x \in Nat
  <2> QED BY <1>2, <2>2 DEF from, len
<1>4. At(f, k, p)
  BY <1>3 DEF InStep
<1> HIDE DEF f, k
<1>5. p.state = "READ_CRC_H"
  BY DEF ParseByte
<1>6. k = 10 + Len(f.payload)
  BY <1>2, <1>3, <1>4, <1>5 DEF At
<1> QED BY <1>1, <1>2, <1>3, <1>6

LEMMA ParseFrames ==
  ASSUME NEW p, ParserOK(p), NEW q \in Nat, NEW data \in Seq(Bytes), pos \in 0..Len(Line),
         q + Len(data) = pos, \A i \in 1..Len(data) : data[i] = Line[q + i],
         InStep(q, p), \A m \in Ending(q, pos - 1) : m \notin damaged,
         NEW r, r = ParseNextPacket(p, data)
  PROVE  /\ r.consumed \in 0..Len(data)
         /\ InStep(q + r.consumed, r.parser)
         /\ \A m \in Ending(q, q + r.consumed) \ damaged : r.packets = <<Frames[m]>>
         /\ damaged = {} /\ r.packets # <<>> => OneEnds(q, q + r.consumed)
<1> DEFINE N == Len(data)
<1>0. N \in Nat /\ pos \in Nat /\ pos <= Len(Line)
  BY LineIs
<1>1. PICK f \in [0..N -> Runs(N)] :
           /\ f[0] = [parser |-> p, packets |-> <<>>, consumed |-> 0]
           /\ \A n \in 1..N : f[n] = RunNext(f[n - 1], data[n], n)
           /\ ParseNextPacket(p, data) = f[N]
  BY ParseRuns
<1> DEFINE Good(n) ==
             /\ f[n].packets = <<>> => f[n].consumed = n
             /\ f[n].consumed \in 0..n
             /\ InStep(q + f[n].consumed, f[n].parser)
             /\ \A m \in Ending(q, q + f[n].consumed) \ damaged : f[n].packets = <<Frames[m]>>
             /\ damaged = {} /\ f[n].packets # <<>> => OneEnds(q, q + f[n].consumed)
           T == {n \in 0..N : Good(n)}
<1>e. \A m \in Numbers : EndOf[m] \in Nat /\ EndOf[m - 1] \in Nat
  <2>1. \A m \in Numbers : m \in 0..Len(Frames) /\ m - 1 \in 0..Len(Frames)
    BY CountIs
  <2> QED BY <2>1, EndOfIs
<1>2. 0 \in T
  <2>1. f[0].packets = <<>> /\ f[0].consumed = 0 /\ f[0].parser = p
    BY <1>1
  <2>2. q + 0 = q
    OBVIOUS
  <2>3. Ending(q, q + 0) = {}
    BY <1>e DEF Ending
  <2> QED BY <1>0, <2>1, <2>2, <2>3
<1>3. ASSUME NEW n \in 1..N, n - 1 \in T
      PROVE  n \in T
  <2> DEFINE before == f[n - 1]
             next == ParseByte(before.parser, data[n])
             x == q + (n - 1)
  <2>1. n \in 0..N /\ n \in Nat /\ n - 1 \in Nat /\ Good(n - 1)
    BY <1>0, <1>3
  <2>2. f[n] = RunNext(before, data[n], n)
    BY <1>1
  <2>3. CASE before.packets # <<>>
    <3>1. f[n] = before
      BY <2>2, <2>3 DEF RunNext
    <3>2. f[n].consumed \in 0..n
      BY <2>1, <3>1
    <3> QED BY <2>1, <2>3, <3>1, <3>2
  <2>4. CASE before.packets = <<>>
    <3>1. f[n].parser = next.parser /\ f[n].packets = next.packets /\ f[n].consumed = n
      BY <2>2, <2>4 DEF RunNext
    <3>2. before.consumed = n - 1 /\ InStep(x, before.parser)
      BY <2>1, <2>4
    <3>3. ParserOK(before.parser)
      <4>1. n - 1 \in 0..N
        BY <1>0
      <4>2. before \in Runs(N)
        BY <1>1, <4>1
      <4> QED BY <4>2 DEF Runs
    <3>4. data[n] = Line[x + 1] /\ x + 1 = q + n /\ x \in Nat /\ x < pos
      BY <1>0, <2>1
    <3> HIDE DEF x, next, before, N
    <3>5. ASSUME NEW m \in Numbers \ damaged, NEW k \in 1..PacketSize(Frames[m]),
                 q + n = EndOf[m - 1] + k
          PROVE  /\ At(Frames[m], k, next.parser)
                 /\ k = PacketSize(Frames[m]) => next.packets = <<Frames[m]>>
      <4>1. x + 1 = EndOf[m - 1] + k
        BY <3>4, <3>5
      <4> DEFINE b == before.parser
      <4>2. next = ParseByte(b, Line[x + 1])
        BY <3>4 DEF next
      <4>3. ParserOK(b) /\ InStep(x, b) /\ x \in Nat /\ x < pos /\ pos \in Nat
        BY <1>0, <3>2, <3>3, <3>4
      <4> HIDE DEF b
      <4>4. \A i \in Numbers \ damaged : \A j \in 1..PacketSize(Frames[i]) :
              x + 1 = EndOf[i - 1] + j =>
                /\ At(Frames[i], j, ParseByte(b, Line[x + 1]).parser)
                /\ j = PacketSize(Frames[i]) =>
                     ParseByte(b, Line[x + 1]).packets = <<Frames[i]>>
        BY ONLY <4>3, LineStep, Zenon
      <4> QED BY <4>1, <4>2, <4>4
    <3>6. InStep(q + n, next.parser)
      <4> SUFFICES ASSUME NEW m \in Numbers, NEW k \in 0..PacketSize(Frames[m]),
                          q + n = EndOf[m - 1] + k, m \notin damaged, k = 0 => q + n < pos
                   PROVE  At(Frames[m], k, next.parser)
        BY DEF InStep
      <4>1. CASE k # 0
        <5>1. k \in 1..PacketSize(Frames[m])
          BY <4>1, PacketSizeIs
        <5> QED BY <3>5, <5>1
      <4>2. CASE k = 0
        <5>1. q + n = EndOf[m - 1] /\ q + n < pos /\ q < q + n
          BY <1>e, <2>1, <4>2
        <5>2. m - 1 \in Numbers
          <6>1. m - 1 # 0
            BY <2>1, <5>1, EndOfIs
          <6> QED BY <6>1, CountIs
        <5>3. m - 1 \notin damaged
          <6>1. EndOf[m - 1] <= pos - 1
            BY <1>e, <5>1
          <6> QED BY <5>1, <5>2, <6>1 DEF Ending
        <5> DEFINE w == PacketSize(Frames[m - 1])
        <5>4. w \in 1..w /\ q + n = EndOf[(m - 1) - 1] + w
          <6>1. w \in 1..w
            BY <5>2, FrameIs
          <6>2. EndOf[m - 1] = EndOf[(m - 1) - 1] + w
            BY <5>2, FrameIs
          <6> QED BY <5>1, <6>1, <6>2
        <5>5. At(Frames[m - 1], w, next.parser)
          BY <3>5, <5>2, <5>3, <5>4
        <5> QED BY <4>2, <5>2, <5>5, WaitIs
      <4> QED BY <4>1, <4>2
    <3>7. ASSUME NEW m \in Ending(q, q + n) \ damaged
          PROVE  next.packets = <<Frames[m]>>
      <4>0. m \in Numbers /\ q < EndOf[m] /\ EndOf[m] <= q + n
        BY DEF Ending
      <4>1. EndOf[m] = q + n
        <5>1. ~(EndOf[m] <= q + (n - 1))
          <6> SUFFICES ASSUME EndOf[m] <= q + (n - 1) PROVE FALSE
            OBVIOUS
          <6>1. m \in Ending(q, q + before.consumed) \ damaged
            BY <3>2, <4>0 DEF Ending
          <6>2. before.packets = <<Frames[m]>>
            BY <2>1, <6>1 DEF before
          <6>3. <<Frames[m]>> # <<>>
            OBVIOUS
          <6> QED BY <2>4, <6>2, <6>3
        <5> DEFINE e == EndOf[m]
        <5>2. e \in Nat /\ n \in Nat /\ q \in Nat /\ e <= q + n /\ ~(e <= q + (n - 1))
          BY <1>e, <2>1, <4>0, <5>1
        <5> HIDE DEF e
        <5>3. e = q + n
          BY ONLY <5>2
        <5> QED BY <5>3 DEF e
      <4> DEFINE w == PacketSize(Frames[m])
      <4>2. w \in 1..w /\ q + n = EndOf[m - 1] + w
        <5>1. EndOf[m] = EndOf[m - 1] + w /\ w \in Nat /\ w >= 11
          BY <4>0, FrameIs
        <5> HIDE DEF w
        <5> QED BY <4>1, <5>1
      <4> QED BY <3>5, <4>0, <4>2
    <3>8. n \in 0..n
      BY <2>1
    <3>9. ASSUME damaged = {}, next.packets # <<>>
          PROVE  OneEnds(q, q + n)
      <4> DEFINE b == before.parser
      <4>1. PICK m \in Numbers : x + 1 = EndOf[m]
        <5>1. ParserOK(b) /\ InStep(x, b) /\ x \in Nat /\ x < pos /\ pos \in Nat /\ pos <= Len(Line)
          BY <1>0, <3>2, <3>3, <3>4
        <5>2. ParseByte(b, Line[x + 1]).packets # <<>>
          BY <3>4, <3>9 DEF next
        <5> HIDE DEF b
        <5> QED BY ONLY <3>9, <5>1, <5>2, PacketAtEnd
      <4>2. EndOf[m] = q + n
        BY <3>4, <4>1
      <4>3. m \in Ending(q, q + n)
        BY <1>e, <2>1, <4>2 DEF Ending
      <4>4. ASSUME NEW i \in Ending(q, q + n), i # m PROVE FALSE
        <5>1. i \in Numbers /\ q < EndOf[i] /\ EndOf[i] <= q + n /\ EndOf[i] # EndOf[m]
          BY <4>4, EndsDiffer DEF Ending
        <5>2. EndOf[i] <= q + (n - 1)
          BY <1>e, <2>1, <4>2, <5>1
        <5>3. i \in Ending(q, q + before.consumed) \ damaged
          BY <3>2, <3>9, <5>1, <5>2 DEF Ending
        <5>4. before.packets = <<Frames[i]>> /\ <<Frames[i]>> # <<>>
          BY <2>1, <5>3 DEF before
        <5> QED BY <2>4, <5>4
      <4> QED BY <4>3, <4>4 DEF OneEnds
    <3> QED BY <2>1, <3>1, <3>6, <3>7, <3>8, <3>9 DEF N
  <2> QED BY <2>3, <2>4
<1> HIDE DEF T, Good, N
<1>4. 0..N \subseteq T
  BY <1>0, <1>2, <1>3, UpTo
<1>5. Good(N)
  <2>1. N \in T
    BY <1>0, <1>4
  <2> QED BY <2>1 DEF T
<1>6. r = f[N]
  BY <1>1 DEF N
<1> QED BY <1>5, <1>6 DEF Good, N

-----------------------------------------------------------------------------
(* What was parsed so far. *)

Here == pos - Len(chunk)

ChunkHolds ==
  /\ Len(chunk) <= pos
  /\ \A i \in 1..Len(chunk) : chunk[i] = Line[Here + i]
  /\ tpc["rx"] = "idle" => chunk = <<>>
  /\ pos = 0 => tpc["rx"] = "idle"
  /\ paced => Ending(Here, pos - 1) = {}

Found(n) == \E k \in 1..Len(delivered) : delivered[k] = Frames[n]

Followed ==
  /\ InStep(Here, parser)
  /\ \A n \in Numbers \ damaged : EndOf[n] <= Here => Found(n)
  /\ pos = 0 => parser.state = "WAIT_HEADER_0"

Sound == paced \/ (damaged = {} /\ ~reset)

PathHolds == ChunkHolds /\ (Sound => Followed)

LEMMA PathInit == Init => PathHolds
<1> SUFFICES ASSUME Init PROVE PathHolds
  OBVIOUS
<1>1. /\ pos = 0 /\ chunk = <<>> /\ Len(chunk) = 0 /\ tpc["rx"] = "idle"
      /\ parser.state = "WAIT_HEADER_0" /\ Here = 0
  <2>1. tpc["rx"] = "idle"
    BY DEF Init, Tasks
  <2>2. pos = 0 /\ chunk = <<>> /\ parser.state = "WAIT_HEADER_0"
    BY DEF Init, ParserInit
  <2>3. Len(chunk) = 0
    BY <2>2
  <2>4. Here = 0
    <3> DEFINE len == Len(chunk)
    <3>1. pos = 0 /\ len = 0 /\ Here = pos - len
      BY <2>2, <2>3 DEF Here
    <3> HIDE DEF len
    <3>2. Here = 0 - 0
      BY ONLY <3>1, Zenon
    <3> QED BY <3>2
  <2> QED BY <2>1, <2>2, <2>3, <2>4
<1>2. \A m \in Numbers : EndOf[m] \in Nat /\ EndOf[m] >= 11 /\ EndOf[m - 1] \in Nat
  <2>1. \A m \in Numbers : m - 1 \in 0..Len(Frames)
    BY CountIs
  <2> QED BY <2>1, EndOfIs, PacketSizeIs
<1>3. ChunkHolds
  <2>1. Ending(Here, pos - 1) = {}
    BY <1>1, <1>2 DEF Ending
  <2> QED BY <1>1, <2>1 DEF ChunkHolds
<1>4. InStep(Here, parser)
  <2>1. \A m \in Numbers, k \in Nat : Here = EndOf[m - 1] + k => k = 0
    BY <1>1, <1>2
  <2> QED BY <1>1, <2>1, PacketSizeIs DEF InStep
<1>5. \A n \in Numbers : ~(EndOf[n] <= Here)
  BY <1>1, <1>2
<1> QED BY <1>1, <1>3, <1>4, <1>5 DEF PathHolds, Followed

LEMMA InFrame ==
  ASSUME NEW m \in Numbers, NEW b \in Boundary, EndOf[m - 1] < b, b <= EndOf[m]
  PROVE  b = EndOf[m]
<1>1. PICK j \in 0..Len(Frames) : b = EndOf[j]
  BY DEF Boundary
<1>2. m \in 1..Len(Frames) /\ m \in 0..Len(Frames) /\ m - 1 \in 0..Len(Frames) /\ j \in Nat
  BY CountIs
<1>3. EndOf[m] \in Nat /\ EndOf[m - 1] \in Nat /\ EndOf[j] \in Nat
  BY <1>2, EndOfIs
<1>4. ~(j < m - 1)
  BY <1>1, <1>2, <1>3, EndOfGrows
<1>5. ~(m < j)
  BY <1>1, <1>2, <1>3, EndOfGrows
<1>6. j # m - 1
  BY <1>1, <1>3
<1>7. j = m
  BY <1>2, <1>4, <1>5, <1>6
<1> QED BY <1>1, <1>7

(* What is lost belongs to a frame. *)
LEMMA TouchedIs ==
  ASSUME NEW x \in Nat, NEW y \in Nat, x < y, y <= Len(Line)
  PROVE  Touched(x + 1, y) # {}
<1> DEFINE T == {n \in 0..Len(Frames) : x + 1 <= EndOf[n]}
<1>1. Len(Frames) \in T
  BY CountIs, LineIs
<1>2. T \subseteq Nat
  BY CountIs
<1>3. PICK n \in T : \A k \in T : n <= k
  BY <1>1, <1>2, LeastNumber
<1>4. n # 0
  BY EndOfIs
<1>5. n \in Numbers /\ n - 1 \in 0..Len(Frames) /\ ~(n <= n - 1)
  BY <1>4, CountIs
<1>6. ~(x + 1 <= EndOf[n - 1])
  BY <1>3, <1>5
<1>7. EndOf[n - 1] < y
  BY <1>5, <1>6, FrameIs
<1> QED BY <1>5, <1>7 DEF Touched

LEMMA ReceiveFollows ==
  ASSUME TypesHold, TimerHolds, PathHolds, paced' = paced, NEW n \in Nat \ {0}, Receive(n)
  PROVE  PathHolds'
<1>1. PICK end \in Boundary \cup {pos + n} :
        Reaches(n, end) /\ pos' = end /\ chunk' = SubSeq(Line, pos + 1, end)
  BY DEF Receive
<1>2. /\ tpc' = [tpc EXCEPT !["rx"] = "stop_check"]
      /\ UNCHANGED <<damaged, parser, delivered, reset>>
  BY DEF Receive, Goto
<1>3. pos \in Nat /\ end \in Nat /\ pos < end /\ end <= Len(Line)
  BY <1>1, ReachesIs DEF TypesHold, TypeOK
<1>4. /\ tpc["rx"] = "idle" /\ (paced /\ pos \in Boundary => Quiet)
      /\ paced => \A b \in {c \in Boundary : c > pos} : end <= b
  BY <1>1 DEF Reaches
<1>5. chunk = <<>> /\ Len(chunk) = 0 /\ Here = pos
  BY <1>3, <1>4 DEF PathHolds, ChunkHolds, Here
<1>6. Len(chunk') = end - pos /\ \A i \in 1..end - pos : chunk'[i] = Line[pos + i]
  <2>1. Line \in Seq(Bytes)
    BY LineIs
  <2> QED BY <1>1, <1>3, <2>1, CutIs
<1>7. Here' = pos
  BY <1>1, <1>3, <1>6 DEF Here
<1>8. tpc'["rx"] # "idle"
  <2>1. tpc \in [Tasks -> Labels] /\ "rx" \in Tasks
    BY DEF TypesHold, TypeOK, TaskTypeOK, Labels, Tasks
  <2> QED BY <1>2, <2>1
<1>9. ASSUME paced, NEW m \in Numbers
      PROVE  ~(pos < EndOf[m] /\ EndOf[m] <= end - 1)
  <2>1. EndOf[m] \in Boundary /\ EndOf[m] \in Nat
    BY FrameIs, CountIs DEF Boundary
  <2> QED BY <1>3, <1>4, <1>9, <2>1
<1>10. ChunkHolds'
  <2>1. (paced => Ending(Here, pos - 1) = {})'
    BY <1>1, <1>7, <1>9 DEF Ending
  <2>2. (Len(chunk) <= pos)'
    BY <1>1, <1>3, <1>6
  <2>3. (\A i \in 1..Len(chunk) : chunk[i] = Line[Here + i])'
    BY <1>6, <1>7
  <2>4. pos' # 0
    BY <1>1, <1>3
  <2> QED BY <1>8, <2>1, <2>2, <2>3, <2>4 DEF ChunkHolds
<1>11. ASSUME Sound
       PROVE  Followed'
  <2>1. Followed
    BY <1>11 DEF PathHolds
  <2>2. ASSUME pos \in Boundary, paced PROVE parser.state = "WAIT_HEADER_0"
    <3>1. Quiet /\ Kicked
      BY <1>4, <2>2 DEF TimerHolds
    <3> QED BY <1>4, <3>1 DEF Kicked, Quiet, Coming
  <2>3. ASSUME NEW m \in Numbers, NEW k \in 0..PacketSize(Frames[m]), pos = EndOf[m - 1] + k,
               m \notin damaged
        PROVE  At(Frames[m], k, parser)
    <3>0. /\ EndOf[m - 1] \in Nat /\ k \in Nat
          /\ InStep(pos, parser)
      BY <1>5, <2>1, FrameIs DEF Followed
    <3>1. CASE k # 0
      BY <2>3, <3>0, <3>1 DEF InStep
    <3>2. CASE k = 0
      <4>1. pos = EndOf[m - 1] /\ m - 1 \in 0..Len(Frames)
        BY <2>3, <3>0, <3>2, CountIs
      <4>2. pos \in Boundary
        BY <4>1 DEF Boundary
      <4>3. parser.state = "WAIT_HEADER_0"
        <5>1. CASE paced
          BY <2>2, <4>2, <5>1
        <5>2. CASE pos = 0
          BY <2>1, <5>2 DEF Followed
        <5>3. CASE ~paced /\ pos # 0
          <6>1. m - 1 \in Numbers /\ m - 1 \notin damaged
            BY <1>11, <4>1, <5>3, EndOfIs, CountIs DEF Sound
          <6> DEFINE w == PacketSize(Frames[m - 1])
          <6>2. w \in 0..w /\ w # 0 /\ pos = EndOf[(m - 1) - 1] + w
            BY <4>1, <6>1, FrameIs
          <6>3. At(Frames[m - 1], w, parser)
            BY <3>0, <6>1, <6>2 DEF InStep
          <6> QED BY <6>1, <6>3, WaitIs
        <5> QED BY <5>1, <5>2, <5>3
      <4> QED BY <3>2, <4>3, WaitIs
    <3> QED BY <3>1, <3>2
  <2>4. InStep(Here, parser)'
    BY <1>2, <1>7, <2>3 DEF InStep
  <2>5. (\A i \in Numbers \ damaged : EndOf[i] <= Here => Found(i))'
    BY <1>2, <1>5, <1>7, <2>1 DEF Followed, Found
  <2>6. pos' # 0
    BY <1>1, <1>3
  <2> QED BY <2>4, <2>5, <2>6 DEF Followed
<1>12. Sound' => Sound
  BY <1>2, paced' = paced DEF Sound
<1> QED BY <1>10, <1>11, <1>12 DEF PathHolds

LEMMA LoseFollows ==
  ASSUME TypesHold, TimerHolds, PathHolds, paced' = paced, NEW n \in Nat \ {0}, Lose(n)
  PROVE  PathHolds'
<1>1. PICK end \in Boundary \cup {pos + n} :
        Reaches(n, end) /\ pos' = end /\ damaged' = damaged \cup Touched(pos + 1, end)
  BY DEF Lose
<1>2. UNCHANGED <<parser, chunk, delivered, reset, tpc>>
  BY DEF Lose, parserVars
<1>3. pos \in Nat /\ end \in Nat /\ pos < end /\ end <= Len(Line)
  BY <1>1, ReachesIs DEF TypesHold, TypeOK
<1>4. tpc["rx"] = "idle"
  BY <1>1 DEF Reaches
<1>5. chunk = <<>> /\ Len(chunk) = 0 /\ Here = pos
  BY <1>3, <1>4 DEF PathHolds, ChunkHolds, Here
<1>6. chunk' = <<>> /\ Len(chunk') = 0 /\ Here' = end /\ pos' # 0
  BY <1>1, <1>2, <1>3, <1>5 DEF Here
<1>7. ChunkHolds'
  <2>1. Ending(Here, pos - 1)' = {}
    BY <1>1, <1>3, <1>6, FrameIs DEF Ending
  <2> QED BY <1>1, <1>3, <1>6, <2>1 DEF ChunkHolds
<1>8. ASSUME NEW m \in Numbers, EndOf[m - 1] < end, pos < EndOf[m]
      PROVE  m \in damaged'
  <2>1. pos + 1 <= EndOf[m]
    BY <1>3, <1>8, FrameIs
  <2> QED BY <1>1, <1>8, <2>1 DEF Touched
<1>9. ASSUME Sound'
      PROVE  Followed'
  <2>1. paced
    BY <1>1, <1>3, <1>9, TouchedIs DEF Sound
  <2>2. Followed
    BY <2>1 DEF PathHolds, Sound
  <2>3. InStep(Here, parser)'
    <3> SUFFICES ASSUME NEW m \in Numbers, NEW k \in 0..PacketSize(Frames[m]),
                        end = EndOf[m - 1] + k, m \notin damaged', k = 0 => end < end
                 PROVE  FALSE
      BY <1>1, <1>6 DEF InStep
    <3>1. EndOf[m - 1] < end /\ pos < EndOf[m]
      BY <1>3, FrameIs
    <3> QED BY <1>8, <3>1
  <2>4. (\A i \in Numbers \ damaged : EndOf[i] <= Here => Found(i))'
    <3> SUFFICES ASSUME NEW i \in Numbers, i \notin damaged', EndOf[i] <= end
                 PROVE  Found(i)'
      BY <1>6
    <3>1. EndOf[i] <= pos
      BY <1>3, <1>8, FrameIs
    <3>2. i \notin damaged
      BY <1>1
    <3> QED BY <1>2, <1>5, <2>2, <3>1, <3>2 DEF Followed, Found
  <2> QED BY <1>6, <2>3, <2>4 DEF Followed
<1> QED BY <1>7, <1>9 DEF PathHolds

LEMMA ParseFollows ==
  ASSUME TypesHold, TimerHolds, PathHolds, paced' = paced, Parse
  PROVE  PathHolds'
<1> DEFINE r == ParseNextPacket(parser, chunk)
<1>1. /\ parser' = r.parser /\ delivered' = delivered \o r.packets
      /\ chunk' = SubSeq(chunk, r.consumed + 1, Len(chunk))
      /\ UNCHANGED <<pos, damaged, reset>>
      /\ tpc["rx"] = "parse"
  BY DEF Parse, lineVars
<1>2. tpc'["rx"] = "idle" => chunk' = <<>>
  <2>1. CASE chunk' = <<>>
    BY <2>1
  <2>2. CASE chunk' # <<>>
    BY <1>1, <2>2 DEF Parse
  <2> QED BY <2>1, <2>2
<1>3. /\ ParserOK(parser) /\ chunk \in Seq(Bytes) /\ delivered \in Seq(Packets)
      /\ pos \in Nat /\ Len(chunk) \in Nat
  <2>1. Len(Line) \in Nat
    BY LineIs
  <2> QED BY <2>1 DEF TypesHold, TypeOK, LineTypeOK, ParserTypeOK
<1>4. /\ Here \in Nat /\ Here + Len(chunk) = pos
      /\ \A i \in 1..Len(chunk) : chunk[i] = Line[Here + i]
      /\ pos # 0
  BY <1>1, <1>3 DEF Here, PathHolds, ChunkHolds
<1>5. r.packets \in Seq(Packets) /\ r.consumed \in 0..Len(chunk)
  BY <1>3, ParseOK
<1> HIDE DEF r
<1>6. /\ Len(chunk') = Len(chunk) - r.consumed
      /\ \A i \in 1..Len(chunk) - r.consumed : chunk'[i] = chunk[r.consumed + i]
  <2>1. r.consumed \in Nat /\ r.consumed <= Len(chunk)
    BY <1>3, <1>5
  <2> QED BY <1>1, <1>3, <2>1, CutIs
<1>7. Here' = Here + r.consumed
  BY <1>1, <1>3, <1>4, <1>5, <1>6 DEF Here
<1>8. ChunkHolds'
  <2>1. (\A i \in 1..Len(chunk) : chunk[i] = Line[Here + i])'
    <3> SUFFICES ASSUME NEW i \in 1..Len(chunk) - r.consumed
                 PROVE  chunk'[i] = Line[(Here + r.consumed) + i]
      BY <1>6, <1>7
    <3>1. r.consumed + i \in 1..Len(chunk) /\ Here + (r.consumed + i) = (Here + r.consumed) + i
      BY <1>3, <1>4, <1>5
    <3> QED BY <1>4, <1>6, <3>1
  <2>2. (paced => Ending(Here, pos - 1) = {})'
    <3> SUFFICES ASSUME paced, NEW m \in Ending(Here + r.consumed, pos - 1) PROVE FALSE
      BY <1>1, <1>7, paced' = paced DEF Ending
    <3>1. m \in Ending(Here, pos - 1)
      BY <1>3, <1>4, <1>5, FrameIs DEF Ending
    <3> QED BY <3>1 DEF PathHolds, ChunkHolds
  <2>3. (Len(chunk) <= pos)'
    BY <1>1, <1>3, <1>4, <1>5, <1>6
  <2> QED BY <1>1, <1>2, <1>4, <2>1, <2>2, <2>3 DEF ChunkHolds
<1>9. ASSUME Sound
      PROVE  Followed'
  <2>1. Followed
    BY <1>9 DEF PathHolds
  <2>2. \A m \in Ending(Here, pos - 1) : m \notin damaged
    BY <1>9 DEF PathHolds, ChunkHolds, Sound
  <2>3. /\ InStep(Here + r.consumed, r.parser)
        /\ \A m \in Ending(Here, Here + r.consumed) \ damaged : r.packets = <<Frames[m]>>
    <3> DEFINE q == Here
    <3>1. /\ q \in Nat /\ q + Len(chunk) = pos /\ \A i \in 1..Len(chunk) : chunk[i] = Line[q + i]
          /\ InStep(q, parser) /\ \A m \in Ending(q, pos - 1) : m \notin damaged
      BY <1>4, <2>1, <2>2 DEF Followed
    <3>2. r = ParseNextPacket(parser, chunk)
      BY DEF r
    <3> HIDE DEF q
    <3>3. ParserOK(parser) /\ chunk \in Seq(Bytes) /\ pos \in 0..Len(Line)
      BY <1>3 DEF TypesHold, TypeOK, LineTypeOK
    <3>4. /\ InStep(q + r.consumed, r.parser)
          /\ \A m \in Ending(q, q + r.consumed) \ damaged : r.packets = <<Frames[m]>>
      BY ONLY <3>1, <3>2, <3>3, ParseFrames
    <3> QED BY <3>4 DEF q
  <2>4. InStep(Here, parser)'
    BY <1>1, <1>7, <2>3 DEF InStep
  <2>5. ASSUME NEW i \in Numbers, i \notin damaged, EndOf[i] <= Here + r.consumed
        PROVE  Found(i)'
    <3>1. CASE EndOf[i] <= Here
      <4>1. PICK k \in 1..Len(delivered) : delivered[k] = Frames[i]
        BY <2>1, <2>5, <3>1 DEF Followed, Found
      <4>2. k \in 1..Len(delivered') /\ delivered'[k] = delivered[k]
        BY <1>1, <1>3, <1>5
      <4> QED BY <4>1, <4>2 DEF Found
    <3>2. CASE ~(EndOf[i] <= Here)
      <4>1. i \in Ending(Here, Here + r.consumed) \ damaged
        BY <1>4, <2>5, <3>2, FrameIs DEF Ending
      <4>2. r.packets = <<Frames[i]>>
        BY <2>3, <4>1
      <4> DEFINE k == Len(delivered) + 1
      <4>3. k \in 1..Len(delivered') /\ delivered'[k] = Frames[i]
        BY <1>1, <1>3, <1>5, <4>2
      <4> QED BY <4>3 DEF Found
    <3> QED BY <3>1, <3>2
  <2>6. (\A i \in Numbers \ damaged : EndOf[i] <= Here => Found(i))'
    BY <1>1, <1>7, <2>5
  <2> QED BY <1>1, <1>4, <2>4, <2>6 DEF Followed
<1>10. Sound' => Sound
  BY <1>1, paced' = paced DEF Sound
<1> QED BY <1>8, <1>9, <1>10 DEF PathHolds

LEMMA TimeoutFollows ==
  ASSUME TypesHold, TimerHolds, PathHolds, paced' = paced, Timeout
  PROVE  PathHolds'
<1>1. /\ tpc["watchdog"] = "callback" /\ tpc'["rx"] = tpc["rx"]
      /\ UNCHANGED <<pos, damaged, chunk, delivered>>
      /\ \/ parser.state = "WAIT_HEADER_0" /\ parser' = parser /\ reset' = reset
         \/ parser' = ParserReset(parser) /\ reset' = TRUE
  <2>1. tpc \in [Tasks -> Labels] /\ "rx" \in Tasks
    BY DEF TypesHold, TypeOK, TaskTypeOK, Labels, Tasks
  <2> QED BY <2>1 DEF Timeout, Goto, lineVars
<1>2. parser'.state = "WAIT_HEADER_0"
  <2>1. parser \in Parsers
    BY DEF TypesHold, ParserOK
  <2> QED BY <1>1, <2>1, ResetOK
<1>3. Here' = Here /\ ChunkHolds'
  BY <1>1, paced' = paced DEF Here, PathHolds, ChunkHolds, Ending
<1>4. ASSUME Followed, InStep(Here, parser')
      PROVE  Followed'
  <2>1. InStep(Here, parser)'
    BY <1>1, <1>3, <1>4 DEF InStep
  <2> QED BY <1>1, <1>2, <1>3, <1>4, <2>1 DEF Followed, Found
<1>5. CASE parser' = parser /\ reset' = reset
  <2>1. Sound' => Sound
    BY <1>1, <1>5, paced' = paced DEF Sound
  <2> QED BY <1>3, <1>4, <1>5, <2>1 DEF PathHolds, Followed
<1>6. CASE reset' = TRUE
  <2> SUFFICES ASSUME paced PROVE Followed'
    BY <1>3, <1>6, paced' = paced DEF PathHolds, Sound
  <2>1. pos \in Boundary /\ tpc["rx"] = "idle"
    BY <1>1 DEF TimerHolds, Paced
  <2>2. Followed
    BY DEF PathHolds, Sound
  <2>3. pos \in Nat /\ Here = pos
    <3>1. chunk = <<>> /\ Len(chunk) = 0
      BY <2>1 DEF PathHolds, ChunkHolds
    <3>2. pos \in Nat
      BY LineIs DEF TypesHold, TypeOK, LineTypeOK
    <3> QED BY <3>1, <3>2 DEF Here
  <2>4. InStep(Here, parser')
    <3> SUFFICES ASSUME NEW m \in Numbers, NEW k \in 0..PacketSize(Frames[m]),
                        pos = EndOf[m - 1] + k, k = 0 => pos < pos
                 PROVE  At(Frames[m], k, parser')
      BY <2>3 DEF InStep
    <3>1. EndOf[m - 1] < pos /\ pos <= EndOf[m]
      BY <2>3, FrameIs
    <3>2. pos = EndOf[m]
      BY <2>1, <3>1, InFrame
    <3>3. k = PacketSize(Frames[m])
      BY <3>2, FrameIs
    <3> QED BY <1>2, <3>3, WaitIs
  <2> QED BY <1>4, <2>2, <2>4
<1> QED BY <1>1, <1>5, <1>6

LEMMA PathKept ==
  ASSUME TypesHold, TimerHolds, PathHolds, Next
  PROVE  PathHolds'
<1>1. ASSUME UNCHANGED <<lineVars, parserVars, paced>>, tpc'["rx"] = "idle" <=> tpc["rx"] = "idle"
      PROVE  PathHolds'
  BY <1>1 DEF lineVars, parserVars, PathHolds, ChunkHolds, Followed, Sound, Here, InStep,
              Ending, Found
<1>2. "rx" \in Tasks /\ tpc \in [Tasks -> Labels] /\ TaskTypeOK
  BY DEF TypesHold, TypeOK, TaskTypeOK, Labels, Tasks
<1>3. CASE Finished
  BY <1>1, <1>3 DEF Finished, vars, pathVars
<1>4. ASSUME Flagged
      PROVE  paced' = paced
  BY <1>4, FlaggedIs
<1>5. ASSUME NEW t \in Tasks, Moves(t), paced' = paced
      PROVE  PathHolds'
  <2>1. tpc'["rx"] = "idle" <=> tpc["rx"] = "idle"
    BY <1>2, <1>5 DEF Moves
  <2> QED BY <1>1, <1>5, <2>1 DEF Moves
<1>6. ASSUME Wake \/ Alarm, paced' = paced
      PROVE  PathHolds'
  <2>1. tpc'["rx"] = "idle" <=> tpc["rx"] = "idle"
    BY <1>2, <1>6 DEF Wake, Alarm, Goto
  <2> QED BY <1>1, <1>6, <2>1 DEF Wake, Alarm
<1> QED BY <1>2, <1>3, <1>4, <1>5, <1>6, NextCases, TimerStepIs, ReceiveFollows, LoseFollows,
           ParseFollows, TimeoutFollows

LEMMA PathStutters == PathHolds /\ UNCHANGED vars => PathHolds'
BY DEF vars, pathVars, lineVars, parserVars, timerVars, PathHolds, ChunkHolds, Followed,
       Sound, Here, InStep, Ending, Found

(* Every frame that arrived whole is delivered as long as no frame lost    *)
(* bytes and no timeout struck inside one; on a paced line a damaged frame *)
(* takes no other one with it.  For every sequence of packets, every way   *)
(* to cut the line into chunks and every pattern of losses.                *)
THEOREM FramesArrive == Spec => []UndamagedDelivered
<1>1. TypesHold /\ TimerHolds /\ Init => PathHolds
  BY PathInit
<1>2. TypesHold /\ TimerHolds /\ PathHolds /\ [Next]_vars => PathHolds'
  BY PathKept, PathStutters
<1>3. TypesHold /\ PathHolds => UndamagedDelivered
  <2> SUFFICES ASSUME TypesHold, PathHolds, tpc["rx"] = "idle",
                      paced \/ (damaged = {} /\ ~reset), NEW n \in Arrived \ damaged
               PROVE  \E k \in 1..Len(delivered) : delivered[k] = Frames[n]
    BY DEF UndamagedDelivered
  <2>1. pos \in Nat
    BY LineIs DEF TypesHold, TypeOK, LineTypeOK
  <2>2. chunk = <<>> /\ Len(chunk) = 0
    BY DEF PathHolds, ChunkHolds
  <2>3. Here = pos
    BY <2>1, <2>2 DEF Here
  <2> QED BY <2>3 DEF PathHolds, Sound, Followed, Found, Arrived
<1> QED BY <1>1, <1>2, <1>3, HoldsAlways, PTL DEF Spec

-----------------------------------------------------------------------------
(* decode() undoes encode(), for every packet that fits. *)
THEOREM RoundTrip ==
  ASSUME NEW p \in Packets, Len(p.payload) <= MaxPayload
  PROVE  Decode(Encode(p)) = [code |-> "OK", packets |-> <<p>>]
<1> DEFINE raw == Encode(p)
           len == Len(p.payload)
           Fails(code) == [code |-> code, packets |-> <<>>]
<1>0. /\ len \in Nat /\ len \in Words /\ p.payload \in Seq(Bytes) /\ p.seq_id \in Words
      /\ p.version = VER1 /\ len <= MaxPayload /\ MaxPayload \in Nat
  <2>1. p.payload \in Seq(Bytes) /\ p.seq_id \in Words /\ p.version = VER1
    BY DEF Packets
  <2>2. len \in Nat /\ len <= MaxPayload
    BY <2>1
  <2>3. len \in Words /\ MaxPayload \in Nat
    BY <2>2, MaxPayloadIs, RangeIs
  <2> QED BY <2>1, <2>2, <2>3
<1>1. /\ raw \in Seq(Bytes) /\ Len(raw) = 11 + len
      /\ raw[1] = HEADER_0 /\ raw[2] = HEADER_1 /\ raw[3] = HEADER_2
      /\ \A k \in 1..6 + len : raw[3 + k] = Covered(p)[k]
      /\ raw[10 + len] = Byte(Crc(Covered(p)), 0)
      /\ raw[11 + len] = Byte(Crc(Covered(p)), 8)
  BY EncodeIs DEF PacketSize
<1>2. /\ Covered(p)[1] = Low(p.seq_id) /\ Covered(p)[2] = High(p.seq_id)
      /\ Covered(p)[3] = VER1 /\ Covered(p)[4] = p.command
      /\ Covered(p)[5] = Low(len) /\ Covered(p)[6] = High(len)
      /\ \A k \in 1..len : Covered(p)[6 + k] = p.payload[k]
  BY CoveredIs
<1> HIDE DEF raw, len
<1>3. /\ raw[4] = Low(p.seq_id) /\ raw[5] = High(p.seq_id) /\ raw[6] = VER1
      /\ raw[7] = p.command /\ raw[8] = Low(len) /\ raw[9] = High(len)
  <2>1. \A k \in 1..6 : k \in 1..6 + len
    BY <1>0
  <2>2. \A k \in 1..6 : raw[3 + k] = Covered(p)[k]
    BY <1>1, <2>1
  <2>3. /\ raw[4] = Covered(p)[1] /\ raw[5] = Covered(p)[2] /\ raw[6] = Covered(p)[3]
        /\ raw[7] = Covered(p)[4] /\ raw[8] = Covered(p)[5] /\ raw[9] = Covered(p)[6]
    BY <2>2
  <2> QED BY <1>2, <2>3
<1>4. raw[8] + 256 * raw[9] = len /\ raw[4] + 256 * raw[5] = p.seq_id
  BY <1>0, <1>3, HalvesIs
<1> DEFINE cut == SubSeq(raw, 10, 9 + len)
<1>5. cut = p.payload
  <2>1. 9 \in Nat /\ 9 + len \in Nat /\ 9 <= 9 + len /\ 9 + len <= Len(raw) /\ 9 + 1 = 10
        /\ (9 + len) - 9 = len
    BY <1>0, <1>1
  <2>2. /\ cut \in Seq(Bytes) /\ Len(cut) = len
        /\ \A k \in 1..len : cut[k] = raw[9 + k]
    BY <1>1, <2>1, CutIs
  <2> HIDE DEF cut
  <2>3. ASSUME NEW k \in 1..len PROVE cut[k] = p.payload[k]
    <3>1. 6 + k \in 1..6 + len /\ 3 + (6 + k) = 9 + k
      BY <1>0
    <3>2. raw[9 + k] = Covered(p)[6 + k]
      BY <1>1, <3>1
    <3> QED BY <1>2, <2>2, <3>2
  <2>4. Prefix(cut, p.payload, Len(p.payload))
    BY <2>2, <2>3 DEF Prefix, len
  <2> QED BY <1>0, <2>2, <2>4, PrefixAll
<1> HIDE DEF cut
<1> DEFINE packet == [seq_id  |-> raw[4] + 256 * raw[5], version |-> raw[6], command |-> raw[7],
                      payload |-> cut]
           crc == Bits(raw[10 + len]) \cup ShiftLeft(Bits(raw[11 + len]), 8)
<1>6. packet = p
  BY <1>0, <1>3, <1>4, <1>5 DEF Packets
<1>7. crc = Crc(Covered(p))
  <2>1. Crc(Covered(p)) \subseteq 0..15
    BY CrcIs, CoveredIs
  <2> QED BY <1>1, <2>1, BytesGiveCrc
<1>8. DecodeWhole(raw, len) = [code |-> "OK", packets |-> <<p>>]
  <2>1. DecodeWhole(raw, len) =
          IF Crc(Covered(packet)) = crc
          THEN [code |-> "OK", packets |-> <<packet>>]
          ELSE [code |-> "ERR_CRC", packets |-> <<>>]
    BY Zenon DEF DecodeWhole, cut
  <2> HIDE DEF packet, crc
  <2> QED BY <1>6, <1>7, <2>1
<1>9. SubSeq(raw, 1, 3) = <<HEADER_0, HEADER_1, HEADER_2>>
  <2>1. 0 \in Nat /\ 3 \in Nat /\ 0 <= 3 /\ 3 <= Len(raw) /\ 0 + 1 = 1
    BY <1>0, <1>1
  <2>2. /\ SubSeq(raw, 1, 3) \in Seq(Bytes) /\ Len(SubSeq(raw, 1, 3)) = 3
        /\ \A k \in 1..3 : SubSeq(raw, 1, 3)[k] = raw[k]
    BY <1>1, <2>1, CutIs
  <2> DEFINE head == SubSeq(raw, 1, 3)
  <2> HIDE DEF head
  <2>3. head \in Seq(Bytes) /\ Len(head) = 3 /\ head[1] = HEADER_0 /\ head[2] = HEADER_1
        /\ head[3] = HEADER_2
    BY <1>1, <2>2 DEF head
  <2>4. head = <<HEADER_0, HEADER_1, HEADER_2>>
    BY <2>3
  <2> QED BY <2>4 DEF head
<1>10. Decode(raw) = DecodeWhole(raw, len)
  <2>1. /\ ~(Len(raw) > 14 + MaxPayload) /\ ~(Len(raw) < 11) /\ ~(len > MaxPayload)
        /\ ~(Len(raw) < 11 + len)
    BY <1>0, <1>1
  <2>2. Decode(raw) =
         LET size == raw[8] + 256 * raw[9]
         IN  IF Len(raw) > 14 + MaxPayload THEN Fails("ERR_OVERFLOW")
             ELSE IF Len(raw) < 11 THEN Fails("ERR_INVALID_ARG")
             ELSE IF SubSeq(raw, 1, 3) # <<HEADER_0, HEADER_1, HEADER_2>>
             THEN Fails("ERR_PARSER")
             ELSE IF size > MaxPayload THEN Fails("ERR_OVERFLOW")
             ELSE IF Len(raw) < 11 + size THEN Fails("ERR_INVALID_ARG")
             ELSE DecodeWhole(raw, size)
    BY Zenon DEF Decode
  <2> HIDE DEF Fails
  <2> QED BY <1>4, <1>9, <2>1, <2>2, Zenon
<1> QED BY <1>8, <1>10 DEF raw

-----------------------------------------------------------------------------
(* On a line without loss and timeout, the packets so far are the frames   *)
(* so far.                                                                 *)
FirstFrames ==
  /\ Len(delivered) <= Len(Frames)
  /\ \A k \in 1..Len(delivered) : delivered[k] = Frames[k]
  /\ \A n \in Numbers : n <= Len(delivered) <=> EndOf[n] <= Here

OrderHolds == damaged = {} /\ ~reset => FirstFrames

LEMMA ParseOrdered ==
  ASSUME TypesHold, PathHolds, FirstFrames, damaged = {}, ~reset, Parse
  PROVE  FirstFrames'
<1> DEFINE r == ParseNextPacket(parser, chunk)
           q == Here
           y == Here + r.consumed
<1>1. /\ parser' = r.parser /\ delivered' = delivered \o r.packets
      /\ chunk' = SubSeq(chunk, r.consumed + 1, Len(chunk))
      /\ pos' = pos /\ tpc["rx"] = "parse"
  BY DEF Parse, lineVars
<1>2. /\ ParserOK(parser) /\ chunk \in Seq(Bytes) /\ delivered \in Seq(Packets)
      /\ pos \in 0..Len(Line) /\ pos \in Nat /\ Len(chunk) \in Nat /\ Len(delivered) \in Nat
  <2>1. Len(Line) \in Nat
    BY LineIs
  <2> QED BY <2>1 DEF TypesHold, TypeOK, LineTypeOK, ParserTypeOK
<1>3. /\ q \in Nat /\ q + Len(chunk) = pos
      /\ \A i \in 1..Len(chunk) : chunk[i] = Line[q + i]
      /\ InStep(q, parser) /\ \A m \in Ending(q, pos - 1) : m \notin damaged
  <2>1. Followed
    BY DEF PathHolds, Sound
  <2> QED BY <1>2, <2>1 DEF Here, PathHolds, ChunkHolds, Followed
<1>4. /\ r.consumed \in 0..Len(chunk)
      /\ \A m \in Ending(q, y) \ damaged : r.packets = <<Frames[m]>>
      /\ damaged = {} /\ r.packets # <<>> => OneEnds(q, y)
  <2>1. r = ParseNextPacket(parser, chunk)
    OBVIOUS
  <2> HIDE DEF q, r
  <2> DEFINE x == q
  <2>2. q = x /\ y = x + r.consumed
    BY DEF q
  <2> HIDE DEF x, y
  <2>3. /\ x \in Nat /\ x + Len(chunk) = pos /\ \A i \in 1..Len(chunk) : chunk[i] = Line[x + i]
        /\ InStep(x, parser) /\ \A m \in Ending(x, pos - 1) : m \notin damaged
    BY <1>3, <2>2
  <2>4. ParserOK(parser) /\ chunk \in Seq(Bytes) /\ pos \in 0..Len(Line)
    BY <1>2
  <2>5. /\ r.consumed \in 0..Len(chunk)
        /\ \A m \in Ending(x, x + r.consumed) \ damaged : r.packets = <<Frames[m]>>
        /\ damaged = {} /\ r.packets # <<>> => OneEnds(x, x + r.consumed)
    BY ONLY <2>1, <2>3, <2>4, ParseFrames
  <2> QED BY <2>2, <2>5
<1>5. Here' = y
  <2>1. r.consumed \in Nat /\ r.consumed <= Len(chunk)
    BY <1>2, <1>4
  <2> HIDE DEF r
  <2>2. Len(chunk') = Len(chunk) - r.consumed
    BY <1>1, <1>2, <2>1, CutIs
  <2> DEFINE len == Len(chunk)
             rest == Len(chunk')
  <2>3. len \in Nat /\ pos \in Nat /\ r.consumed \in Nat /\ rest = len - r.consumed
    BY <1>2, <2>1, <2>2
  <2>4. Here' = pos - rest /\ y = (pos - len) + r.consumed
    BY <1>1 DEF Here
  <2> HIDE DEF len, rest, y
  <2> QED BY <2>3, <2>4
<1>6. q \in Nat /\ y \in Nat /\ q <= y
  BY <1>2, <1>3, <1>4
<1>7. /\ Len(delivered) <= Len(Frames) /\ \A k \in 1..Len(delivered) : delivered[k] = Frames[k]
      /\ \A n \in Numbers : n <= Len(delivered) <=> EndOf[n] <= q
  BY DEF FirstFrames
<1>8. Len(Frames) \in Nat /\ Numbers = 1..Len(Frames)
  BY CountIs
<1> HIDE DEF r, q, y
<1>9. CASE Ending(q, y) = {}
  <2>1. r.packets = <<>>
    BY <1>4, <1>9 DEF OneEnds
  <2>2. delivered' = delivered
    BY <1>1, <1>2, <2>1
  <2>3. \A n \in Numbers : EndOf[n] <= q <=> EndOf[n] <= y
    BY <1>6, <1>9, FrameIs DEF Ending
  <2> QED BY <1>5, <1>7, <2>2, <2>3 DEF FirstFrames
<1>10. CASE Ending(q, y) # {}
  <2>1. PICK m \in Ending(q, y) : TRUE
    BY <1>10
  <2>2. r.packets = <<Frames[m]>> /\ <<Frames[m]>> # <<>>
    BY <1>4, <2>1
  <2>3. \A n \in Ending(q, y) : n = m
    BY <1>4, <2>1, <2>2 DEF OneEnds
  <2>4. m \in Numbers /\ m \in Nat /\ m >= 1 /\ m <= Len(Frames) /\ q < EndOf[m] /\ EndOf[m] <= y
    BY <1>8, <2>1 DEF Ending
  <2> DEFINE d == Len(delivered)
  <2>5. d < m
    <3>1. ~(EndOf[m] <= q)
      BY <1>6, <2>4, FrameIs
    <3> QED BY <1>2, <1>7, <2>4, <3>1
  <2>6. d + 1 = m
    <3> SUFFICES ASSUME d + 1 < m PROVE FALSE
      BY <1>2, <2>4, <2>5
    <3>1. d + 1 \in Numbers /\ d + 1 # m /\ ~(d + 1 <= d)
      BY <1>2, <1>8, <2>4
    <3>2. ~(EndOf[d + 1] <= q) /\ EndOf[d + 1] \in Nat
      BY <1>7, <3>1, FrameIs
    <3>3. EndOf[d + 1] < EndOf[m]
      <4>1. d + 1 \in 0..Len(Frames) /\ m \in 0..Len(Frames)
        BY <1>8, <2>4, <3>1
      <4>2. EndOf[d + 1] + 11 <= EndOf[m]
        BY <4>1, EndOfGrows
      <4> QED BY <2>4, <3>2, <4>2, FrameIs
    <3>4. d + 1 \in Ending(q, y)
      BY <1>6, <2>4, <3>1, <3>2, <3>3, FrameIs DEF Ending
    <3> QED BY <2>3, <3>1, <3>4
  <2>7. /\ Len(delivered') = m
        /\ \A k \in 1..m : delivered'[k] = Frames[k]
    <3>1. Frames[m] \in Packets
      BY <2>4, PacketSizeIs
    <3>2. delivered' = Append(delivered, Frames[m])
      BY <1>1, <1>2, <2>2, <3>1
    <3>3. Len(delivered') = d + 1 /\ delivered'[d + 1] = Frames[m]
          /\ \A k \in 1..d : delivered'[k] = delivered[k]
      BY <1>2, <3>1, <3>2
    <3>4. \A k \in 1..m : k \in 1..d \/ k = m
      BY <1>2, <2>4, <2>6
    <3> HIDE DEF d
    <3> QED BY <1>7, <2>6, <3>3, <3>4 DEF d
  <2>8. ASSUME NEW n \in Numbers
        PROVE  n <= m <=> EndOf[n] <= y
    <3>1. EndOf[n] <= q <=> n <= d
      BY <1>7
    <3>2. n \in Nat /\ EndOf[n] \in Nat
      BY <1>8, FrameIs
    <3>3. n = m => EndOf[n] <= y
      BY <2>4
    <3>4. EndOf[n] <= y => EndOf[n] <= q \/ n = m
      BY <1>6, <2>3, <3>2 DEF Ending
    <3>5. EndOf[n] <= q => EndOf[n] <= y
      BY <1>6, <3>2
    <3>6. n <= m <=> n <= d \/ n = m
      BY <1>2, <2>4, <2>6, <3>2
    <3> QED BY <3>1, <3>3, <3>4, <3>5, <3>6
  <2> QED BY <1>5, <2>4, <2>7, <2>8 DEF FirstFrames
<1> QED BY <1>9, <1>10

LEMMA OrderKept ==
  ASSUME TypesHold, TimerHolds, PathHolds, OrderHolds, Next
  PROVE  OrderHolds'
<1>1. ASSUME UNCHANGED <<lineVars, parserVars>>
      PROVE  OrderHolds'
  BY <1>1 DEF lineVars, parserVars, OrderHolds, FirstFrames, Here
<1>2. ASSUME NEW n \in Nat \ {0}, Receive(n)
      PROVE  OrderHolds'
  <2>1. PICK end \in Boundary \cup {pos + n} :
          Reaches(n, end) /\ pos' = end /\ chunk' = SubSeq(Line, pos + 1, end)
    BY <1>2 DEF Receive
  <2>2. UNCHANGED <<damaged, delivered, reset>>
    BY <1>2 DEF Receive
  <2>3. pos \in Nat /\ end \in Nat /\ pos < end /\ end <= Len(Line)
    BY <2>1, ReachesIs DEF TypesHold, TypeOK
  <2>4. chunk = <<>> /\ Len(chunk) = 0
    BY <2>1 DEF Reaches, PathHolds, ChunkHolds
  <2>5. Len(chunk') = end - pos
    <3>1. Line \in Seq(Bytes)
      BY LineIs
    <3> QED BY <2>1, <2>3, <3>1, CutIs
  <2>6. Here = pos /\ Here' = pos
    BY <2>1, <2>3, <2>4, <2>5 DEF Here
  <2> QED BY <2>2, <2>6 DEF OrderHolds, FirstFrames
<1>3. ASSUME NEW n \in Nat \ {0}, Lose(n)
      PROVE  OrderHolds'
  <2>1. PICK end \in Boundary \cup {pos + n} :
          Reaches(n, end) /\ damaged' = damaged \cup Touched(pos + 1, end)
    BY <1>3 DEF Lose
  <2>2. pos \in Nat /\ end \in Nat /\ pos < end /\ end <= Len(Line)
    BY <2>1, ReachesIs DEF TypesHold, TypeOK
  <2>3. Touched(pos + 1, end) # {}
    BY <2>2, TouchedIs
  <2> QED BY <2>1, <2>3 DEF OrderHolds
<1>4. CASE Parse
  <2>1. UNCHANGED <<damaged, reset>>
    BY <1>4 DEF Parse, lineVars
  <2> QED BY <1>4, <2>1, ParseOrdered DEF OrderHolds
<1>5. CASE Timeout
  BY <1>5 DEF Timeout, lineVars, OrderHolds, FirstFrames, Here
<1>6. ASSUME NEW t \in Tasks, Moves(t)
      PROVE  OrderHolds'
  BY <1>1, <1>6 DEF Moves
<1>7. CASE Wake \/ Alarm
  BY <1>1, <1>7 DEF Wake, Alarm
<1>8. CASE Finished
  BY <1>1, <1>8 DEF Finished, vars, pathVars
<1>9. TaskTypeOK
  BY DEF TypesHold, TypeOK
<1> QED BY <1>2, <1>3, <1>4, <1>5, <1>6, <1>7, <1>8, <1>9, NextCases, TimerStepIs

(* decode(), given the bytes of frame n, makes of them the packet sent.    *)
LEMMA DecodedIs ==
  ASSUME NEW n \in Numbers
  PROVE  Decoded[n].packets = <<Frames[n]>>
<1> DEFINE f == Frames[n]
           raw == SubSeq(Line, EndOf[n - 1] + 1, EndOf[n])
           size == PacketSize(f)
<1>1. /\ f \in Packets /\ Len(f.payload) <= MaxPayload
      /\ EndOf[n - 1] \in Nat /\ EndOf[n] \in Nat /\ size \in Nat
      /\ EndOf[n] = EndOf[n - 1] + size /\ EndOf[n] <= Len(Line)
  <2>1. n \in 0..Len(Frames)
    BY CountIs
  <2> QED BY <2>1, FrameIs, PacketSizeIs, EndsInLine, LineIs
<1>2. /\ raw \in Seq(Bytes) /\ Len(raw) = size
      /\ \A k \in 1..size : raw[k] = Line[EndOf[n - 1] + k]
  <2> DEFINE from == EndOf[n - 1]
             to == EndOf[n]
  <2>1. from \in Nat /\ to \in Nat /\ from <= to /\ to <= Len(Line) /\ to - from = size
    BY <1>1
  <2> HIDE DEF from, to, size
  <2>2. raw = SubSeq(Line, from + 1, to)
    BY DEF from, to
  <2>3. /\ Line \in Seq(Bytes)
        /\ Len(SubSeq(Line, from + 1, to)) = to - from
        /\ SubSeq(Line, from + 1, to) \in Seq(Bytes)
        /\ \A k \in 1..to - from : SubSeq(Line, from + 1, to)[k] = Line[from + k]
    <3>1. Line \in Seq(Bytes)
      BY LineIs
    <3> QED BY <2>1, <3>1, CutIs
  <2> HIDE DEF raw
  <2> QED BY <2>1, <2>2, <2>3 DEF from
<1>3. Encode(f) \in Seq(Bytes) /\ Len(Encode(f)) = size
  BY <1>1, EncodeIs
<1>4. \A k \in 1..size : raw[k] = Encode(f)[k]
  BY <1>2, LineIs
<1> HIDE DEF raw, size
<1>5. raw = Encode(f)
  BY <1>2, <1>3, <1>4, PrefixAll DEF Prefix
<1>6. Decode(raw) = [code |-> "OK", packets |-> <<f>>]
  BY <1>1, <1>5, RoundTrip
<1> QED BY <1>6 DEF Decoded, raw

(* On a line that loses nothing and where no timeout strikes inside a      *)
(* frame, the packets delivered are the first that were sent, none twice   *)
(* and none out of order, and each is what decode() makes of its frame:    *)
(* for every sequence of packets and every way to cut it into chunks.      *)
THEOREM FramesInOrder == Spec => [](damaged = {} /\ ~reset => DeliveredInOrder)
<1>1. Init => OrderHolds
  <2> SUFFICES ASSUME Init PROVE FirstFrames
    BY DEF OrderHolds
  <2>1. delivered = <<>> /\ Len(delivered) = 0 /\ Len(Frames) \in Nat
    BY CountIs DEF Init
  <2>2. Here = 0
    <3>1. pos = 0 /\ Len(chunk) = 0
      BY DEF Init
    <3> DEFINE len == Len(chunk)
    <3> HIDE DEF len
    <3>2. Here = 0 - 0
      BY <3>1, Zenon DEF Here
    <3> QED BY <3>2
  <2>3. \A n \in Numbers : ~(n <= 0) /\ ~(EndOf[n] <= 0)
    BY CountIs, FrameIs
  <2> QED BY <2>1, <2>2, <2>3 DEF FirstFrames
<1>2. Init => PathHolds
  BY PathInit
<1>3. TypesHold /\ TimerHolds /\ PathHolds /\ [Next]_vars => PathHolds'
  BY PathKept, PathStutters
<1>4. TypesHold /\ TimerHolds /\ PathHolds /\ OrderHolds /\ [Next]_vars => OrderHolds'
  <2>1. OrderHolds /\ UNCHANGED vars => OrderHolds'
    BY DEF vars, pathVars, lineVars, parserVars, OrderHolds, FirstFrames, Here
  <2> QED BY <2>1, OrderKept
<1>5. TypesHold /\ OrderHolds => (damaged = {} /\ ~reset => DeliveredInOrder)
  <2> SUFFICES ASSUME TypesHold, FirstFrames PROVE DeliveredInOrder
    BY DEF OrderHolds
  <2>1. Len(delivered) \in Nat
    BY DEF TypesHold, TypeOK, ParserTypeOK
  <2>2. \A k \in 1..Len(delivered) : k \in Numbers /\ delivered[k] = Frames[k]
    BY <2>1, CountIs DEF FirstFrames
  <2> DEFINE index == [k \in 1..Len(delivered) |-> k]
  <2>3. index \in [1..Len(delivered) -> Numbers]
    BY <2>2
  <2>4. ASSUME NEW k \in 1..Len(delivered)
        PROVE  delivered[k] = Frames[index[k]] /\ Decoded[index[k]].packets = <<delivered[k]>>
    BY <2>2, DecodedIs
  <2>5. \A k, l \in 1..Len(delivered) : k < l => index[k] < index[l]
    OBVIOUS
  <2> HIDE DEF index
  <2> QED BY <2>3, <2>4, <2>5 DEF DeliveredInOrder
<1> QED BY <1>1, <1>2, <1>3, <1>4, <1>5, HoldsAlways, PTL DEF Spec
=============================================================================
