--------------------------- MODULE PyClientProofs ---------------------------
(***************************************************************************)
(* Proofs of what module PyClient promises, whatever the callers, the      *)
(* commands, the width of the counter and the bounds.                      *)
(*                                                                         *)
(* OwnReply needs to know why a reply matches: the entry of an id is the   *)
(* newest call with that id, and equal ids are whole turns of the counter  *)
(* apart.  DeafOnlyForCause needs to know who can have set _stop_event     *)
(* while the client runs: its own RX thread, or one that outlived a stop().*)
(***************************************************************************)
EXTENDS PyClient, TLAPS

(* The numbers are taken one by one, and masked. *)
Numbering ==
  /\ seq_id = Len(issued) % SeqMod
  /\ \A k \in 1..Len(issued) : issued[k].seq = (k - 1) % SeqMod

(* A number that is not taken yet has no answer and no result. *)
Fresh ==
  \A n \in Numbers : n > Len(issued) => response[n] = 0 /\ result[n] = 0

(* A thread's open call is its own and has no result; an RX thread waits   *)
(* for it in a callback.                                                   *)
OpenCall ==
  \A t \in Callers \cup Threads :
    /\ call[t].pc = "idle" <=> call[t].n = 0
    /\ call[t].n # 0 =>
         /\ call[t].n <= Len(issued)
         /\ issued[call[t].n].by = t
         /\ issued[call[t].n].command \in Commands
         /\ result[call[t].n] = 0
         /\ t \in Threads => rx[t].pc \in {"handler", "callback"}

(* An entry of _pending is that of the newest call with its id. *)
NewestPending ==
  \A s \in DOMAIN pending :
    /\ issued[pending[s]].command \in Commands
    /\ \A m \in 1..Len(issued) :
         m > pending[s] /\ issued[m].seq = s => issued[m].command = PUBLISHED

(* The answer to number m may go to call n. *)
Fits(m, n) ==
  /\ m \in 1..n
  /\ (n - m) % SeqMod = 0
  /\ issued[m].command = issued[n].command

PacketFits ==
  \A g \in Threads :
    /\ data[g] \subseteq 1..Len(issued)
    /\ rx[g].pc = "dispatch" /\ rx[g].pkt.kind = "reply" => rx[g].pkt.of <= Len(issued)
    /\ rx[g].pc = "found" =>
         /\ rx[g].pkt.n \in 1..Len(issued)
         /\ Fits(rx[g].pkt.of, rx[g].pkt.n)

(* A call an RX thread made in a callback is answered by another one. *)
AnswerFits ==
  \A n \in 1..Len(issued) :
    response[n] # 0 =>
      /\ Fits(response[n], n)
      /\ issued[n].by \in Threads /\ call[issued[n].by].n = n => outlived

(* Of the RX threads only the last is alive, but for one that outlived its *)
(* stop().                                                                 *)
Generations ==
  /\ running => gen # 0
  /\ main # "idle" => running
  /\ \A g \in Threads :
       /\ rx[g].pc = "none" <=> g > gen
       /\ Alive(g) /\ (g < gen \/ main = "closing" \/ ~running) => outlived
       /\ rx[g].pc = "none" => ended[g] = "not"
       /\ ended[g] \in {"stop_event", "read error", "reply raised"} => rx[g].pc = "dead"
       /\ rx[g].pc = "dead" => ended[g] # "not"

(* An earlier RX thread has failed on its closed port. *)
EarlierFailed ==
  /\ transport = "serial"
  /\ outlived
  /\ \E g \in 1..gen - 1 : ended[g] = "read error"

StopCause ==
  running =>
    /\ ended[gen] = "stopped itself" =>
         stop_event /\ rx[gen].pc \notin {"loop", "reading"}
    /\ main = "idle" =>
         /\ stop_event =>
              ended[gen] \in {"read error", "stopped itself", "reply raised"} \/ EarlierFailed
         /\ ended[gen] = "stop_event" => EarlierFailed

IInv ==
  /\ TypeOK
  /\ Numbering /\ Fresh /\ OpenCall /\ NewestPending /\ PacketFits /\ AnswerFits
  /\ OwnReply /\ PendingExact
  /\ Generations /\ StopCause

-----------------------------------------------------------------------------
(* The counter. *)

LEMMA ModNext ==
  ASSUME NEW M \in Nat \ {0}, NEW a \in Nat
  PROVE  /\ a % M \in 0..M - 1
         /\ (a + 1) % M = ((a % M) + 1) % M
<1> DEFINE q == a \div M  r == a % M
<1>1. a = M * q + r /\ q \in Int /\ r \in 0..M - 1
  OBVIOUS
<1>2. \A k \in Int, s \in 0..M - 1 : (M * k + s) % M = s
  OBVIOUS
<1>3. \A s \in 0..M - 1 : s % M = s
  OBVIOUS
<1>4. a + 1 = M * q + (r + 1) /\ a + 1 = M * (q + 1) + (r + 1 - M)
  BY <1>1
<1> HIDE DEF q, r
<1>5. CASE r = M - 1
  <2>1. a + 1 = M * (q + 1) + 0
    BY <1>1, <1>4, <1>5
  <2>2. (M * (q + 1) + 0) % M = 0
    BY <1>1, <1>2
  <2>3. M % M = 0
    BY <1>2
  <2> QED BY <1>1, <1>5, <2>1, <2>2, <2>3 DEF r
<1>6. CASE r # M - 1
  <2>1. r + 1 \in 0..M - 1
    BY <1>1, <1>6
  <2>2. (M * q + (r + 1)) % M = r + 1
    BY <1>1, <1>2, <2>1
  <2>3. (r + 1) % M = r + 1
    BY <1>3, <2>1
  <2> QED BY <1>1, <1>4, <2>2, <2>3 DEF r
<1> QED BY <1>5, <1>6

(* Equal ids are whole turns apart. *)
LEMMA WholeTurns ==
  ASSUME NEW M \in Nat \ {0}, NEW a \in Nat, NEW b \in Nat, a % M = b % M, a <= b
  PROVE  (b - a) % M = 0
<1> DEFINE q == a \div M  r == b \div M
<1>1. a = M * q + (a % M) /\ q \in Int
  OBVIOUS
<1>2. b = M * r + (b % M) /\ r \in Int
  OBVIOUS
<1>3. b - a = M * (r - q)
  BY <1>1, <1>2
<1>4. r - q \in Int
  BY <1>1, <1>2
<1> HIDE DEF q, r
<1>5. \A k \in Int : (M * k) % M = 0
  OBVIOUS
<1> QED BY <1>3, <1>4, <1>5

-----------------------------------------------------------------------------
(* Who changes what. *)

Client == Start \/ StopBegin \/ StopClose \/ StopDone

LEMMA NextCases ==
  ASSUME [Next]_vars
  PROVE  /\ \/ Client
            \/ \E g \in Threads : RxThread(g)
            \/ \E t \in Callers \cup Threads : Caller(t)
            \/ UNCHANGED vars
         /\ UNCHANGED transport
BY DEF Next, Client, vars

LEMMA ClientFrame ==
  ASSUME Client
  PROVE  UNCHANGED <<callVars, ended>>
BY DEF Client, Start, StopBegin, StopClose, StopDone

LEMMA RxFrame ==
  ASSUME NEW g \in Threads, RxThread(g)
  PROVE  /\ UNCHANGED <<running, gen, open, main, seq_id, issued, pending, call, result,
                        outlived>>
         /\ UNCHANGED response \/ SetResponse(g)
         /\ rx[g].pc \notin {"none", "dead"}
         /\ rx[g].pc \in {"handler", "callback"} => call[g].pc = "idle"
BY DEF RxThread, LoopCheck, Read, ReadError, NextPacket, DispatchReply, SetResponse,
       DispatchRequest, DispatchTopic, HandlerReplies, CallbackReturns, StopInCallback,
       InCallback, clientVars, callVars

(* What thread g has read was sent by then. *)
LEMMA RxData ==
  ASSUME NEW g \in Threads, RxThread(g)
  PROVE  \/ UNCHANGED data
         \/ \E d \in SUBSET (1..Len(issued)) : data' = [data EXCEPT ![g] = d]
<1>1. CASE Read(g)
  BY <1>1 DEF Read
<1>2. CASE LoopCheck(g) \/ ReadError(g) \/ HandlerReplies(g)
  <2>1. UNCHANGED data \/ data' = [data EXCEPT ![g] = {}]
    BY <1>2, Zenon DEF LoopCheck, ReadError, HandlerReplies, Dies
  <2> QED BY <2>1
<1>3. CASE UNCHANGED data
  BY <1>3
<1> QED BY <1>1, <1>2, <1>3 DEF RxThread, NextPacket, DispatchReply, SetResponse,
        DispatchRequest, DispatchTopic, CallbackReturns, StopInCallback

LEMMA CallerFrame ==
  ASSUME NEW t \in Callers \cup Threads, Caller(t)
  PROVE  UNCHANGED <<clientVars, rx, data, outlived, ended>>
BY DEF Caller, Publish, CallPut, CallWrite, CallAnswered, CallTimeout

(* What becomes of thread g: only its own place and packet change, and it  *)
(* ends for a reason.                                                      *)
Places ==
  [pc : {"reading", "next", "dispatch", "found", "handler", "callback", "dead"},
   pkt : Packets \cup {NoPacket} \cup Found]

Moves(g, r) ==
  /\ rx' = [rx EXCEPT ![g] = r]
  /\ r.pc = "dispatch" /\ r.pkt.kind = "reply" => r.pkt.of \in data[g]
  /\ r.pc = "found" =>
       /\ rx[g].pc = "dispatch" /\ rx[g].pkt.kind = "reply"
       /\ r.pkt.of = rx[g].pkt.of /\ r.pkt.n \in Matched(r.pkt.of)
  /\ r.pc = "dead" =>
       \E why \in {"stop_event", "stopped itself", "read error", "reply raised"} :
         ended' = [ended EXCEPT ![g] = why]
  /\ r.pc # "dead" =>
       \/ UNCHANGED ended
       \/ r = rx[g] /\ ended' = [ended EXCEPT ![g] = "stopped itself"]

LEMMA MatchedIs ==
  ASSUME TypeOK, NEW m, NEW n \in Matched(m)
  PROVE  /\ issued[m].seq \in DOMAIN pending /\ n = pending[issued[m].seq]
         /\ n \in 1..Len(issued) /\ n \in Numbers
         /\ issued[n].seq = issued[m].seq /\ issued[n].command = issued[m].command
<1>1. /\ \A s \in DOMAIN pending : pending[s] \in 1..Len(issued) /\ issued[pending[s]].seq = s
      /\ issued \in Seq(Issued) /\ Len(issued) <= MaxIds /\ MaxIds \in Nat
  BY PyClientAssumption DEF TypeOK, CallTypeOK
<1>2. Len(issued) \in Nat
  BY <1>1
<1> QED BY <1>1, <1>2 DEF Matched, Numbers

LEMMA PlaceIs ==
  ASSUME TypeOK, NEW g \in Threads
  PROVE  /\ rx[g].pkt \in Packets \cup {NoPacket} \cup Found
         /\ rx[g] = [pc |-> rx[g].pc, pkt |-> rx[g].pkt]
         /\ rx[g].pkt.kind = "reply" => rx[g].pkt.of \in Numbers
<1>1. /\ rx[g].pkt \in Packets \cup {NoPacket} \cup Found
      /\ rx[g] = [pc |-> rx[g].pc, pkt |-> rx[g].pkt]
  BY DEF TypeOK, RxTypeOK
<1>2. rx[g].pkt.kind = "reply" => rx[g].pkt.of \in Numbers
  BY <1>1 DEF Packets, NoPacket, Found
<1> QED BY <1>1, <1>2

LEMMA RxMoves ==
  ASSUME TypeOK, NEW g \in Threads, RxThread(g)
  PROVE  \E r \in Places : Moves(g, r)
<1>0. /\ rx[g].pkt \in Packets \cup {NoPacket} \cup Found
      /\ rx[g].pkt.kind = "reply" => rx[g].pkt.of \in Numbers
      /\ DOMAIN rx = Threads /\ DOMAIN ended = Threads
      /\ ended[g] \in {"not", "stop_event", "stopped itself", "read error", "reply raised"}
      /\ NoPacket \in Packets \cup {NoPacket} \cup Found
  BY PlaceIs DEF TypeOK, RxTypeOK
<1>1. ASSUME NEW l
      PROVE  [rx EXCEPT ![g].pc = l] = [rx EXCEPT ![g] = [pc |-> l, pkt |-> rx[g].pkt]]
  <2>1. \A a, b : [[pc |-> a, pkt |-> b] EXCEPT !.pc = l] = [pc |-> l, pkt |-> b]
    OBVIOUS
  <2>2. [rx[g] EXCEPT !.pc = l] = [pc |-> l, pkt |-> rx[g].pkt]
    BY <2>1, PlaceIs, Zenon
  <2> QED BY <2>2, Zenon
<1>2. CASE LoopCheck(g)
  <2>1. CASE stop_event
    <3> DEFINE r == [pc |-> "dead", pkt |-> NoPacket]
    <3>1. r \in Places
      BY <1>0 DEF Places
    <3>2. Moves(g, r)
      BY <1>0, <1>2, <2>1 DEF Moves, LoopCheck, Dies, Enter
    <3> QED BY <3>1, <3>2
  <2>2. CASE ~stop_event
    <3> DEFINE r == [pc |-> "reading", pkt |-> rx[g].pkt]
    <3>1. r \in Places
      BY <1>0 DEF Places
    <3>2. Moves(g, r)
      BY <1>1, <1>2, <2>2 DEF Moves, LoopCheck, Goto
    <3> QED BY <3>1, <3>2
  <2> QED BY <2>1, <2>2
<1>3. CASE Read(g)
  <2> DEFINE r == [pc |-> "next", pkt |-> rx[g].pkt]
  <2>1. r \in Places
    BY <1>0 DEF Places
  <2>2. Moves(g, r)
    BY <1>1, <1>3 DEF Moves, Read, Goto
  <2> QED BY <2>1, <2>2
<1>4. CASE NextPacket(g)
  <2>1. PICK pkt \in [kind : {"topic", "request"}] \cup [kind : {"reply"}, of : data[g]] :
          rx' = [rx EXCEPT ![g] = [pc |-> "dispatch", pkt |-> pkt]]
    BY <1>4, Zenon DEF NextPacket
  <2>2. data[g] \subseteq Numbers
    BY DEF TypeOK, RxTypeOK
  <2> DEFINE r == [pc |-> "dispatch", pkt |-> pkt]
  <2>3. pkt \in Packets /\ (pkt.kind = "reply" => pkt.of \in data[g])
    BY <2>2 DEF Packets
  <2>4. r \in Places
    BY <2>3 DEF Places
  <2>5. Moves(g, r)
    BY <1>4, <2>1, <2>3 DEF Moves, NextPacket
  <2> QED BY <2>4, <2>5
<1>6. CASE ReadError(g)
  <2> DEFINE r == [pc |-> "dead", pkt |-> NoPacket]
  <2>1. r \in Places
    BY <1>0 DEF Places
  <2>2. Moves(g, r)
    BY <1>6 DEF Moves, ReadError, Dies, Enter
  <2> QED BY <2>1, <2>2
<1>7. CASE DispatchReply(g)
  <2>1. CASE Enter(g, "callback")
    <3> DEFINE r == [pc |-> "callback", pkt |-> NoPacket]
    <3>1. r \in Places
      BY <1>0 DEF Places
    <3>2. Moves(g, r)
      BY <1>7, <2>1 DEF Moves, DispatchReply, Enter
    <3> QED BY <3>1, <3>2
  <2>2. ASSUME NEW n \in Matched(rx[g].pkt.of),
               rx' = [rx EXCEPT ![g] = [pc  |-> "found",
                                        pkt |-> [kind |-> "future", of |-> @.pkt.of, n |-> n]]]
        PROVE  \E r \in Places : Moves(g, r)
    <3> DEFINE r == [pc |-> "found",
                     pkt |-> [kind |-> "future", of |-> rx[g].pkt.of, n |-> n]]
    <3>1. n \in Numbers /\ rx[g].pkt.of \in Numbers
      BY <1>0, <1>7, MatchedIs DEF DispatchReply
    <3>2. r \in Places
      BY <3>1 DEF Places, Found
    <3>3. Moves(g, r)
      BY <1>0, <1>7, <2>2 DEF Moves, DispatchReply
    <3> QED BY <3>2, <3>3
  <2> QED BY <1>7, <2>1, <2>2 DEF DispatchReply
<1>8. CASE SetResponse(g)
  <2> DEFINE r == [pc |-> "next", pkt |-> NoPacket]
  <2>1. r \in Places
    BY <1>0 DEF Places
  <2>2. Moves(g, r)
    BY <1>8 DEF Moves, SetResponse, Enter
  <2> QED BY <2>1, <2>2
<1>9. CASE DispatchRequest(g)
  <2> DEFINE r == [pc |-> "handler", pkt |-> NoPacket]
  <2>1. r \in Places
    BY <1>0 DEF Places
  <2>2. Moves(g, r)
    BY <1>9 DEF Moves, DispatchRequest, Enter
  <2> QED BY <2>1, <2>2
<1>10. CASE DispatchTopic(g)
  <2> DEFINE r == [pc |-> "callback", pkt |-> NoPacket]
  <2>1. r \in Places
    BY <1>0 DEF Places
  <2>2. Moves(g, r)
    BY <1>10 DEF Moves, DispatchTopic, Enter
  <2> QED BY <2>1, <2>2
<1>11. CASE HandlerReplies(g)
  <2>1. CASE Dies(g, "reply raised")
    <3> DEFINE r == [pc |-> "dead", pkt |-> NoPacket]
    <3>1. r \in Places
      BY <1>0 DEF Places
    <3>2. Moves(g, r)
      BY <2>1 DEF Moves, Dies, Enter
    <3> QED BY <3>1, <3>2
  <2>2. CASE Goto(g, "callback") /\ UNCHANGED <<data, ended>>
    <3> DEFINE r == [pc |-> "callback", pkt |-> rx[g].pkt]
    <3>1. r \in Places
      BY <1>0 DEF Places
    <3>2. Moves(g, r)
      BY <1>1, <2>2 DEF Moves, Goto
    <3> QED BY <3>1, <3>2
  <2> QED BY <1>11, <2>1, <2>2 DEF HandlerReplies
<1>12. CASE CallbackReturns(g)
  <2> DEFINE r == [pc |-> "next", pkt |-> NoPacket]
  <2>1. r \in Places
    BY <1>0 DEF Places
  <2>2. Moves(g, r)
    BY <1>12 DEF Moves, CallbackReturns, Enter
  <2> QED BY <2>1, <2>2
<1>13. CASE StopInCallback(g)
  <2> DEFINE r == rx[g]
  <2>1. r \in Places
    <3>1. r = [pc |-> rx[g].pc, pkt |-> rx[g].pkt]
      BY PlaceIs
    <3>2. rx[g].pc \in {"handler", "callback"}
      BY <1>13 DEF StopInCallback, InCallback
    <3> HIDE DEF r
    <3> QED BY <1>0, <3>1, <3>2 DEF Places
  <2>2. rx' = [rx EXCEPT ![g] = r]
    BY <1>0, <1>13 DEF StopInCallback, TypeOK, RxTypeOK
  <2>3. Moves(g, r)
    BY <1>13, <2>2 DEF Moves, StopInCallback, InCallback
  <2> QED BY <2>1, <2>3
<1> QED BY <1>2, <1>3, <1>4, <1>6, <1>7, <1>8, <1>9, <1>10, <1>11, <1>12, <1>13
        DEF RxThread

(* The three ends of a write. *)
LEMMA WriteEnds ==
  ASSUME NEW t, CallWrite(t)
  PROVE  /\ call[t].pc = "write"
         /\ \E flushed \in BOOLEAN : issued' = [issued EXCEPT ![call[t].n].sent = flushed]
         /\ \/ /\ call' = [call EXCEPT ![t].pc = "wait"]
               /\ UNCHANGED <<pending, result>>
            \/ pending' = Popped(call[t].n) /\ Returns(t, FAILED)
            \/ UNCHANGED pending /\ Returns(t, RAISED)
         /\ UNCHANGED <<seq_id, response>>
<1>1. PICK outcome \in WriteOutcomes, flushed \in BOOLEAN :
        /\ issued' = [issued EXCEPT ![call[t].n].sent = flushed]
        /\ CASE outcome = "ok" ->
                  /\ call' = [call EXCEPT ![t].pc = "wait"]
                  /\ UNCHANGED <<pending, result>>
             [] outcome = "caught" ->
                  pending' = Popped(call[t].n) /\ Returns(t, FAILED)
             [] outcome = "raised" ->
                  UNCHANGED pending /\ Returns(t, RAISED)
  BY Zenon DEF CallWrite
<1>2. outcome \in {"ok", "caught", "raised"}
  BY DEF WriteOutcomes
<1>3. \/ /\ call' = [call EXCEPT ![t].pc = "wait"]
         /\ UNCHANGED <<pending, result>>
      \/ pending' = Popped(call[t].n) /\ Returns(t, FAILED)
      \/ UNCHANGED pending /\ Returns(t, RAISED)
  BY <1>1, <1>2
<1> QED BY <1>1, <1>3 DEF CallWrite

-----------------------------------------------------------------------------
(* Types. *)

LEMMA BoundTypes ==
  /\ SeqMod \in Nat \ {0} /\ MaxStarts \in Nat /\ MaxIds \in Nat /\ MaxWork \in Nat
  /\ Callers \cap Threads = {} /\ PUBLISHED \notin Commands
BY PyClientAssumption DEF Threads, PUBLISHED

LEMMA ClientTypeStep ==
  ASSUME TypeOK, [Next]_vars
  PROVE  ClientTypeOK'
<1> USE DEF ClientTypeOK
<1>0. ClientTypeOK /\ UNCHANGED transport
  BY NextCases DEF TypeOK
<1>1. CASE Client
  <2>1. running' \in BOOLEAN /\ stop_event' \in BOOLEAN
    BY <1>0, <1>1, Zenon DEF Client, Start, StopBegin, StopClose, StopDone
  <2>2. outlived' \in BOOLEAN
    BY <1>0, <1>1, Zenon DEF Client, Start, StopBegin, StopClose, StopDone
  <2>3. gen' \in 0..MaxStarts /\ open' \subseteq Threads
        /\ main' \in {"idle", "joining", "closing"}
    BY <1>0, <1>1, BoundTypes DEF Client, Start, StopBegin, StopClose, StopDone, Threads
  <2> QED BY <1>0, <2>1, <2>2, <2>3, Zenon
<1>2. CASE \E g \in Threads : RxThread(g)
  <2>0. PICK g \in Threads : RxThread(g)
    BY <1>2
  <2>1. UNCHANGED <<running, gen, open, main, outlived>>
    BY <2>0, RxFrame
  <2>2. stop_event' \in BOOLEAN
    BY <1>0, <2>0, Zenon DEF RxThread, LoopCheck, Read, NextPacket,
       ReadError, DispatchReply, SetResponse, DispatchRequest, DispatchTopic, HandlerReplies,
       CallbackReturns, StopInCallback, clientVars
  <2> QED BY <1>0, <2>1, <2>2, Zenon
<1>3. CASE \E t \in Callers \cup Threads : Caller(t)
  <2>1. UNCHANGED <<clientVars, outlived>>
    BY <1>3, CallerFrame
  <2> QED BY <1>0, <2>1, Zenon DEF clientVars
<1>4. CASE UNCHANGED vars
  BY <1>0, <1>4, Zenon DEF vars, clientVars
<1> QED BY <1>1, <1>2, <1>3, <1>4, NextCases

LEMMA RxTypeStep ==
  ASSUME TypeOK, [Next]_vars
  PROVE  RxTypeOK'
<1> DEFINE P == Packets \cup {NoPacket} \cup Found
           Q == [pc : {"none", "loop", "reading", "next", "dispatch", "found", "handler",
                       "callback", "dead"}, pkt : P]
           D == SUBSET Numbers
           W == {"not", "stop_event", "stopped itself", "read error", "reply raised"}
<1>0. rx \in [Threads -> Q] /\ data \in [Threads -> D] /\ ended \in [Threads -> W]
  BY DEF TypeOK, RxTypeOK
<1>s. SUFFICES /\ rx' \in [Threads -> Q] /\ data' \in [Threads -> D]
                  /\ ended' \in [Threads -> W]
  <2>1. UNCHANGED <<Packets, NoPacket, Found, Threads, Numbers>>
    BY DEF Packets, NoPacket, Found, Threads, Numbers
  <2> QED BY <2>1 DEF RxTypeOK
<1>1. CASE Client
  <2>1. UNCHANGED <<data, ended>>
    BY <1>1 DEF Client, Start, StopBegin, StopClose, StopDone
  <2>2. CASE Start
    <3>1. gen + 1 \in Threads
      BY <2>2, BoundTypes DEF Start, TypeOK, ClientTypeOK, Threads
    <3>2. rx' = [rx EXCEPT ![gen + 1].pc = "loop"]
      BY <2>2 DEF Start
    <3> HIDE DEF P
    <3> QED BY <1>0, <2>1, <3>1, <3>2
  <2>3. CASE ~Start
    BY <1>0, <1>1, <2>1, <2>3 DEF Client, StopBegin, StopClose, StopDone
  <2> QED BY <2>2, <2>3
<1>2. CASE \E g \in Threads : RxThread(g)
  <2>0. PICK g \in Threads : RxThread(g)
    BY <1>2
  <2>1. PICK r \in Places : Moves(g, r)
    BY <2>0, RxMoves
  <2>2. r \in Q
    BY DEF Places
  <2>3. rx' \in [Threads -> Q]
    BY <1>0, <2>1, <2>2 DEF Moves
  <2>4. ended' \in [Threads -> W]
    <3>1. CASE UNCHANGED ended
      BY <1>0, <3>1
    <3>2. ASSUME NEW why \in W, ended' = [ended EXCEPT ![g] = why]
          PROVE  ended' \in [Threads -> W]
      BY <1>0, <3>2
    <3> QED BY <2>1, <3>1, <3>2 DEF Moves
  <2>5. data' \in [Threads -> D]
    <3>1. CASE UNCHANGED data
      BY <1>0, <3>1
    <3>2. ASSUME NEW d \in SUBSET (1..Len(issued)), data' = [data EXCEPT ![g] = d]
          PROVE  data' \in [Threads -> D]
      <4>1. 1..Len(issued) \subseteq Numbers
        BY BoundTypes DEF TypeOK, CallTypeOK, Numbers
      <4>2. d \in D
        BY <4>1
      <4> HIDE DEF D
      <4> QED BY <1>0, <3>2, <4>2
    <3> QED BY <2>0, <3>1, <3>2, RxData
  <2> QED BY <2>3, <2>4, <2>5
<1>3. CASE \E t \in Callers \cup Threads : Caller(t)
  <2>1. UNCHANGED <<rx, data, ended>>
    BY <1>3, CallerFrame
  <2> QED BY <1>0, <2>1
<1>4. CASE UNCHANGED vars
  BY <1>0, <1>4 DEF vars
<1> QED BY <1>1, <1>2, <1>3, <1>4, NextCases

LEMMA CallTypeStep ==
  ASSUME TypeOK, OpenCall, PacketFits, [Next]_vars
  PROVE  CallTypeOK'
<1> DEFINE C == Callers \cup Threads
           Good == /\ seq_id' \in Seqs
                   /\ issued' \in Seq(Issued) /\ Len(issued') <= MaxIds
                   /\ DOMAIN pending' \subseteq Seqs
                   /\ \A s \in DOMAIN pending' :
                        pending'[s] \in 1..Len(issued') /\ issued'[pending'[s]].seq = s
                   /\ call' \in [C -> [pc : {"idle", "write", "wait"}, n : 0..MaxIds]]
                   /\ response' \in [Numbers -> 0..MaxIds]
                   /\ result' \in [Numbers -> Numbers \cup {0, FAILED, RAISED}]
<1>s. SUFFICES Good
  BY DEF CallTypeOK, Threads, Numbers, Seqs, Issued, FAILED, RAISED, PUBLISHED
<1>0. /\ seq_id \in Seqs
      /\ issued \in Seq(Issued) /\ Len(issued) <= MaxIds
      /\ DOMAIN pending \subseteq Seqs
      /\ \A s \in DOMAIN pending :
           pending[s] \in 1..Len(issued) /\ issued[pending[s]].seq = s
      /\ call \in [C -> [pc : {"idle", "write", "wait"}, n : 0..MaxIds]]
      /\ response \in [Numbers -> 0..MaxIds]
      /\ result \in [Numbers -> Numbers \cup {0, FAILED, RAISED}]
  BY DEF TypeOK, CallTypeOK
<1>n. Len(issued) \in Nat /\ DOMAIN issued = 1..Len(issued) /\ MaxIds \in Nat
  BY <1>0, BoundTypes
<1>i. [pc |-> "idle", n |-> 0] \in [pc : {"idle", "write", "wait"}, n : 0..MaxIds]
  BY BoundTypes
<1>r. ASSUME NEW t \in C, call[t].n \in Numbers, NEW v \in Numbers \cup {0, FAILED, RAISED},
             Returns(t, v)
      PROVE  /\ call' \in [C -> [pc : {"idle", "write", "wait"}, n : 0..MaxIds]]
             /\ result' \in [Numbers -> Numbers \cup {0, FAILED, RAISED}]
  BY <1>0, <1>i, <1>r DEF Returns
<1>p. ASSUME NEW n, pending' = Popped(n)
      PROVE  /\ DOMAIN pending' \subseteq DOMAIN pending
             /\ \A s \in DOMAIN pending' : pending'[s] = pending[s]
  BY <1>p DEF Popped
<1>o. ASSUME NEW t \in C, call[t].pc # "idle"
      PROVE  call[t].n \in 1..Len(issued) /\ call[t].n \in Numbers
  <2>1. call[t].n # 0 /\ call[t].n <= Len(issued) /\ call[t].n \in 0..MaxIds
    BY <1>0, <1>o DEF OpenCall
  <2> QED BY <1>0, <1>n, <2>1 DEF Numbers
<1>1. CASE UNCHANGED callVars
  BY <1>0, <1>1 DEF callVars
<1>2. ASSUME NEW g \in Threads, SetResponse(g) PROVE Good
  <2>1. rx[g].pkt.n \in 1..Len(issued) /\ rx[g].pkt.of \in 1..rx[g].pkt.n
    BY <1>2 DEF SetResponse, PacketFits, Fits
  <2>2. rx[g].pkt.of \in 0..MaxIds
    BY <1>0, <1>n, <2>1
  <2>3. UNCHANGED <<seq_id, issued, pending, call, result>>
        /\ response' = [response EXCEPT ![rx[g].pkt.n] = rx[g].pkt.of]
    BY <1>2 DEF SetResponse
  <2> QED BY <1>0, <2>2, <2>3
<1>3. ASSUME NEW t \in C, Publish(t) PROVE Good
  <2> DEFINE e == [seq |-> seq_id, command |-> PUBLISHED, by |-> t, sent |-> FALSE]
  <2>1. e \in Issued
    BY <1>0 DEF Issued
  <2>2. /\ seq_id' = NextSeqId /\ issued' = Append(issued, e) /\ Len(issued) < MaxIds
        /\ result' = [result EXCEPT ![Len(issued) + 1] = FAILED]
        /\ UNCHANGED <<pending, call, response>>
    BY <1>3 DEF Publish, Free
  <2>3. seq_id' \in Seqs
    BY <1>0, <2>2, BoundTypes DEF NextSeqId, Seqs
  <2> HIDE DEF e
  <2>4. /\ issued' \in Seq(Issued) /\ Len(issued') = Len(issued) + 1
        /\ \A k \in 1..Len(issued) : issued'[k] = issued[k]
    BY <1>0, <1>n, <2>1, <2>2
  <2>5. Len(issued') <= MaxIds
    BY <1>n, <2>2, <2>4
  <2>6. \A s \in DOMAIN pending' :
          pending'[s] \in 1..Len(issued') /\ issued'[pending'[s]].seq = s
    BY <1>0, <1>n, <2>2, <2>4
  <2>7. result' \in [Numbers -> Numbers \cup {0, FAILED, RAISED}]
    BY <1>0, <2>2
  <2> QED BY <1>0, <2>2, <2>3, <2>4, <2>5, <2>6, <2>7
<1>4. ASSUME NEW t \in C, CallPut(t) PROVE Good
  <2>1. PICK command \in Commands :
          issued' = Append(issued, [seq |-> seq_id, command |-> command, by |-> t,
                                    sent |-> FALSE])
    BY <1>4 DEF CallPut
  <2> DEFINE e == [seq |-> seq_id, command |-> command, by |-> t, sent |-> FALSE]
  <2>2. e \in Issued /\ e.seq = seq_id
    BY <1>0 DEF Issued
  <2>3. /\ seq_id' = NextSeqId /\ issued' = Append(issued, e) /\ Len(issued) < MaxIds
        /\ pending' = [s \in DOMAIN pending \cup {seq_id} |->
                         IF s = seq_id THEN Len(issued) + 1 ELSE pending[s]]
        /\ call' = [call EXCEPT ![t] = [pc |-> "write", n |-> Len(issued) + 1]]
        /\ UNCHANGED <<response, result>>
    BY <1>4, <2>1 DEF CallPut, Free
  <2>4. seq_id' \in Seqs
    BY <1>0, <2>3, BoundTypes DEF NextSeqId, Seqs
  <2> HIDE DEF e
  <2>5. /\ issued' \in Seq(Issued) /\ Len(issued') = Len(issued) + 1
        /\ \A k \in 1..Len(issued) : issued'[k] = issued[k]
        /\ issued'[Len(issued) + 1] = e
    BY <1>0, <1>n, <2>2, <2>3
  <2>6. /\ DOMAIN pending' \subseteq Seqs
        /\ \A s \in DOMAIN pending' :
             pending'[s] \in 1..Len(issued') /\ issued'[pending'[s]].seq = s
    BY <1>0, <1>n, <2>2, <2>3, <2>5
  <2>7. call' \in [C -> [pc : {"idle", "write", "wait"}, n : 0..MaxIds]]
    BY <1>0, <1>n, <2>3
  <2>8. Len(issued') <= MaxIds
    BY <1>n, <2>3, <2>5
  <2> QED BY <1>0, <2>3, <2>4, <2>5, <2>6, <2>7, <2>8
<1>5. ASSUME NEW t \in C, CallWrite(t) PROVE Good
  <2>1. PICK flushed \in BOOLEAN : issued' = [issued EXCEPT ![call[t].n].sent = flushed]
    BY <1>5, WriteEnds
  <2>2. call[t].pc # "idle" /\ UNCHANGED <<seq_id, response>>
    BY <1>5, WriteEnds
  <2>3. /\ issued' \in Seq(Issued) /\ Len(issued') = Len(issued)
        /\ \A k \in 1..Len(issued) : issued'[k].seq = issued[k].seq
    <3>1. call[t].n \in 1..Len(issued) /\ issued[call[t].n] \in Issued
      BY <1>0, <1>n, <1>o, <2>2
    <3> DEFINE e == [issued[call[t].n] EXCEPT !.sent = flushed]
    <3>2. e \in Issued /\ e.seq = issued[call[t].n].seq
      BY <3>1 DEF Issued
    <3>3. issued' = [issued EXCEPT ![call[t].n] = e]
      BY <2>1
    <3> HIDE DEF e
    <3> QED BY <1>0, <1>n, <3>1, <3>2, <3>3
  <2>4. /\ DOMAIN pending' \subseteq DOMAIN pending
        /\ \A s \in DOMAIN pending' : pending'[s] = pending[s]
    BY <1>5, <1>p, WriteEnds
  <2>5. /\ call' \in [C -> [pc : {"idle", "write", "wait"}, n : 0..MaxIds]]
        /\ result' \in [Numbers -> Numbers \cup {0, FAILED, RAISED}]
    <3>1. CASE call' = [call EXCEPT ![t].pc = "wait"] /\ UNCHANGED result
      BY <1>0, <3>1
    <3> QED BY <1>5, <1>r, <1>o, <2>2, <3>1, WriteEnds
  <2> QED BY <1>0, <2>2, <2>3, <2>4, <2>5
<1>6. ASSUME NEW t \in C, CallAnswered(t) \/ CallTimeout(t) PROVE Good
  <2>1. /\ call[t].pc # "idle" /\ pending' = Popped(call[t].n)
        /\ UNCHANGED <<seq_id, issued, response>>
    BY <1>6 DEF CallAnswered, CallTimeout
  <2>2. \E v \in Numbers \cup {0, FAILED, RAISED} : Returns(t, v)
    <3>1. response[call[t].n] \in 0..MaxIds
      BY <1>0, <1>o, <2>1
    <3>2. response[call[t].n] \in Numbers \cup {0, FAILED, RAISED}
      BY <1>n, <3>1 DEF Numbers
    <3> QED BY <1>6, <3>2 DEF CallAnswered, CallTimeout
  <2>3. /\ call' \in [C -> [pc : {"idle", "write", "wait"}, n : 0..MaxIds]]
        /\ result' \in [Numbers -> Numbers \cup {0, FAILED, RAISED}]
    BY <1>r, <1>o, <2>1, <2>2
  <2>4. /\ DOMAIN pending' \subseteq DOMAIN pending
        /\ \A s \in DOMAIN pending' : pending'[s] = pending[s]
    BY <1>p, <2>1
  <2> QED BY <1>0, <2>1, <2>3, <2>4
<1>7. CASE Client
  BY <1>1, <1>7, ClientFrame
<1>8. CASE \E g \in Threads : RxThread(g)
  BY <1>1, <1>2, <1>8, RxFrame DEF callVars
<1>9. CASE \E t \in C : Caller(t)
  BY <1>3, <1>4, <1>5, <1>6, <1>9 DEF Caller
<1>10. CASE UNCHANGED vars
  BY <1>1, <1>10 DEF vars
<1> QED BY <1>7, <1>8, <1>9, <1>10, NextCases

-----------------------------------------------------------------------------
(* The history: numbers are added at the end, and keep what they are. *)

SameNumbers ==
  /\ Len(issued') = Len(issued)
  /\ \A k \in 1..Len(issued) :
       /\ issued'[k].seq = issued[k].seq
       /\ issued'[k].command = issued[k].command
       /\ issued'[k].by = issued[k].by

Takes(t, command) ==
  /\ call[t].pc = "idle" /\ call[t].n = 0
  /\ Len(issued) + 1 \in Numbers
  /\ seq_id' = NextSeqId
  /\ Len(issued') = Len(issued) + 1
  /\ issued'[Len(issued) + 1] =
       [seq |-> seq_id, command |-> command, by |-> t, sent |-> FALSE]
  /\ \A k \in 1..Len(issued) : issued'[k] = issued[k]

(* Call n of thread t returns v, and its entry is popped unless the write  *)
(* raised.                                                                 *)
Ends(t, n, v) ==
  /\ n = call[t].n /\ n \in 1..Len(issued) /\ n \in Numbers
  /\ result' = [result EXCEPT ![n] = v]
  /\ call' = [call EXCEPT ![t] = [pc |-> "idle", n |-> 0]]
  /\ v \in {FAILED, RAISED} \/ (v = response[n] /\ v # 0)
  /\ v # 0
  /\ IF v = RAISED THEN UNCHANGED pending ELSE pending' = Popped(n)

LEMMA LengthIs ==
  ASSUME TypeOK
  PROVE  /\ Len(issued) \in Nat /\ Len(issued) <= MaxIds /\ MaxIds \in Nat
         /\ DOMAIN issued = 1..Len(issued)
         /\ \A k \in 1..Len(issued) : issued[k] \in Issued
         /\ 1..Len(issued) \subseteq Numbers
BY BoundTypes DEF TypeOK, CallTypeOK, Numbers

LEMMA CallerDoes ==
  ASSUME TypeOK, OpenCall, NEW t \in Callers \cup Threads, Caller(t)
  PROVE  \/ Publish(t) /\ Takes(t, PUBLISHED)
         \/ CallPut(t) /\ \E command \in Commands : Takes(t, command)
         \/ /\ SameNumbers
            /\ call[t].n \in 1..Len(issued)
            /\ UNCHANGED <<seq_id, response>>
            /\ \/ /\ call' = [call EXCEPT ![t].pc = "wait"]
                  /\ UNCHANGED <<pending, result>>
               \/ \E n, v : Ends(t, n, v)
<1>0. issued \in Seq(Issued) /\ Len(issued) \in Nat /\ MaxIds \in Nat
  BY LengthIs DEF TypeOK, CallTypeOK
<1>1. ASSUME Free(t), NEW command,
             issued' = Append(issued, [seq |-> seq_id, command |-> command, by |-> t,
                                       sent |-> FALSE]),
             seq_id' = NextSeqId
      PROVE  Takes(t, command)
  <2>1. call[t].pc = "idle" /\ call[t].n = 0 /\ Len(issued) + 1 \in Numbers
    BY <1>0, <1>1 DEF Free, OpenCall, Numbers
  <2> DEFINE e == [seq |-> seq_id, command |-> command, by |-> t, sent |-> FALSE]
  <2>2. issued' = Append(issued, e)
    BY <1>1
  <2> HIDE DEF e
  <2>3. /\ Len(issued') = Len(issued) + 1 /\ issued'[Len(issued) + 1] = e
        /\ \A k \in 1..Len(issued) : issued'[k] = issued[k]
    BY <1>0, <2>2
  <2> QED BY <1>1, <2>1, <2>3 DEF Takes, e
<1>2. CASE Publish(t)
  BY <1>1, <1>2 DEF Publish
<1>3. CASE CallPut(t)
  BY <1>1, <1>3 DEF CallPut
<1>n. ASSUME call[t].pc # "idle"
      PROVE  call[t].n \in 1..Len(issued) /\ call[t].n \in Numbers
  <2>1. call[t].n # 0 /\ call[t].n <= Len(issued) /\ call[t].n \in 0..MaxIds
    BY <1>n DEF OpenCall, TypeOK, CallTypeOK
  <2> QED BY <1>0, <2>1 DEF Numbers
<1>4. CASE CallWrite(t)
  <2>1. call[t].n \in 1..Len(issued) /\ call[t].n \in Numbers
    BY <1>4, <1>n, WriteEnds
  <2>2. SameNumbers
    <3>1. PICK flushed \in BOOLEAN : issued' = [issued EXCEPT ![call[t].n].sent = flushed]
      BY <1>4, WriteEnds
    <3>2. issued[call[t].n] \in Issued
      BY <2>1, LengthIs
    <3> DEFINE e == [issued[call[t].n] EXCEPT !.sent = flushed]
    <3>3. /\ e.seq = issued[call[t].n].seq /\ e.command = issued[call[t].n].command
          /\ e.by = issued[call[t].n].by
      BY <3>2 DEF Issued
    <3>4. issued' = [issued EXCEPT ![call[t].n] = e]
      BY <3>1
    <3> HIDE DEF e
    <3> QED BY <1>0, <2>1, <3>3, <3>4 DEF SameNumbers
  <2>3. ASSUME NEW v \in {FAILED, RAISED}, Returns(t, v),
               IF v = RAISED THEN UNCHANGED pending ELSE pending' = Popped(call[t].n)
        PROVE  Ends(t, call[t].n, v)
    BY <2>1, <2>3 DEF Ends, Returns, FAILED, RAISED
  <2> QED BY <1>4, <2>1, <2>2, <2>3, WriteEnds DEF FAILED, RAISED
<1>5. CASE CallAnswered(t)
  <2>1. SameNumbers
    BY <1>5 DEF CallAnswered, SameNumbers
  <2>2. Ends(t, call[t].n, response[call[t].n])
    <3>1. response[call[t].n] \in 0..MaxIds
      BY <1>5, <1>n DEF CallAnswered, TypeOK, CallTypeOK
    <3>2. response[call[t].n] # RAISED
      BY <1>0, <3>1 DEF RAISED
    <3> QED BY <1>5, <1>n, <3>2 DEF CallAnswered, Ends, Returns
  <2> QED BY <1>5, <1>n, <2>1, <2>2 DEF CallAnswered
<1>6. CASE CallTimeout(t)
  <2>1. SameNumbers
    BY <1>6 DEF CallTimeout, SameNumbers
  <2>2. Ends(t, call[t].n, FAILED)
    BY <1>6, <1>n DEF CallTimeout, Ends, Returns, FAILED, RAISED
  <2> QED BY <1>6, <1>n, <2>1, <2>2 DEF CallTimeout
<1> QED BY <1>2, <1>3, <1>4, <1>5, <1>6 DEF Caller

(* Every number keeps what it is. *)
LEMMA NumbersStay ==
  ASSUME TypeOK, OpenCall, [Next]_vars
  PROVE  /\ Len(issued') \in Nat /\ Len(issued) <= Len(issued')
         /\ \A k \in 1..Len(issued) :
              /\ issued'[k].seq = issued[k].seq
              /\ issued'[k].command = issued[k].command
              /\ issued'[k].by = issued[k].by
<1>1. CASE UNCHANGED issued
  BY <1>1, LengthIs
<1>2. CASE \E t \in Callers \cup Threads : Caller(t)
  <2>0. PICK t \in Callers \cup Threads : Caller(t)
    BY <1>2
  <2>1. SameNumbers \/ \E command : Takes(t, command)
    BY <2>0, CallerDoes, Zenon
  <2>2. CASE SameNumbers
    BY <2>2, LengthIs DEF SameNumbers
  <2>3. ASSUME NEW command, Takes(t, command)
        PROVE  /\ Len(issued') = Len(issued) + 1
               /\ \A k \in 1..Len(issued) : issued'[k] = issued[k]
    BY <2>3 DEF Takes
  <2> QED BY <2>1, <2>2, <2>3, LengthIs
<1> QED BY <1>1, <1>2, NextCases, ClientFrame, RxFrame DEF vars, callVars

(* What does not come from a caller leaves the calls alone. *)
LEMMA StepCases ==
  ASSUME [Next]_vars
  PROVE  \/ \E t \in Callers \cup Threads : Caller(t)
         \/ /\ UNCHANGED <<seq_id, issued, pending, call, result>>
            /\ UNCHANGED response \/ \E g \in Threads : SetResponse(g)
BY NextCases, ClientFrame, RxFrame DEF vars, callVars

LEMMA NumberingStep ==
  ASSUME TypeOK, OpenCall, Numbering, [Next]_vars
  PROVE  Numbering'
<1> USE DEF Numbering
<1>1. CASE UNCHANGED <<seq_id, issued>>
  BY <1>1
<1>2. CASE SameNumbers /\ UNCHANGED seq_id
  BY <1>2 DEF SameNumbers
<1>3. ASSUME NEW t, NEW command, Takes(t, command)
      PROVE  Numbering'
  <2> DEFINE L == Len(issued)
  <2>0. L \in Nat /\ Len(issued') = L + 1
    BY <1>3, LengthIs DEF Takes
  <2>1. seq_id' = (L + 1) % SeqMod
    <3>1. seq_id' = (seq_id + 1) % SeqMod
      BY <1>3 DEF Takes, NextSeqId
    <3>2. (L + 1) % SeqMod = ((L % SeqMod) + 1) % SeqMod
      BY <2>0, BoundTypes, ModNext
    <3> QED BY <3>1, <3>2
  <2>2. ASSUME NEW k \in 1..L + 1
        PROVE  issued'[k].seq = (k - 1) % SeqMod
    <3>1. CASE k = L + 1
      <4>1. issued'[L + 1].seq = seq_id /\ k - 1 = L
        BY <1>3, <2>0, <3>1 DEF Takes
      <4> QED BY <3>1, <4>1
    <3>2. CASE k # L + 1
      <4>1. k \in 1..L
        BY <2>0, <3>2
      <4> QED BY <1>3, <4>1 DEF Takes
    <3> QED BY <3>1, <3>2
  <2> QED BY <2>0, <2>1, <2>2
<1>4. CASE \E t \in Callers \cup Threads : Caller(t)
  BY <1>2, <1>3, <1>4, CallerDoes
<1> QED BY <1>1, <1>4, StepCases

LEMMA FreshStep ==
  ASSUME TypeOK, OpenCall, PacketFits, Fresh, [Next]_vars
  PROVE  Fresh'
<1> DEFINE L == Len(issued)
<1>0. /\ L \in Nat /\ Len(issued') \in Nat /\ L <= Len(issued')
      /\ DOMAIN response = Numbers /\ DOMAIN result = Numbers
  BY LengthIs, NumbersStay DEF TypeOK, CallTypeOK
<1>1. ASSUME NEW n \in Numbers, n > Len(issued')
      PROVE  n > L /\ n # Len(issued') /\ response[n] = 0 /\ result[n] = 0
  <2>1. n \in Nat /\ n > L /\ n # Len(issued')
    BY <1>0, <1>1 DEF Numbers
  <2> QED BY <2>1 DEF Fresh
<1>s. SUFFICES ASSUME NEW n \in Numbers, n > Len(issued')
               PROVE  response'[n] = 0 /\ result'[n] = 0
  BY DEF Fresh, Numbers
<1>2. n > L /\ n # Len(issued') /\ response[n] = 0 /\ result[n] = 0
  BY <1>1, <1>s
<1> HIDE DEF L
<1>3. n \notin 1..L
  BY <1>0, <1>2 DEF Numbers
<1>4. CASE UNCHANGED response /\ UNCHANGED result
  BY <1>2, <1>4
<1>5. ASSUME NEW g \in Threads, SetResponse(g)
      PROVE  response'[n] = 0
  <2>1. rx[g].pkt.n \in 1..L
    BY <1>5 DEF SetResponse, PacketFits, L
  <2>2. response' = [response EXCEPT ![rx[g].pkt.n] = rx[g].pkt.of]
    BY <1>5 DEF SetResponse
  <2> QED BY <1>0, <1>2, <1>3, <2>1, <2>2
<1>6. ASSUME NEW t \in Callers \cup Threads, Caller(t)
      PROVE  response'[n] = 0 /\ result'[n] = 0
  <2>1. CASE Publish(t) /\ Takes(t, PUBLISHED)
    <3>1. /\ UNCHANGED response /\ Len(issued') = L + 1
          /\ result' = [result EXCEPT ![L + 1] = FAILED]
      BY <2>1 DEF Publish, Takes, L
    <3> QED BY <1>0, <1>2, <3>1
  <2>2. CASE CallPut(t)
    BY <1>2, <2>2 DEF CallPut
  <2>3. CASE UNCHANGED <<response, result>>
    BY <1>2, <2>3
  <2>4. ASSUME UNCHANGED response, NEW m, NEW v, Ends(t, m, v)
        PROVE  response'[n] = 0 /\ result'[n] = 0
    BY <1>0, <1>2, <1>3, <2>4 DEF Ends, L
  <2> QED BY <1>6, <2>1, <2>2, <2>3, <2>4, CallerDoes
<1> QED BY <1>2, <1>5, <1>6, StepCases

LEMMA OpenCallStep ==
  ASSUME TypeOK, OpenCall, Fresh, Generations, [Next]_vars
  PROVE  OpenCall'
<1> DEFINE Good(t) ==
             /\ call'[t].pc = "idle" <=> call'[t].n = 0
             /\ call'[t].n # 0 =>
                  /\ call'[t].n <= Len(issued')
                  /\ issued'[call'[t].n].by = t
                  /\ issued'[call'[t].n].command \in Commands
                  /\ result'[call'[t].n] = 0
                  /\ t \in Threads => rx'[t].pc \in {"handler", "callback"}
<1>s. SUFFICES ASSUME NEW t \in Callers \cup Threads
               PROVE  Good(t)
  BY DEF OpenCall, Threads
<1>0. /\ Len(issued) \in Nat /\ Len(issued') \in Nat /\ Len(issued) <= Len(issued')
      /\ DOMAIN call = Callers \cup Threads /\ DOMAIN result = Numbers
      /\ call[t].n \in 0..MaxIds /\ MaxIds \in Nat
      /\ DOMAIN rx = Threads
  BY LengthIs, NumbersStay DEF TypeOK, CallTypeOK, RxTypeOK
<1>1. /\ call[t].pc = "idle" <=> call[t].n = 0
      /\ call[t].n # 0 =>
           /\ call[t].n \in 1..Len(issued)
           /\ issued[call[t].n].by = t
           /\ issued[call[t].n].command \in Commands
           /\ result[call[t].n] = 0
           /\ t \in Threads => rx[t].pc \in {"handler", "callback"}
  BY <1>0 DEF OpenCall
(* Nobody else's step disturbs the call of t. *)
<1>2. ASSUME call'[t] = call[t],
             call[t].n # 0 => result'[call[t].n] = 0,
             call[t].n # 0 /\ t \in Threads => rx'[t].pc \in {"handler", "callback"}
      PROVE  Good(t)
  <2>1. CASE call[t].n = 0
    BY <1>1, <1>2, <2>1
  <2>2. CASE call[t].n # 0
    <3>1. /\ call[t].n \in Nat /\ call[t].n <= Len(issued')
          /\ issued'[call[t].n].by = t /\ issued'[call[t].n].command \in Commands
      BY <1>0, <1>1, <2>2, NumbersStay
    <3> QED BY <1>1, <1>2, <2>2, <3>1
  <2> QED BY <2>1, <2>2
<1>3. CASE Client
  <2>1. UNCHANGED <<call, result>>
    BY <1>3, ClientFrame DEF callVars
  <2>2. rx[t].pc \in {"handler", "callback"} /\ t \in Threads => rx'[t] = rx[t]
    <3>1. CASE Start
      <4>1. gen + 1 > gen /\ gen + 1 \in Threads
        BY <3>1, BoundTypes DEF Start, TypeOK, ClientTypeOK, Threads
      <4>2. rx[gen + 1].pc = "none"
        BY <4>1 DEF Generations
      <4> QED BY <1>0, <3>1, <4>2 DEF Start
    <3> QED BY <1>3, <3>1 DEF Client, StopBegin, StopClose, StopDone
  <2> QED BY <1>1, <1>2, <2>1, <2>2
<1>4. CASE \E g \in Threads : RxThread(g)
  <2>0. PICK g \in Threads : RxThread(g)
    BY <1>4
  <2>1. /\ UNCHANGED <<call, result>>
        /\ rx[g].pc \in {"handler", "callback"} => call[g].n = 0
    BY <2>0, RxFrame DEF OpenCall
  <2>2. \E r : rx' = [rx EXCEPT ![g] = r]
    BY <2>0, RxMoves DEF Moves
  <2> QED BY <1>0, <1>1, <1>2, <2>1, <2>2
<1>5. ASSUME NEW u \in Callers \cup Threads, Caller(u)
      PROVE  Good(t)
  <2>0. UNCHANGED rx
    BY <1>5, CallerFrame
  <2>1. CASE u # t
    <3>1. UNCHANGED rx
      BY <2>0
    <3>2. CASE Publish(u)
      <4>1. UNCHANGED call /\ result' = [result EXCEPT ![Len(issued) + 1] = FAILED]
        BY <3>2 DEF Publish
      <4> QED BY <1>0, <1>1, <1>2, <3>1, <4>1
    <3>3. CASE CallPut(u)
      <4>1. call'[t] = call[t] /\ UNCHANGED result
        BY <1>0, <2>1, <3>3 DEF CallPut
      <4> QED BY <1>1, <1>2, <3>1, <4>1
    <3>4. CASE call' = [call EXCEPT ![u].pc = "wait"] /\ UNCHANGED result
      <4>1. call'[t] = call[t]
        BY <1>0, <2>1, <3>4
      <4> QED BY <1>1, <1>2, <3>1, <3>4, <4>1
    <3>5. ASSUME NEW n, NEW v, Ends(u, n, v)
          PROVE  Good(t)
      <4>1. call'[t] = call[t]
        BY <1>0, <2>1, <3>5 DEF Ends
      <4>2. issued[n].by = u
        BY <3>5, <1>0 DEF Ends, OpenCall
      <4>3. call[t].n # 0 => call[t].n # n
        BY <1>1, <2>1, <4>2
      <4> QED BY <1>0, <1>1, <1>2, <3>1, <3>5, <4>1, <4>3 DEF Ends
    <3> QED BY <1>5, <3>2, <3>3, <3>4, <3>5, CallerDoes
  <2>2. CASE u = t
    <3>1. CASE Publish(t)
      <4>1. /\ UNCHANGED <<call, rx>>
            /\ result' = [result EXCEPT ![Len(issued) + 1] = FAILED]
        BY <3>1 DEF Publish
      <4> QED BY <1>0, <1>1, <1>2, <4>1
    <3>2. ASSUME CallPut(t), NEW command \in Commands, Takes(t, command)
          PROVE  Good(t)
      <4>1. /\ call' = [call EXCEPT ![t] = [pc |-> "write", n |-> Len(issued) + 1]]
            /\ t \in Threads => rx[t].pc \in {"handler", "callback"}
            /\ UNCHANGED result
        BY <3>2 DEF CallPut, Free, InCallback
      <4>2. call'[t].pc = "write" /\ call'[t].n = Len(issued) + 1
        BY <1>0, <4>1
      <4>3. /\ Len(issued') = Len(issued) + 1 /\ Len(issued) + 1 # 0
            /\ issued'[Len(issued) + 1].by = t
            /\ issued'[Len(issued) + 1].command = command
            /\ Len(issued) + 1 <= Len(issued')
        BY <1>0, <3>2 DEF Takes
      <4>4. result[Len(issued) + 1] = 0
        BY <1>0, <3>2 DEF Fresh, Takes
      <4>5. t \in Threads => rx'[t].pc \in {"handler", "callback"}
        BY <2>0, <4>1
      <4> QED BY <4>1, <4>2, <4>3, <4>4, <4>5
    <3>3. ASSUME call' = [call EXCEPT ![t].pc = "wait"], UNCHANGED <<rx, result>>,
                 SameNumbers, call[t].n \in 1..Len(issued)
          PROVE  Good(t)
      <4>1. call'[t].pc = "wait" /\ call'[t].n = call[t].n
        BY <1>0, <3>3 DEF TypeOK, CallTypeOK
      <4>2. call[t].n # 0 /\ call[t].n <= Len(issued)
        BY <1>0, <3>3
      <4> QED BY <1>1, <3>3, <4>1, <4>2 DEF SameNumbers
    <3>4. ASSUME NEW n, NEW v, Ends(t, n, v)
          PROVE  Good(t)
      <4>1. call'[t].pc = "idle" /\ call'[t].n = 0
        BY <1>0, <3>4 DEF Ends
      <4> QED BY <4>1
    <3> QED BY <1>5, <2>0, <2>2, <3>1, <3>2, <3>3, <3>4, CallerDoes
  <2> QED BY <2>1, <2>2
<1>6. CASE UNCHANGED vars
  BY <1>1, <1>2, <1>6 DEF vars, callVars
<1> QED BY <1>3, <1>4, <1>5, <1>6, NextCases

LEMMA NewestPendingStep ==
  ASSUME TypeOK, OpenCall, NewestPending, [Next]_vars
  PROVE  NewestPending'
<1> DEFINE Newest(s, n) ==
             /\ issued'[n].command \in Commands
             /\ \A m \in 1..Len(issued') :
                  m > n /\ issued'[m].seq = s => issued'[m].command = PUBLISHED
<1>0. /\ Len(issued) \in Nat
      /\ \A s \in DOMAIN pending :
           /\ pending[s] \in 1..Len(issued)
           /\ issued[pending[s]].command \in Commands
           /\ \A m \in 1..Len(issued) :
                m > pending[s] /\ issued[m].seq = s => issued[m].command = PUBLISHED
  BY LengthIs DEF TypeOK, CallTypeOK, NewestPending
<1>s. SUFFICES ASSUME NEW s \in DOMAIN pending'
               PROVE  Newest(s, pending'[s])
  BY DEF NewestPending, PUBLISHED
<1>1. CASE UNCHANGED <<issued, pending>>
  BY <1>0, <1>1
<1>2. ASSUME SameNumbers, s \in DOMAIN pending, pending'[s] = pending[s]
      PROVE  Newest(s, pending'[s])
  BY <1>0, <1>2 DEF SameNumbers
<1>3. ASSUME NEW t \in Callers \cup Threads, NEW command, Takes(t, command),
             s \in DOMAIN pending, pending'[s] = pending[s],
             command = PUBLISHED \/ s # seq_id
      PROVE  Newest(s, pending'[s])
  <2>1. issued'[pending[s]].command \in Commands
    BY <1>0, <1>3 DEF Takes
  <2>2. ASSUME NEW m \in 1..Len(issued'), m > pending[s], issued'[m].seq = s
        PROVE  issued'[m].command = PUBLISHED
    <3>1. CASE m = Len(issued) + 1
      <4>1. issued'[Len(issued) + 1].seq = seq_id
            /\ issued'[Len(issued) + 1].command = command
        BY <1>3 DEF Takes
      <4> QED BY <1>3, <2>2, <3>1, <4>1
    <3>2. CASE m # Len(issued) + 1
      <4>1. m \in 1..Len(issued)
        BY <1>0, <1>3, <3>2 DEF Takes
      <4> QED BY <1>0, <1>3, <2>2, <4>1 DEF Takes
    <3> QED BY <3>1, <3>2
  <2> QED BY <1>3, <2>1, <2>2
<1>4. ASSUME NEW t \in Callers \cup Threads, Caller(t)
      PROVE  Newest(s, pending'[s])
  <2>1. CASE Publish(t) /\ Takes(t, PUBLISHED)
    BY <1>3, <2>1 DEF Publish
  <2>2. ASSUME CallPut(t), NEW command \in Commands, Takes(t, command)
        PROVE  Newest(s, pending'[s])
    <3>1. pending' = [i \in DOMAIN pending \cup {seq_id} |->
                        IF i = seq_id THEN Len(issued) + 1 ELSE pending[i]]
      BY <2>2 DEF CallPut
    <3>2. CASE s = seq_id
      <4>1. pending'[s] = Len(issued) + 1
        BY <3>1, <3>2
      <4>2. /\ issued'[Len(issued) + 1].command = command
            /\ Len(issued') = Len(issued) + 1
        BY <2>2 DEF Takes
      <4> QED BY <1>0, <2>2, <4>1, <4>2
    <3>3. CASE s # seq_id
      BY <1>3, <2>2, <3>1, <3>3
    <3> QED BY <3>2, <3>3
  <2>3. CASE SameNumbers /\ UNCHANGED pending
    BY <1>2, <2>3
  <2>4. ASSUME SameNumbers, NEW n, NEW v, Ends(t, n, v)
        PROVE  Newest(s, pending'[s])
    BY <1>2, <2>4 DEF Ends, Popped
  <2> QED BY <1>4, <2>1, <2>2, <2>3, <2>4, CallerDoes
<1> QED BY <1>1, <1>4, StepCases

LEMMA PacketFitsStep ==
  ASSUME TypeOK, OpenCall, Numbering, NewestPending, Generations, PacketFits, [Next]_vars
  PROVE  PacketFits'
<1> DEFINE Good(g) ==
             /\ data'[g] \subseteq 1..Len(issued')
             /\ rx'[g].pc = "dispatch" /\ rx'[g].pkt.kind = "reply" =>
                  rx'[g].pkt.of <= Len(issued')
             /\ rx'[g].pc = "found" =>
                  /\ rx'[g].pkt.n \in 1..Len(issued')
                  /\ rx'[g].pkt.of \in 1..rx'[g].pkt.n
                  /\ (rx'[g].pkt.n - rx'[g].pkt.of) % SeqMod = 0
                  /\ issued'[rx'[g].pkt.of].command = issued'[rx'[g].pkt.n].command
<1>s. SUFFICES ASSUME NEW g \in Threads PROVE Good(g)
  BY DEF PacketFits, Fits, Threads
<1>0. /\ Len(issued) \in Nat /\ Len(issued') \in Nat /\ Len(issued) <= Len(issued')
      /\ \A k \in 1..Len(issued) : issued'[k].command = issued[k].command
      /\ DOMAIN rx = Threads
      /\ data'[g] \subseteq 1..Len(issued')
  <2>1. /\ Len(issued) \in Nat /\ Len(issued') \in Nat /\ Len(issued) <= Len(issued')
        /\ \A k \in 1..Len(issued) : issued'[k].command = issued[k].command
        /\ DOMAIN rx = Threads /\ DOMAIN data = Threads
    BY LengthIs, NumbersStay DEF TypeOK, RxTypeOK
  <2>2. UNCHANGED data \/ \E h \in Threads : RxThread(h)
    BY NextCases, CallerFrame DEF vars, Client, Start, StopBegin, StopClose, StopDone
  <2>3. data'[g] \subseteq 1..Len(issued)
    <3>1. data[g] \subseteq 1..Len(issued)
      BY DEF PacketFits
    <3> QED BY <2>1, <2>2, <3>1, RxData
  <2> QED BY <2>1, <2>3
<1>1. ASSUME rx'[g] = rx[g] PROVE Good(g)
  <2>1. ASSUME rx[g].pc = "dispatch", rx[g].pkt.kind = "reply"
        PROVE  rx[g].pkt.of <= Len(issued')
    <3>1. rx[g].pkt.of <= Len(issued)
      BY <2>1 DEF PacketFits
    <3>2. rx[g].pkt.of \in Numbers
      BY <2>1, PlaceIs
    <3> QED BY <1>0, <3>1, <3>2 DEF Numbers
  <2>2. ASSUME rx[g].pc = "found"
        PROVE  /\ rx[g].pkt.n \in 1..Len(issued')
               /\ rx[g].pkt.of \in 1..rx[g].pkt.n
               /\ (rx[g].pkt.n - rx[g].pkt.of) % SeqMod = 0
               /\ issued'[rx[g].pkt.of].command = issued'[rx[g].pkt.n].command
    <3>1. /\ rx[g].pkt.n \in 1..Len(issued)
          /\ rx[g].pkt.of \in 1..rx[g].pkt.n
          /\ (rx[g].pkt.n - rx[g].pkt.of) % SeqMod = 0
          /\ issued[rx[g].pkt.of].command = issued[rx[g].pkt.n].command
      BY <2>2 DEF PacketFits, Fits
    <3>2. rx[g].pkt.of \in 1..Len(issued) /\ rx[g].pkt.n \in 1..Len(issued')
      BY <1>0, <3>1
    <3> QED BY <1>0, <3>1, <3>2
  <2> QED BY <1>0, <1>1, <2>1, <2>2
<1>2. ASSUME rx'[g].pc \notin {"dispatch", "found"} PROVE Good(g)
  BY <1>0, <1>2
<1>3. CASE Client
  <2>1. CASE Start
    BY <1>0, <1>1, <1>2, <2>1 DEF Start, TypeOK, RxTypeOK
  <2> QED BY <1>1, <1>3, <2>1 DEF Client, StopBegin, StopClose, StopDone
<1>4. ASSUME NEW h \in Threads, RxThread(h) PROVE Good(g)
  <2>1. PICK r \in Places : Moves(h, r)
    BY <1>4, RxMoves
  <2>2. CASE h # g
    BY <1>0, <1>1, <2>1, <2>2 DEF Moves
  <2>3. CASE h = g
    <3>0. rx'[g] = r
      BY <1>0, <2>1, <2>3 DEF Moves
    <3>1. CASE r.pc = "dispatch"
      <4>1. r.pkt.kind = "reply" => r.pkt.of \in 1..Len(issued)
        BY <2>1, <2>3, <3>1 DEF Moves, PacketFits
      <4> QED BY <1>0, <3>0, <3>1, <4>1
    <3>2. CASE r.pc = "found"
      <4> DEFINE m == r.pkt.of  n == r.pkt.n
      <4>1. /\ rx[g].pc = "dispatch" /\ rx[g].pkt.kind = "reply"
            /\ m = rx[g].pkt.of /\ n \in Matched(m)
        BY <2>1, <2>3, <3>2 DEF Moves
      <4>2. m \in 1..Len(issued)
        <5>1. m <= Len(issued) /\ m \in Numbers
          BY <4>1, PlaceIs DEF PacketFits
        <5> QED BY <1>0, <5>1 DEF Numbers
      <4>3. /\ issued[m].seq \in DOMAIN pending /\ n = pending[issued[m].seq]
            /\ n \in 1..Len(issued)
            /\ issued[n].seq = issued[m].seq /\ issued[n].command = issued[m].command
        BY <4>1, MatchedIs
      <4> HIDE DEF m, n
      <4>4. m <= n
        <5>1. issued[n].command \in Commands
          BY <4>3 DEF NewestPending
        <5>2. m > n => issued[m].command = PUBLISHED
          BY <4>2, <4>3 DEF NewestPending
        <5> QED BY <1>0, <4>2, <4>3, <5>1, <5>2, BoundTypes
      <4>5. (n - m) % SeqMod = 0
        <5>1. (m - 1) % SeqMod = (n - 1) % SeqMod
          BY <4>2, <4>3 DEF Numbering
        <5>2. m - 1 \in Nat /\ n - 1 \in Nat /\ m - 1 <= n - 1
          BY <1>0, <4>2, <4>3, <4>4
        <5>3. ((n - 1) - (m - 1)) % SeqMod = 0
          BY <5>1, <5>2, BoundTypes, WholeTurns
        <5>4. (n - 1) - (m - 1) = n - m
          BY <1>0, <4>2, <4>3
        <5> QED BY <5>3, <5>4
      <4>6. m \in 1..n /\ n \in 1..Len(issued')
        BY <1>0, <4>2, <4>3, <4>4
      <4>7. issued'[m].command = issued'[n].command
        BY <1>0, <4>2, <4>3
      <4> QED BY <1>0, <3>0, <3>2, <4>5, <4>6, <4>7 DEF m, n
    <3>3. CASE r.pc \notin {"dispatch", "found"}
      BY <1>2, <3>0, <3>3
    <3> QED BY <3>1, <3>2, <3>3
  <2> QED BY <2>2, <2>3
<1>5. ASSUME NEW t \in Callers \cup Threads, Caller(t) PROVE Good(g)
  BY <1>1, <1>5, CallerFrame
<1>6. CASE UNCHANGED vars
  BY <1>1, <1>6 DEF vars
<1> QED BY <1>3, <1>4, <1>5, <1>6, NextCases

(* Two RX threads are alive only after one has outlived its stop(). *)
LEMMA TwoAlive ==
  ASSUME TypeOK, Generations, NEW g \in Threads, NEW h \in Threads, g # h,
         Alive(g), Alive(h)
  PROVE  outlived
<1>1. g <= gen /\ h <= gen
  <2>1. rx[g].pc # "none" /\ rx[h].pc # "none"
    BY DEF Alive
  <2>2. ~(g > gen) /\ ~(h > gen)
    BY <2>1 DEF Generations
  <2>3. gen \in 0..MaxStarts /\ MaxStarts \in Nat
    BY BoundTypes DEF TypeOK, ClientTypeOK
  <2> QED BY <2>2, <2>3 DEF Threads
<1>2. g < gen \/ h < gen
  BY <1>1, BoundTypes DEF TypeOK, ClientTypeOK, Threads
<1> QED BY <1>2 DEF Generations

(* outlived is never forgotten. *)
LEMMA OutlivedStays ==
  ASSUME [Next]_vars, outlived
  PROVE  outlived'
<1>1. CASE Client
  BY <1>1, Zenon DEF Client, Start, StopBegin, StopClose, StopDone
<1>2. CASE UNCHANGED outlived
  BY <1>2
<1> QED BY <1>1, <1>2, NextCases, RxFrame, CallerFrame DEF vars

LEMMA AnswerFitsStep ==
  ASSUME TypeOK, OpenCall, Fresh, PacketFits, Generations, AnswerFits, [Next]_vars
  PROVE  AnswerFits'
<1> DEFINE Right(n) ==
             /\ response'[n] \in 1..n
             /\ (n - response'[n]) % SeqMod = 0
             /\ issued'[response'[n]].command = issued'[n].command
             /\ issued'[n].by \in Threads /\ call'[issued'[n].by].n = n => outlived'
<1>s. SUFFICES ASSUME NEW n \in 1..Len(issued'), response'[n] # 0
               PROVE  Right(n)
  BY DEF AnswerFits, Fits, Threads
<1>0. /\ Len(issued) \in Nat /\ Len(issued') \in Nat /\ Len(issued) <= Len(issued')
      /\ \A k \in 1..Len(issued) :
           issued'[k].command = issued[k].command /\ issued'[k].by = issued[k].by
      /\ DOMAIN response = Numbers /\ 1..Len(issued) \subseteq Numbers
      /\ DOMAIN call = Callers \cup Threads
  BY LengthIs, NumbersStay DEF TypeOK, CallTypeOK
(* An answer that was there stays right while its caller's call does. *)
<1>1. ASSUME n \in 1..Len(issued), response'[n] = response[n],
              issued[n].by \in Threads =>
                (call'[issued[n].by].n = n => call[issued[n].by].n = n)
       PROVE  Right(n)
  <2>1. /\ response[n] \in 1..n
        /\ (n - response[n]) % SeqMod = 0
        /\ issued[response[n]].command = issued[n].command
        /\ issued[n].by \in Threads /\ call[issued[n].by].n = n => outlived
    BY <1>s, <1>1 DEF AnswerFits, Fits
  <2>2. response[n] \in 1..Len(issued)
    BY <1>0, <1>1, <2>1
  <2> QED BY <1>0, <1>1, <2>1, <2>2, OutlivedStays
<1>2. ASSUME UNCHANGED response PROVE n \in 1..Len(issued)
  <2>1. n \in Numbers
    <3>1. Len(issued') <= MaxIds /\ MaxIds \in Nat
      BY CallTypeStep, BoundTypes DEF CallTypeOK
    <3> QED BY <1>0, <3>1 DEF Numbers
  <2>2. ~(n > Len(issued))
    BY <1>s, <1>2, <2>1 DEF Fresh
  <2> QED BY <1>0, <2>2
<1>3. CASE UNCHANGED <<call, response>>
  BY <1>1, <1>2, <1>3
<1>4. ASSUME NEW g \in Threads, SetResponse(g), UNCHANGED <<issued, call, outlived>>
      PROVE  Right(n)
  <2> DEFINE m == rx[g].pkt.n
  <2>0. /\ response' = [response EXCEPT ![m] = rx[g].pkt.of]
        /\ rx[g].pc = "found" /\ m \in 1..Len(issued)
        /\ rx[g].pkt.of \in 1..m /\ (m - rx[g].pkt.of) % SeqMod = 0
        /\ issued[rx[g].pkt.of].command = issued[m].command
    BY <1>4 DEF SetResponse, PacketFits, Fits
  <2> HIDE DEF m
  <2>1. CASE n = m
    <3>1. response'[n] = rx[g].pkt.of
      BY <1>0, <2>0, <2>1
    <3>2. ASSUME issued[n].by \in Threads, call[issued[n].by].n = n
          PROVE  outlived
      <4>1. n # 0
        BY <1>0
      <4>2. rx[issued[n].by].pc \in {"handler", "callback"}
        BY <3>2, <4>1 DEF OpenCall
      <4>3. issued[n].by # g /\ Alive(issued[n].by) /\ Alive(g)
        BY <2>0, <4>2 DEF Alive
      <4> QED BY <3>2, <4>3, TwoAlive
    <3> QED BY <1>4, <2>0, <2>1, <3>1, <3>2
  <2>2. CASE n # m
    <3>1. response'[n] = response[n]
      BY <1>0, <1>4, <2>0, <2>2
    <3> QED BY <1>1, <1>4, <3>1
  <2> QED BY <2>1, <2>2
<1>5. ASSUME NEW t \in Callers \cup Threads, Caller(t)
      PROVE  Right(n)
  <2>0. UNCHANGED response
    BY <1>5, CallerDoes DEF Publish, CallPut
  <2>1. \A u \in Callers \cup Threads : call'[u].n = n => call[u].n = n
    <3>0. n \in 1..Len(issued) /\ n # 0 /\ n # Len(issued) + 1
      BY <1>0, <1>2, <2>0
    <3>1. CASE UNCHANGED call
      BY <3>1
    <3>2. CASE call' = [call EXCEPT ![t] = [pc |-> "write", n |-> Len(issued) + 1]]
      BY <1>0, <3>0, <3>2
    <3>3. CASE call' = [call EXCEPT ![t].pc = "wait"]
      BY <1>0, <3>3 DEF TypeOK, CallTypeOK
    <3>4. CASE call' = [call EXCEPT ![t] = [pc |-> "idle", n |-> 0]]
      BY <1>0, <3>0, <3>4
    <3> QED BY <1>5, <3>1, <3>2, <3>3, <3>4, CallerDoes DEF Publish, CallPut, Ends
  <2>2. n \in 1..Len(issued)
    BY <1>2, <2>0
  <2> QED BY <1>1, <2>0, <2>1, <2>2
<1> QED BY <1>3, <1>4, <1>5, NextCases, ClientFrame, RxFrame DEF vars, callVars

LEMMA OwnReplyStep ==
  ASSUME TypeOK, OpenCall, Fresh, PacketFits, AnswerFits, OwnReply, [Next]_vars
  PROVE  OwnReply'
<1> DEFINE Own(n) ==
             result'[n] > 0 =>
               /\ result'[n] <= n
               /\ (n - result'[n]) % SeqMod = 0
               /\ issued'[result'[n]].command = issued'[n].command
               /\ issued'[n].by \in Threads => outlived'
<1>s. SUFFICES ASSUME NEW n \in 1..Len(issued') PROVE Own(n)
  BY DEF OwnReply, Threads
<1>0. /\ Len(issued) \in Nat /\ Len(issued') \in Nat /\ Len(issued) <= Len(issued')
      /\ \A k \in 1..Len(issued) :
           issued'[k].command = issued[k].command /\ issued'[k].by = issued[k].by
      /\ DOMAIN result = Numbers /\ 1..Len(issued) \subseteq Numbers
      /\ \A k \in Numbers : result[k] \in Numbers \cup {0, FAILED, RAISED}
  BY LengthIs, NumbersStay DEF TypeOK, CallTypeOK
<1>1. n \in Numbers
  <2>1. Len(issued') <= MaxIds /\ MaxIds \in Nat
    BY CallTypeStep, BoundTypes DEF CallTypeOK
  <2> QED BY <1>0, <2>1 DEF Numbers
<1>2. ASSUME result'[n] = result[n] PROVE Own(n)
  <2>1. CASE n \in 1..Len(issued)
    <3>1. ASSUME result[n] > 0
          PROVE  /\ result[n] <= n
                 /\ (n - result[n]) % SeqMod = 0
                 /\ issued'[result[n]].command = issued'[n].command
                 /\ issued'[n].by \in Threads => outlived'
      <4>1. /\ result[n] <= n
            /\ (n - result[n]) % SeqMod = 0
            /\ issued[result[n]].command = issued[n].command
            /\ issued[n].by \in Threads => outlived
        BY <2>1, <3>1 DEF OwnReply
      <4>2. result[n] \in 1..Len(issued)
        BY <1>0, <1>1, <2>1, <3>1, <4>1 DEF FAILED, RAISED, Numbers
      <4> QED BY <1>0, <2>1, <4>1, <4>2, OutlivedStays
    <3> QED BY <1>2, <3>1
  <2>2. CASE n \notin 1..Len(issued)
    <3>1. n > Len(issued)
      BY <1>0, <2>2
    <3>2. result[n] = 0
      BY <1>1, <3>1 DEF Fresh
    <3> QED BY <1>2, <3>2
  <2> QED BY <2>1, <2>2
<1>3. CASE UNCHANGED result
  BY <1>2, <1>3
<1>4. ASSUME NEW t \in Callers \cup Threads, Caller(t)
      PROVE  Own(n)
  <2>1. CASE Publish(t)
    <3>1. result' = [result EXCEPT ![Len(issued) + 1] = FAILED]
      BY <2>1 DEF Publish
    <3>2. result'[n] = result[n] \/ result'[n] = FAILED
      BY <1>0, <1>1, <3>1
    <3> QED BY <1>2, <3>2 DEF FAILED
  <2>2. ASSUME NEW m, NEW v, Ends(t, m, v)
        PROVE  Own(n)
    <3>0. result' = [result EXCEPT ![m] = v] /\ m \in 1..Len(issued) /\ call[t].n = m
      BY <2>2 DEF Ends
    <3>1. CASE n # m
      BY <1>0, <1>1, <1>2, <3>0, <3>1
    <3>2. CASE n = m
      <4>1. result'[n] = v
        BY <1>0, <1>1, <3>0, <3>2
      <4>2. CASE v \in {FAILED, RAISED}
        BY <4>1, <4>2 DEF FAILED, RAISED
      <4>3. CASE v = response[m] /\ v # 0
        <5>1. /\ v \in 1..m
              /\ (m - v) % SeqMod = 0
              /\ issued[v].command = issued[m].command
              /\ issued[m].by \in Threads /\ call[issued[m].by].n = m => outlived
          BY <3>0, <4>3 DEF AnswerFits, Fits
        <5>2. issued[m].by = t
          BY <1>0, <3>0 DEF OpenCall
        <5>3. v \in 1..Len(issued) /\ v <= m
          BY <1>0, <3>0, <5>1
        <5>4. issued'[m].by \in Threads => outlived'
          BY <1>0, <3>0, <5>1, <5>2, OutlivedStays
        <5>5. issued'[v].command = issued'[m].command
          BY <1>0, <3>0, <5>1, <5>3
        <5> QED BY <3>2, <4>1, <5>1, <5>3, <5>4, <5>5
      <4> QED BY <2>2, <4>2, <4>3 DEF Ends
    <3> QED BY <3>1, <3>2
  <2>3. CASE CallPut(t)
    BY <1>3, <2>3 DEF CallPut
  <2> QED BY <1>3, <1>4, <2>1, <2>2, <2>3, CallerDoes
<1> QED BY <1>3, <1>4, StepCases

(* How a call ended is not changed. *)
LEMMA ResultStays ==
  ASSUME TypeOK, OpenCall, [Next]_vars, NEW m \in 1..Len(issued), result[m] # 0
  PROVE  result'[m] = result[m]
<1>0. Len(issued) \in Nat /\ DOMAIN result = Numbers /\ m \in Numbers /\ m # Len(issued) + 1
  BY LengthIs DEF TypeOK, CallTypeOK
<1>1. CASE UNCHANGED result
  BY <1>1
<1>2. ASSUME NEW t \in Callers \cup Threads, Caller(t)
      PROVE  result'[m] = result[m]
  <2>1. CASE Publish(t)
    <3>1. result' = [result EXCEPT ![Len(issued) + 1] = FAILED]
      BY <2>1 DEF Publish
    <3> QED BY <1>0, <3>1
  <2>2. ASSUME NEW n, NEW v, Ends(t, n, v)
        PROVE  result'[m] = result[m]
    <3>1. n # m
      BY <1>0, <2>2 DEF Ends, OpenCall
    <3> QED BY <1>0, <2>2, <3>1 DEF Ends
  <2> QED BY <1>1, <1>2, <2>1, <2>2, CallerDoes DEF CallPut
<1> QED BY <1>1, <1>2, StepCases

LEMMA PendingExactStep ==
  ASSUME TypeOK, OpenCall, Fresh, PendingExact, [Next]_vars
  PROVE  PendingExact'
<1> DEFINE C == Callers \cup Threads
           Pend(n) ==
             \/ issued[n].seq \in DOMAIN pending /\ pending[issued[n].seq] = n
             \/ \E m \in 1..Len(issued) \ {n} :
                  /\ issued[m].seq = issued[n].seq
                  /\ issued[m].command \in Commands
                  /\ m > n \/ result[m] \notin {0, RAISED}
           PendN(n) ==
             \/ issued'[n].seq \in DOMAIN pending' /\ pending'[issued'[n].seq] = n
             \/ \E m \in 1..Len(issued') \ {n} :
                  /\ issued'[m].seq = issued'[n].seq
                  /\ issued'[m].command \in Commands
                  /\ m > n \/ result'[m] \notin {0, RAISED}
           Good == /\ \A s \in DOMAIN pending' : result'[pending'[s]] \in {0, RAISED}
                   /\ \A t \in C : call'[t].n # 0 => PendN(call'[t].n)
<1>s. SUFFICES Good
  BY DEF PendingExact, Threads, RAISED
<1>0. /\ Len(issued) \in Nat /\ Len(issued') \in Nat /\ Len(issued) <= Len(issued')
      /\ \A k \in 1..Len(issued) :
           issued'[k].seq = issued[k].seq /\ issued'[k].command = issued[k].command
      /\ DOMAIN result = Numbers /\ 1..Len(issued) \subseteq Numbers
      /\ DOMAIN call = C
      /\ \A s \in DOMAIN pending :
           /\ pending[s] \in 1..Len(issued) /\ issued[pending[s]].seq = s
           /\ result[pending[s]] \in {0, RAISED}
  BY LengthIs, NumbersStay DEF TypeOK, CallTypeOK, PendingExact
<1>1. \A t \in C : call[t].n # 0 => call[t].n \in 1..Len(issued) /\ Pend(call[t].n)
  <2>1. ASSUME NEW t \in C, call[t].n # 0
        PROVE  call[t].n \in 1..Len(issued)
    <3>1. call[t].n \in 0..MaxIds /\ call[t].n <= Len(issued) /\ MaxIds \in Nat
      BY <2>1, BoundTypes DEF OpenCall, TypeOK, CallTypeOK
    <3> QED BY <1>0, <2>1, <3>1
  <2> QED BY <2>1 DEF PendingExact
(* The second ground for a call in flight stays: ids are not given back,   *)
(* and how a call ended is not changed.                                    *)
<1>a. ASSUME NEW m \in 1..Len(issued), result[m] # 0
      PROVE  result'[m] = result[m]
  BY <1>a, ResultStays
<1>2. ASSUME NEW n \in 1..Len(issued), Pend(n),
             /\ issued[n].seq \in DOMAIN pending /\ pending[issued[n].seq] = n
             => PendN(n)
      PROVE  PendN(n)
  <2>1. ASSUME NEW m \in 1..Len(issued) \ {n}, issued[m].seq = issued[n].seq,
               issued[m].command \in Commands, m > n \/ result[m] \notin {0, RAISED}
        PROVE  PendN(n)
    <3>1. /\ m \in 1..Len(issued') \ {n} /\ issued'[m].seq = issued'[n].seq
          /\ issued'[m].command \in Commands
          /\ m > n \/ result'[m] \notin {0, RAISED}
      BY <1>0, <1>a, <2>1
    <3> QED BY <3>1
  <2> QED BY <1>2, <2>1
<1>3. ASSUME UNCHANGED <<pending, call>>,
             \A s \in DOMAIN pending : result'[pending[s]] = result[pending[s]]
      PROVE  Good
  <2>1. ASSUME NEW n \in 1..Len(issued), issued[n].seq \in DOMAIN pending,
               pending[issued[n].seq] = n
        PROVE  PendN(n)
    BY <1>0, <1>3, <2>1
  <2> HIDE DEF PendN, Pend
  <2> QED BY <1>0, <1>1, <1>2, <1>3, <2>1
<1>4. ASSUME NEW t \in C, NEW command \in Commands, CallPut(t), Takes(t, command)
      PROVE  Good
  <2> DEFINE L == Len(issued)
  <2>0. /\ pending' = [s \in DOMAIN pending \cup {seq_id} |->
                         IF s = seq_id THEN L + 1 ELSE pending[s]]
        /\ call' = [call EXCEPT ![t] = [pc |-> "write", n |-> L + 1]]
        /\ UNCHANGED result
        /\ Len(issued') = L + 1 /\ issued'[L + 1].seq = seq_id /\ L + 1 \in Numbers
        /\ issued'[L + 1].command \in Commands
    BY <1>4 DEF CallPut, Takes
  <2>1. result[L + 1] = 0
    BY <1>0, <2>0 DEF Fresh
  <2>2. \A s \in DOMAIN pending' : result'[pending'[s]] \in {0, RAISED}
    BY <1>0, <2>0, <2>1
  <2>3. PendN(L + 1)
    BY <2>0
  <2>4. ASSUME NEW n \in 1..L, issued[n].seq \in DOMAIN pending,
               pending[issued[n].seq] = n
        PROVE  PendN(n)
    <3>1. CASE issued[n].seq = seq_id
      <4>1. /\ L + 1 \in 1..Len(issued') \ {n} /\ issued'[L + 1].seq = issued'[n].seq
            /\ issued'[L + 1].command \in Commands /\ L + 1 > n
        BY <1>0, <2>0, <3>1
      <4> QED BY <4>1
    <3>2. CASE issued[n].seq # seq_id
      BY <1>0, <2>0, <2>4, <3>2
    <3> QED BY <3>1, <3>2
  <2> HIDE DEF PendN, Pend
  <2>5. ASSUME NEW u \in C, call'[u].n # 0
        PROVE  PendN(call'[u].n)
    <3>1. CASE u = t
      BY <1>0, <2>0, <2>3, <3>1
    <3>2. CASE u # t
      <4>1. call'[u] = call[u]
        BY <1>0, <2>0, <3>2
      <4> QED BY <1>1, <1>2, <2>4, <2>5, <4>1
    <3> QED BY <3>1, <3>2
  <2> QED BY <2>2, <2>5
<1>5. ASSUME NEW t \in C, NEW n, NEW v, Ends(t, n, v), SameNumbers
      PROVE  Good
  <2>0. /\ n = call[t].n /\ n \in 1..Len(issued)
        /\ result' = [result EXCEPT ![n] = v]
        /\ call' = [call EXCEPT ![t] = [pc |-> "idle", n |-> 0]]
        /\ IF v = RAISED THEN UNCHANGED pending ELSE pending' = Popped(n)
        /\ v # 0
    BY <1>5 DEF Ends
  <2>1. \A s \in DOMAIN pending' :
          /\ s \in DOMAIN pending /\ pending'[s] = pending[s]
          /\ pending[s] # n \/ v = RAISED
    <3>1. CASE v # RAISED /\ pending' = Popped(n)
      <4>1. \A s \in DOMAIN pending' :
              s \in DOMAIN pending /\ pending'[s] = pending[s] /\ s # issued[n].seq
        BY <3>1 DEF Popped
      <4> QED BY <1>0, <4>1
    <3>2. CASE v = RAISED /\ UNCHANGED pending
      BY <3>2
    <3> QED BY <2>0, <3>1, <3>2
  <2>2. \A s \in DOMAIN pending' : result'[pending'[s]] \in {0, RAISED}
    BY <1>0, <2>0, <2>1
  <2>3. ASSUME NEW k \in 1..Len(issued) \ {n}, issued[k].seq \in DOMAIN pending,
               pending[issued[k].seq] = k
        PROVE  PendN(k)
    <3>1. CASE issued[k].seq = issued[n].seq
      <4>1. CASE v = RAISED
        BY <1>0, <2>0, <2>3, <4>1
      <4>2. CASE v # RAISED
        <5>1. issued[n].command \in Commands
          BY <1>0, <2>0 DEF OpenCall
        <5>2. result'[n] = v
          BY <1>0, <2>0
        <5>3. /\ n \in 1..Len(issued') \ {k} /\ issued'[n].seq = issued'[k].seq
              /\ issued'[n].command \in Commands /\ result'[n] \notin {0, RAISED}
          BY <1>0, <2>0, <3>1, <4>2, <5>1, <5>2
        <5> QED BY <5>3
      <4> QED BY <4>1, <4>2
    <3>2. CASE issued[k].seq # issued[n].seq
      <4>1. issued[k].seq \in DOMAIN pending' /\ pending'[issued[k].seq] = k
        BY <2>0, <2>3, <3>2 DEF Popped
      <4> QED BY <1>0, <4>1
    <3> QED BY <3>1, <3>2
  <2> HIDE DEF PendN, Pend
  <2>4. ASSUME NEW u \in C, call'[u].n # 0
        PROVE  PendN(call'[u].n)
    <3>1. u # t
      BY <1>0, <2>0, <2>4
    <3>2. call'[u] = call[u]
      BY <1>0, <2>0, <3>1
    <3>3. call[u].n # n
      BY <1>0, <2>0, <2>4, <3>1, <3>2 DEF OpenCall
    <3> QED BY <1>1, <1>2, <2>3, <2>4, <3>2, <3>3
  <2> QED BY <2>2, <2>4
<1>6. ASSUME NEW t \in C, Caller(t)
      PROVE  Good
  <2>1. CASE Publish(t)
    <3>1. /\ UNCHANGED <<pending, call>>
          /\ result' = [result EXCEPT ![Len(issued) + 1] = FAILED]
      BY <2>1 DEF Publish
    <3>2. \A s \in DOMAIN pending : result'[pending[s]] = result[pending[s]]
      BY <1>0, <3>1
    <3> QED BY <1>3, <3>1, <3>2
  <2>2. ASSUME call' = [call EXCEPT ![t].pc = "wait"], UNCHANGED <<pending, result>>,
               SameNumbers
        PROVE  Good
    <3>1. \A u \in C : call'[u].n = call[u].n
      BY <1>0, <2>2 DEF TypeOK, CallTypeOK
    <3>2. ASSUME NEW n \in 1..Len(issued), issued[n].seq \in DOMAIN pending,
                 pending[issued[n].seq] = n
          PROVE  PendN(n)
      BY <1>0, <2>2, <3>2
    <3> HIDE DEF PendN, Pend
    <3> QED BY <1>0, <1>1, <1>2, <2>2, <3>1, <3>2
  <2> HIDE DEF Good
  <2> QED BY <1>4, <1>5, <1>6, <2>1, <2>2, CallerDoes
<1>7. CASE UNCHANGED <<issued, pending, call, result>>
  BY <1>3, <1>7
<1> QED BY <1>6, <1>7, StepCases

-----------------------------------------------------------------------------
(* The RX threads. *)

LEMMA GenIs ==
  ASSUME TypeOK
  PROVE  /\ gen \in Nat /\ gen <= MaxStarts /\ MaxStarts \in Nat
         /\ \A g \in Threads : g \in Nat /\ 1 <= g /\ g <= MaxStarts
         /\ \A g \in Nat : 1 <= g /\ g <= MaxStarts => g \in Threads
         /\ DOMAIN rx = Threads /\ DOMAIN ended = Threads
<1>1. gen \in 0..MaxStarts /\ MaxStarts \in Nat
  BY BoundTypes DEF TypeOK, ClientTypeOK
<1>2. DOMAIN rx = Threads /\ DOMAIN ended = Threads
  BY DEF TypeOK, RxTypeOK
<1> QED BY <1>1, <1>2 DEF Threads

LEMMA EarlierThread ==
  ASSUME TypeOK, NEW g \in 1..gen - 1
  PROVE  g \in Threads
<1>1. gen \in Nat /\ gen <= MaxStarts /\ MaxStarts \in Nat
  BY GenIs
<1> QED BY <1>1 DEF Threads

LEMMA GenerationsStep ==
  ASSUME TypeOK, Generations, [Next]_vars
  PROVE  Generations'
<1> DEFINE Good(g) ==
             /\ rx'[g].pc = "none" <=> g > gen'
             /\ rx'[g].pc \notin {"none", "dead"} /\ (g < gen' \/ main' = "closing" \/ ~running')
                => outlived'
             /\ rx'[g].pc = "none" => ended'[g] = "not"
             /\ ended'[g] \in {"stop_event", "read error", "reply raised"} =>
                  rx'[g].pc = "dead"
             /\ rx'[g].pc = "dead" => ended'[g] # "not"
<1>s. SUFFICES /\ running' => gen' # 0
               /\ main' # "idle" => running'
               /\ \A g \in Threads : Good(g)
  BY DEF Generations, Alive, Threads
<1>0. /\ running => gen # 0
      /\ main # "idle" => running
      /\ \A g \in Threads :
           /\ rx[g].pc = "none" <=> g > gen
           /\ rx[g].pc \notin {"none", "dead"} /\ (g < gen \/ main = "closing" \/ ~running)
              => outlived
           /\ rx[g].pc = "none" => ended[g] = "not"
           /\ ended[g] \in {"stop_event", "read error", "reply raised"} => rx[g].pc = "dead"
           /\ rx[g].pc = "dead" => ended[g] # "not"
      /\ DOMAIN rx = Threads /\ DOMAIN ended = Threads
  BY GenIs DEF Generations, Alive
<1>1. CASE Start
  <2>0. /\ ~running /\ main = "idle" /\ gen < MaxStarts
        /\ gen' = gen + 1 /\ running' /\ UNCHANGED <<main, outlived, ended>>
        /\ rx' = [rx EXCEPT ![gen + 1].pc = "loop"]
    BY <1>1 DEF Start
  <2>1. gen + 1 \in Threads /\ gen + 1 # 0 /\ gen + 1 > gen
    BY <2>0, GenIs
  <2>2. ASSUME NEW g \in Threads PROVE Good(g)
    <3>1. CASE g = gen + 1
      <4>1. rx'[g].pc = "loop"
        BY <1>0, <2>0, <3>1, <2>1 DEF TypeOK, RxTypeOK
      <4>2. rx[g].pc = "none"
        BY <1>0, <3>1, <2>1, Zenon
      <4>3. ended[g] = "not"
        BY <1>0, <4>2
      <4>4. ~(g > gen') /\ ~(g < gen')
        BY <2>0, <3>1, GenIs
      <4> QED BY <2>0, <4>1, <4>3, <4>4
    <3>2. CASE g # gen + 1
      <4>1. rx'[g] = rx[g]
        BY <1>0, <2>0, <3>2
      <4>2. g > gen <=> g > gen'
        BY <2>0, <3>2, GenIs
      <4>3. rx[g].pc \notin {"none", "dead"} => outlived
        BY <1>0, <2>0
      <4> QED BY <1>0, <2>0, <4>1, <4>2, <4>3
    <3> QED BY <3>1, <3>2
  <2> HIDE DEF Good
  <2> QED BY <2>0, <2>1, <2>2
<1>2. CASE StopBegin
  <2>1. /\ running /\ main = "idle" /\ main' = "joining"
        /\ UNCHANGED <<running, gen, rx, outlived, ended>>
    BY <1>2 DEF StopBegin
  <2> QED BY <1>0, <2>1
<1>3. CASE StopClose
  <2>1. /\ main = "joining" /\ main' = "closing"
        /\ outlived' = (outlived \/ rx[gen].pc \notin {"none", "dead"})
        /\ UNCHANGED <<running, gen, rx, ended>>
    BY <1>3 DEF StopClose, Alive
  <2>2. ASSUME NEW g \in Threads, rx[g].pc \notin {"none", "dead"}
        PROVE  outlived'
    <3>1. ~(g > gen)
      BY <1>0, <2>2, Zenon
    <3>2. g < gen \/ g = gen
      BY <3>1, GenIs
    <3> QED BY <1>0, <2>1, <2>2, <3>2, Zenon
  <2> QED BY <1>0, <2>1, <2>2
<1>4. CASE StopDone
  <2>1. /\ main = "closing" /\ main' = "idle" /\ ~running'
        /\ UNCHANGED <<gen, rx, outlived, ended>>
    BY <1>4 DEF StopDone
  <2> QED BY <1>0, <2>1
<1>5. ASSUME NEW h \in Threads, RxThread(h)
      PROVE  /\ running' => gen' # 0
             /\ main' # "idle" => running'
             /\ \A g \in Threads : Good(g)
  <2>1. UNCHANGED <<running, gen, main, outlived>> /\ rx[h].pc \notin {"none", "dead"}
    BY <1>5, RxFrame
  <2>2. PICK r \in Places : Moves(h, r)
    BY <1>5, RxMoves
  <2>3. r.pc \notin {"none"}
    BY DEF Places
  <2>4. ASSUME NEW g \in Threads PROVE Good(g)
    <3>1. CASE g = h
      <4>1. rx'[g] = r
        BY <1>0, <2>2, <3>1 DEF Moves
      <4>2. CASE r.pc = "dead"
        <5>1. ended'[g] # "not"
          BY <1>0, <2>2, <3>1, <4>2 DEF Moves
        <5> QED BY <1>0, <2>1, <3>1, <4>1, <4>2, <5>1
      <4>3. CASE r.pc # "dead"
        <5>1. ended'[g] = ended[g] \/ ended'[g] = "stopped itself"
          BY <1>0, <2>2, <3>1, <4>3 DEF Moves
        <5> QED BY <1>0, <2>1, <2>3, <3>1, <4>1, <4>3, <5>1
      <4> QED BY <4>2, <4>3
    <3>2. CASE g # h
      <4>1. rx'[g] = rx[g] /\ ended'[g] = ended[g]
        BY <1>0, <2>2, <3>2 DEF Moves
      <4> QED BY <1>0, <2>1, <4>1
    <3> QED BY <3>1, <3>2
  <2> QED BY <1>0, <2>1, <2>4
<1>6. ASSUME NEW t \in Callers \cup Threads, Caller(t)
      PROVE  /\ running' => gen' # 0
             /\ main' # "idle" => running'
             /\ \A g \in Threads : Good(g)
  <2>1. UNCHANGED <<running, gen, main, rx, outlived, ended>>
    BY <1>6, CallerFrame DEF clientVars
  <2> QED BY <1>0, <2>1
<1>7. CASE UNCHANGED vars
  BY <1>0, <1>7 DEF vars, clientVars
<1> QED BY <1>1, <1>2, <1>3, <1>4, <1>5, <1>6, <1>7, NextCases DEF Client

LEMMA StopCauseStep ==
  ASSUME TypeOK, Generations, StopCause, [Next]_vars
  PROVE  StopCause'
<1> DEFINE Failed == /\ transport = "serial"
                     /\ outlived
                     /\ \E g \in 1..gen - 1 : ended[g] = "read error"
           FailedN == /\ transport' = "serial"
                      /\ outlived'
                      /\ \E g \in 1..gen' - 1 : ended'[g] = "read error"
           Good ==
             running' =>
               /\ ended'[gen'] = "stopped itself" =>
                    stop_event' /\ rx'[gen'].pc \notin {"loop", "reading"}
               /\ main' = "idle" =>
                    /\ stop_event' =>
                         \/ ended'[gen'] \in {"read error", "stopped itself", "reply raised"}
                         \/ FailedN
                    /\ ended'[gen'] = "stop_event" => FailedN
<1>s. SUFFICES Good
  BY DEF StopCause, EarlierFailed
<1>0. /\ running =>
           /\ ended[gen] = "stopped itself" =>
                stop_event /\ rx[gen].pc \notin {"loop", "reading"}
           /\ main = "idle" =>
                /\ stop_event =>
                     \/ ended[gen] \in {"read error", "stopped itself", "reply raised"}
                     \/ Failed
                /\ ended[gen] = "stop_event" => Failed
      /\ running => gen \in Threads
      /\ DOMAIN rx = Threads /\ DOMAIN ended = Threads
      /\ UNCHANGED transport
  <2>1. running => gen \in Threads
    <3>1. running => gen # 0
      BY DEF Generations
    <3> QED BY <3>1, GenIs
  <2> QED BY <2>1, GenIs, NextCases DEF StopCause, EarlierFailed
<1> HIDE DEF Failed, FailedN
<1>1. CASE Start
  <2>1. gen' = gen + 1 /\ gen < MaxStarts /\ ~stop_event' /\ UNCHANGED ended
    BY <1>1 DEF Start
  <2>2. gen + 1 \in Threads /\ gen + 1 > gen
    BY <2>1, GenIs
  <2>3. ended[gen + 1] = "not"
    BY <2>2 DEF Generations
  <2> QED BY <2>1, <2>3
<1>2. CASE StopBegin
  BY <1>0, <1>2 DEF StopBegin
<1>3. CASE StopClose
  BY <1>0, <1>3 DEF StopClose
<1>4. CASE StopDone
  BY <1>4 DEF StopDone
<1>5. ASSUME NEW h \in Threads, RxThread(h), running
      PROVE  Good
  <2>1. UNCHANGED <<running, gen, main, outlived>> /\ rx[h].pc \notin {"none", "dead"}
    BY <1>5, RxFrame
  <2>2. PICK r \in Places : Moves(h, r)
    BY <1>5, RxMoves
  <2>3. ended[h] \notin {"stop_event", "read error", "reply raised"}
    BY <2>1 DEF Generations
  <2>4. Failed => FailedN
    <3>1. ASSUME NEW g \in 1..gen - 1, ended[g] = "read error"
          PROVE  g \in 1..gen' - 1 /\ ended'[g] = "read error"
      <4>1. g # h /\ g \in Threads
        BY <2>3, <3>1, EarlierThread
      <4>2. ended'[g] = ended[g]
        BY <1>0, <2>2, <4>1 DEF Moves
      <4> QED BY <2>1, <3>1, <4>2
    <3> QED BY <1>0, <2>1, <3>1 DEF Failed, FailedN
  <2>5. h # gen => h < gen
    <3>1. ~(h > gen)
      BY <2>1 DEF Generations
    <3> QED BY <3>1, GenIs
  <2>6. CASE ReadError(h)
    <3>0. /\ rx[h].pc = "reading" /\ rx' = [rx EXCEPT ![h] = [pc |-> "dead", pkt |-> NoPacket]]
          /\ ended' = [ended EXCEPT ![h] = IF stop_event THEN "stop_event" ELSE "read error"]
          /\ stop_event' = (stop_event \/ transport = "serial")
      BY <2>6 DEF ReadError, Dies, Enter
    <3>1. CASE h = gen
      <4>1. ended[gen] # "stopped itself"
        BY <1>0, <1>5, <3>0, <3>1
      <4>2. CASE stop_event
        <5>1. main = "idle" => Failed
          BY <1>0, <1>5, <2>3, <3>1, <4>1, <4>2
        <5>2. ended'[gen] = "stop_event"
          BY <1>0, <3>0, <3>1, <4>2
        <5> QED BY <2>1, <2>4, <5>1, <5>2
      <4>3. CASE ~stop_event
        <5>1. ended'[gen] = "read error"
          BY <1>0, <3>0, <3>1, <4>3
        <5> QED BY <2>1, <5>1
      <4> QED BY <4>2, <4>3
    <3>2. CASE h # gen
      <4>1. ended'[gen] = ended[gen] /\ rx'[gen] = rx[gen]
        BY <1>0, <1>5, <3>0, <3>2
      <4>2. outlived
        BY <2>1, <2>5, <3>2 DEF Generations, Alive
      <4>3. stop_event' /\ ~stop_event => FailedN
        <5>1. ASSUME stop_event', ~stop_event
              PROVE  transport = "serial" /\ h \in 1..gen - 1 /\ ended'[h] = "read error"
          <6>1. h \in 1..gen - 1
            BY <2>5, <3>2, GenIs
          <6> QED BY <1>0, <3>0, <5>1, <6>1
        <5> QED BY <1>0, <2>1, <4>2, <5>1 DEF FailedN
      <4>4. stop_event => stop_event'
        BY <3>0
      <4> QED BY <1>0, <1>5, <2>1, <2>4, <4>1, <4>3, <4>4
    <3> QED BY <3>1, <3>2
  <2>7. CASE StopInCallback(h)
    <3>1. h = gen /\ stop_event' /\ ended' = [ended EXCEPT ![h] = "stopped itself"]
          /\ rx[h].pc \in {"handler", "callback"} /\ UNCHANGED rx
      BY <2>7 DEF StopInCallback, InCallback
    <3>2. ended'[gen] = "stopped itself" /\ rx'[gen].pc \in {"handler", "callback"}
      BY <1>0, <1>5, <3>1
    <3> QED BY <2>1, <3>1, <3>2
  <2>8. CASE UNCHANGED stop_event /\ h # gen
    <3>1. ended'[gen] = ended[gen] /\ rx'[gen] = rx[gen]
      BY <1>0, <1>5, <2>2, <2>8 DEF Moves
    <3> QED BY <1>0, <1>5, <2>1, <2>4, <2>8, <3>1
  <2>9. CASE h = gen /\ LoopCheck(h)
    <3>1. CASE stop_event
      <4>0. /\ UNCHANGED stop_event
            /\ rx' = [rx EXCEPT ![h] = [pc |-> "dead", pkt |-> NoPacket]]
            /\ ended' = [ended EXCEPT ![h] = IF ended[h] = "not" THEN "stop_event"
                                             ELSE ended[h]]
        BY <2>9, <3>1 DEF LoopCheck, Dies, Enter, clientVars
      <4>1. rx'[gen].pc = "dead"
        BY <1>0, <2>9, <4>0
      <4>2. CASE ended[h] = "not"
        <5>1. main = "idle" => Failed
          BY <1>0, <1>5, <2>9, <3>1, <4>2
        <5>2. ended'[gen] = "stop_event"
          BY <1>0, <2>9, <4>0, <4>2
        <5> QED BY <2>1, <2>4, <5>1, <5>2
      <4>3. CASE ended[h] # "not"
        <5>1. ended'[gen] = ended[gen]
          BY <1>0, <2>9, <4>0, <4>3
        <5> QED BY <1>0, <1>5, <2>1, <2>4, <4>0, <4>1, <5>1
      <4> QED BY <4>2, <4>3
    <3>2. CASE ~stop_event
      <4>1. UNCHANGED <<stop_event, ended>>
        BY <2>9, <3>2 DEF LoopCheck, clientVars
      <4> QED BY <1>0, <1>5, <2>1, <2>4, <3>2, <4>1
    <3> QED BY <3>1, <3>2
  <2>10. CASE h = gen /\ rx'[h].pc \notin {"loop", "reading"} /\ UNCHANGED <<stop_event, ended>>
    BY <1>0, <1>5, <2>1, <2>4, <2>10
  <2>11. CASE h = gen /\ HandlerReplies(h)
    <3>1. /\ rx[h].pc = "handler" /\ UNCHANGED stop_event
          /\ (ended' = [ended EXCEPT ![h] = "reply raised"]) \/ UNCHANGED ended
      BY <2>11 DEF HandlerReplies, Dies, clientVars
    <3>2. rx'[gen].pc \notin {"loop", "reading"}
      <4>1. rx'[gen] = r
        BY <1>0, <1>5, <2>2, <2>11 DEF Moves
      <4>2. r.pc \in {"callback", "dead"}
        <5>1. rx' = [rx EXCEPT ![h].pc = "callback"]
              \/ rx' = [rx EXCEPT ![h] = [pc |-> "dead", pkt |-> NoPacket]]
          BY <2>11, Zenon DEF HandlerReplies, Dies, Enter, Goto
        <5>2. rx'[h].pc \in {"callback", "dead"}
          <6>1. CASE rx' = [rx EXCEPT ![h].pc = "callback"]
            BY <6>1 DEF TypeOK, RxTypeOK
          <6>2. CASE rx' = [rx EXCEPT ![h] = [pc |-> "dead", pkt |-> NoPacket]]
            BY <1>0, <6>2
          <6> QED BY <5>1, <6>1, <6>2
        <5> QED BY <1>5, <2>11, <4>1, <5>2
      <4> QED BY <4>1, <4>2
    <3>3. CASE ended' = [ended EXCEPT ![h] = "reply raised"]
      <4>1. ended'[gen] = "reply raised"
        BY <1>0, <1>5, <2>11, <3>3
      <4> HIDE DEF FailedN
      <4>2. gen' = gen
        BY <2>1
      <4> QED BY <4>1, <4>2
    <3>4. CASE UNCHANGED ended
      BY <1>0, <1>5, <2>1, <2>4, <3>1, <3>2, <3>4
    <3> QED BY <3>1, <3>3, <3>4
  <2>12. CASE ~ReadError(h) /\ ~StopInCallback(h)
    <3>1. UNCHANGED stop_event
      BY <1>5, <2>12 DEF RxThread, LoopCheck, Read, NextPacket, DispatchReply,
         SetResponse, DispatchRequest, DispatchTopic, HandlerReplies, CallbackReturns,
         clientVars
    <3>2. \/ LoopCheck(h) \/ HandlerReplies(h)
          \/ rx'[h].pc \notin {"loop", "reading"} /\ UNCHANGED ended
      <4>1. rx \in [Threads -> [pc : {"none", "loop", "reading", "next", "dispatch", "found",
                                      "handler", "callback", "dead"},
                                 pkt : Packets \cup {NoPacket} \cup Found]]
        BY DEF TypeOK, RxTypeOK
      <4>2. CASE Read(h)
        BY <4>1, <4>2 DEF Read, Goto
      <4>3. CASE DispatchReply(h)
        BY <4>1, <4>3 DEF DispatchReply, Enter
      <4>4. CASE NextPacket(h)
        BY <4>1, <4>4 DEF NextPacket
      <4> QED BY <1>5, <2>12, <4>1, <4>2, <4>3, <4>4 DEF RxThread, SetResponse,
              DispatchRequest, DispatchTopic, CallbackReturns, Enter
    <3> QED BY <2>8, <2>9, <2>10, <2>11, <3>1, <3>2
  <2> QED BY <2>6, <2>7, <2>12
<1>6. ASSUME NEW t \in Callers \cup Threads, Caller(t)
      PROVE  Good
  <2>1. UNCHANGED <<running, stop_event, gen, main, rx, outlived, ended>>
    BY <1>6, CallerFrame DEF clientVars
  <2> QED BY <1>0, <2>1 DEF Failed, FailedN
<1>7. CASE UNCHANGED vars
  BY <1>0, <1>7 DEF vars, clientVars, Failed, FailedN
<1>8. CASE ~running /\ \E h \in Threads : RxThread(h)
  BY <1>8, RxFrame
<1> HIDE DEF Good
<1> QED BY <1>1, <1>2, <1>3, <1>4, <1>5, <1>6, <1>7, <1>8, NextCases DEF Client

-----------------------------------------------------------------------------
(* The invariant and what follows. *)

LEMMA InitIInv == Init => IInv
<1> SUFFICES ASSUME Init PROVE IInv
  OBVIOUS
<1> USE DEF Init
<1>1. ClientTypeOK
  <2>1. running \in BOOLEAN /\ stop_event \in BOOLEAN /\ outlived \in BOOLEAN
    OBVIOUS
  <2> QED BY <2>1, BoundTypes DEF ClientTypeOK
<1>2. RxTypeOK
  <2>1. NoPacket \in Packets \cup {NoPacket} \cup Found
    OBVIOUS
  <2> HIDE DEF NoPacket
  <2> QED BY <2>1 DEF RxTypeOK
<1>3. CallTypeOK
  <2>1. issued \in Seq(Issued) /\ Len(issued) = 0
    OBVIOUS
  <2>2. DOMAIN pending = {}
    OBVIOUS
  <2> QED BY <2>1, <2>2, BoundTypes DEF CallTypeOK, Seqs
<1>4. Len(issued) = 0 /\ DOMAIN pending = {}
  OBVIOUS
<1>5. Numbering
  <2>1. 0 % SeqMod = 0
    BY BoundTypes
  <2> QED BY <1>4, <2>1 DEF Numbering
<1>6. Fresh /\ OpenCall /\ PacketFits
  BY <1>4, BoundTypes DEF Fresh, OpenCall, PacketFits
<1>7. NewestPending /\ AnswerFits /\ OwnReply /\ PendingExact
  BY <1>4, BoundTypes DEF NewestPending, AnswerFits, OwnReply, PendingExact
<1>8. Generations
  <2>1. \A g \in Threads : g > 0
    BY DEF Threads
  <2> QED BY <2>1 DEF Generations, Alive
<1>9. StopCause
  BY DEF StopCause
<1> QED BY <1>1, <1>2, <1>3, <1>5, <1>6, <1>7, <1>8, <1>9 DEF IInv, TypeOK

LEMMA NextIInv == IInv /\ [Next]_vars => IInv'
<1> SUFFICES ASSUME IInv, [Next]_vars PROVE IInv'
  OBVIOUS
<1>0. /\ TypeOK /\ Numbering /\ Fresh /\ OpenCall /\ NewestPending /\ PacketFits
      /\ AnswerFits /\ OwnReply /\ PendingExact /\ Generations /\ StopCause
  BY DEF IInv
<1>1. TypeOK'
  BY <1>0, ClientTypeStep, RxTypeStep, CallTypeStep DEF TypeOK
<1>2. Numbering' /\ Fresh' /\ OpenCall' /\ NewestPending'
  BY <1>0, NumberingStep, FreshStep, OpenCallStep, NewestPendingStep
<1>3. PacketFits' /\ AnswerFits' /\ OwnReply' /\ PendingExact'
  BY <1>0, PacketFitsStep, AnswerFitsStep, OwnReplyStep, PendingExactStep
<1>4. Generations' /\ StopCause'
  BY <1>0, GenerationsStep, StopCauseStep
<1> QED BY <1>1, <1>2, <1>3, <1>4 DEF IInv

THEOREM Invariance == Spec => []IInv
BY InitIInv, NextIInv, PTL DEF Spec

(* Ids fit their width, and _pending has one call per id, the one that     *)
(* took it.                                                                *)
THEOREM TypeCorrect == Spec => []TypeOK
<1>1. IInv => TypeOK
  BY DEF IInv
<1> QED BY Invariance, <1>1, PTL

(* What call_service() returns was sent for its own request or for one of  *)
(* the same command whole turns of the counter earlier, and a call made on *)
(* the RX thread is answered only when a second RX thread is there.        *)
THEOREM RepliesMatch == Spec => []OwnReply
<1>1. IInv => OwnReply
  BY DEF IInv
<1> QED BY Invariance, <1>1, PTL

(* _pending keeps no call that has returned but those whose write raised,  *)
(* and loses no call in flight but to a later call of its id, or to an     *)
(* earlier one that returned otherwise than by raising.                    *)
THEOREM PendingKept == Spec => []PendingExact
<1>1. IInv => PendingExact
  BY DEF IInv
<1> QED BY Invariance, <1>1, PTL

(* A running client is deaf only for one of the causes the code has.       *)
THEOREM RxThreadLost == Spec => []DeafOnlyForCause
<1>1. IInv => DeafOnlyForCause
  <2> SUFFICES ASSUME IInv, running, main = "idle", ~Alive(gen)
               PROVE  \/ ended[gen] \in {"read error", "reply raised", "stopped itself"}
                      \/ ended[gen] = "stop_event" /\ EarlierFailed
    BY DEF DeafOnlyForCause, EarlierFailed
  <2>0. TypeOK /\ Generations /\ StopCause
    BY DEF IInv
  <2>1. gen \in Threads /\ ~(gen > gen)
    <3>1. gen # 0
      BY <2>0 DEF Generations
    <3> QED BY <2>0, <3>1, GenIs
  <2>2. rx[gen].pc # "none"
    BY <2>0, <2>1, Zenon DEF Generations
  <2>3. ended[gen] # "not"
    BY <2>0, <2>1, <2>2 DEF Generations, Alive
  <2>4. ended[gen] \in {"not", "stop_event", "stopped itself", "read error", "reply raised"}
    BY <2>0, <2>1 DEF TypeOK, RxTypeOK
  <2> QED BY <2>0, <2>3, <2>4 DEF StopCause
<1> QED BY Invariance, <1>1, PTL
=============================================================================
