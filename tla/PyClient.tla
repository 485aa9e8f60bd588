------------------------------ MODULE PyClient ------------------------------
(***************************************************************************)
(* The Python client: SerialCommClient over a serial port, and             *)
(* UDPSerialCommClient, which overrides start(), stop(), the write and the *)
(* RX loop.                                                                *)
(*                                                                         *)
(* The main thread starts and stops the client; the threads in Callers and *)
(* the callbacks and service handlers on the RX threads call services and  *)
(* publish, and those of the last RX thread may call stop().  Thread g is  *)
(* the RX thread of the g-th start() and port g what that start() opened.  *)
(* Requests are numbered as they are made; an answer is the number of the  *)
(* request it was sent for.                                                *)
(*                                                                         *)
(* pyserial, the sockets, the link and the firmware are external: a read   *)
(* returns nothing, packets, or an error; a write succeeds, raises what   *)
(* the client catches (SerialException) or something else (OSError of a    *)
(* socket, termios.error of flush(), AssertionError without a socket).     *)
(***************************************************************************)
EXTENDS Integers, FiniteSets, Sequences

CONSTANTS
  Callers,    \* application threads that call services and publish
  Commands,   \* the commands they use
  SeqMod,     \* how many sequence numbers there are, 2^16 in the code
  MaxStarts,  \* bound: calls of start()
  MaxIds,     \* bound: sequence numbers taken
  MaxWork     \* bound: calls of start() and sequence numbers together

ASSUME PyClientAssumption ==
  /\ SeqMod \in Nat \ {0}
  /\ {MaxStarts, MaxIds, MaxWork} \subseteq Nat
  /\ Callers \cap (1..MaxStarts) = {}
  /\ "published" \notin Commands

VARIABLES
  transport,   \* "serial" or "udp": which of the two clients this is
  running,     \* _running
  stop_event,  \* _stop_event
  gen,         \* which start() the client is in: _serial or _sock, _rx_thread
  open,        \* the ports that are open
  main,        \* where the main thread is in stop()
  rx,          \* rx[g]: RX thread g, where it is and the packet in its hands
  data,        \* data[g]: the requests answered in what thread g last read
  seq_id,      \* _seq_id
  issued,      \* history: for each number taken, its id, command and caller
  pending,     \* _pending: ids to numbers of calls
  call,        \* call[t]: where thread t is in call_service()
  response,    \* response[n]: _PendingCall.response of call n, 0 for none
  result,      \* history: result[n]: how call n ended, 0 while it is open
  outlived,    \* history: a stop() gave up waiting for its RX thread
  ended        \* history: ended[g]: why RX thread g ended

clientVars == <<running, stop_event, gen, open, main>>
callVars == <<seq_id, issued, pending, call, response, result>>
vars == <<transport, clientVars, rx, data, callVars, outlived, ended>>

Threads == 1..MaxStarts
Numbers == 1..MaxIds
Seqs == 0..SeqMod - 1
PUBLISHED == "published"  \* the command of a number that is no call's
FAILED == -1
RAISED == -2

Packets == [kind : {"topic", "request"}] \cup [kind : {"reply"}, of : Numbers]
NoPacket == [kind |-> "none"]
Found == [kind : {"future"}, of : Numbers, n : Numbers]
Issued == [seq : Seqs, command : Commands \cup {PUBLISHED}, by : Callers \cup Threads,
           sent : BOOLEAN]

Alive(g) == rx[g].pc \notin {"none", "dead"}

(* What thread g reads: a serial thread keeps the port it was started      *)
(* with, a UDP thread looks up _sock at every turn.                        *)
Readable(g) == (IF transport = "serial" THEN g ELSE gen) \in open

Goto(g, label) == rx' = [rx EXCEPT ![g].pc = label]

(* Thread g has no more use for the packet. *)
Enter(g, label) == rx' = [rx EXCEPT ![g] = [pc |-> label, pkt |-> NoPacket]]

Dies(g, why) ==
  /\ Enter(g, "dead")
  /\ data' = [data EXCEPT ![g] = {}]
  /\ ended' = [ended EXCEPT ![g] = why]

Init ==
  /\ transport \in {"serial", "udp"}
  /\ running = FALSE
  /\ stop_event = FALSE
  /\ gen = 0
  /\ open = {}
  /\ main = "idle"
  /\ rx = [g \in Threads |-> [pc |-> "none", pkt |-> NoPacket]]
  /\ data = [g \in Threads |-> {}]
  /\ seq_id = 0
  /\ issued = <<>>
  /\ pending = <<>>
  /\ call = [t \in Callers \cup Threads |-> [pc |-> "idle", n |-> 0]]
  /\ response = [n \in Numbers |-> 0]
  /\ result = [n \in Numbers |-> 0]
  /\ outlived = FALSE
  /\ ended = [g \in Threads |-> "not"]

-----------------------------------------------------------------------------
(* start() and stop().  Between the statements of start() the old RX       *)
(* thread, if there is one, can only do what it can do before it.          *)
Start ==
  /\ ~running
  /\ main = "idle"
  /\ gen < MaxStarts
  /\ gen + Len(issued) < MaxWork
  /\ gen' = gen + 1
  /\ open' = open \cup {gen + 1}
  /\ stop_event' = FALSE
  /\ running' = TRUE
  /\ rx' = [rx EXCEPT ![gen + 1].pc = "loop"]
  /\ UNCHANGED <<main, data, callVars, outlived, ended>>

StopBegin ==
  /\ running
  /\ main = "idle"
  /\ stop_event' = TRUE
  /\ main' = "joining"
  /\ UNCHANGED <<running, gen, open, rx, data, callVars, outlived, ended>>

(* join() returns, or its 2 s pass because a callback or a handler takes   *)
(* longer; the port is closed in either case.                              *)
StopClose ==
  /\ main = "joining"
  /\ rx[gen].pc \in {"dead", "handler", "callback"}
  /\ outlived' = (outlived \/ Alive(gen))
  /\ open' = open \ {gen}
  /\ main' = "closing"
  /\ UNCHANGED <<running, stop_event, gen, rx, data, callVars, ended>>

StopDone ==
  /\ main = "closing"
  /\ running' = FALSE
  /\ main' = "idle"
  /\ UNCHANGED <<stop_event, gen, open, rx, data, callVars, outlived, ended>>

InCallback(g) == rx[g].pc \in {"handler", "callback"} /\ call[g].pc = "idle"

(* Called by a callback or a service handler: join() refuses to wait for   *)
(* its own thread and _dispatch() catches what it raises, so stop() ends   *)
(* there and _dispatch() goes on.                                          *)
StopInCallback(g) ==
  /\ running
  /\ g = gen
  /\ InCallback(g)
  /\ stop_event' = TRUE
  /\ ended' = [ended EXCEPT ![g] = "stopped itself"]
  /\ UNCHANGED <<running, gen, open, main, rx, data, callVars, outlived>>

-----------------------------------------------------------------------------
(* _rx_loop(). *)

(* _stop_event is looked at before a read, and not between the packets of  *)
(* one read.                                                               *)
LoopCheck(g) ==
  /\ rx[g].pc \in {"loop", "next"}
  /\ IF stop_event
     THEN Dies(g, IF ended[g] = "not" THEN "stop_event" ELSE ended[g])
     ELSE Goto(g, "reading") /\ data' = [data EXCEPT ![g] = {}] /\ UNCHANGED ended
  /\ UNCHANGED <<clientVars, callVars, outlived>>

(* A read returns what has come, in which there may be a reply to any      *)
(* request that was sent.                                                  *)
Read(g) ==
  /\ rx[g].pc = "reading"
  /\ Readable(g)
  /\ data' = [data EXCEPT ![g] = {n \in 1..Len(issued) : issued[n].sent}]
  /\ Goto(g, "next")
  /\ UNCHANGED <<clientVars, callVars, outlived, ended>>

(* A read fails: the device is gone, or stop() has closed the port.  The   *)
(* serial loop then sets _stop_event, which is everybody's.                *)
ReadError(g) ==
  /\ rx[g].pc = "reading"
  /\ Dies(g, IF stop_event THEN "stop_event" ELSE "read error")
  /\ stop_event' = (stop_event \/ transport = "serial")
  /\ UNCHANGED <<running, gen, open, main, callVars, outlived>>

(* The packets the parser made of it, in whatever order they came. *)
NextPacket(g) ==
  /\ rx[g].pc = "next"
  /\ \E pkt \in [kind : {"topic", "request"}] \cup [kind : {"reply"}, of : data[g]] :
       rx' = [rx EXCEPT ![g] = [pc |-> "dispatch", pkt |-> pkt]]
  /\ UNCHANGED <<clientVars, data, callVars, outlived, ended>>

-----------------------------------------------------------------------------
(* _dispatch().  Packets the application has no use for end as a topic     *)
(* with a callback that does nothing.                                      *)

(* Mutant: the reply is matched by its id alone. *)
Matched_AnyCommand(of) ==
  LET seq == issued[of].seq
  IN  {pending[s] : s \in DOMAIN pending \cap {seq}}

(* The pending call of the id and the command of the reply to number of,   *)
(* if there is one.                                                        *)
Matched(of) ==
  LET seq == issued[of].seq
  IN  {n \in {pending[s] : s \in DOMAIN pending \cap {seq}} :
         issued[n].command = issued[of].command}

(* The future is looked up under _pending_lock ... *)
DispatchReply(g) ==
  /\ rx[g].pc = "dispatch"
  /\ rx[g].pkt.kind = "reply"
  /\ \/ \E n \in Matched(rx[g].pkt.of) :
          rx' = [rx EXCEPT ![g] = [pc  |-> "found",
                                   pkt |-> [kind |-> "future", of |-> @.pkt.of, n |-> n]]]
     \/ Matched(rx[g].pkt.of) = {} /\ Enter(g, "callback")
  /\ UNCHANGED <<clientVars, data, callVars, outlived, ended>>

(* ... and answered without it. *)
SetResponse(g) ==
  /\ rx[g].pc = "found"
  /\ response' = [response EXCEPT ![rx[g].pkt.n] = rx[g].pkt.of]
  /\ Enter(g, "next")
  /\ UNCHANGED <<clientVars, data, seq_id, issued, pending, call, result, outlived, ended>>

DispatchRequest(g) ==
  /\ rx[g].pc = "dispatch"
  /\ rx[g].pkt.kind = "request"
  /\ Enter(g, "handler")
  /\ UNCHANGED <<clientVars, data, callVars, outlived, ended>>

DispatchTopic(g) ==
  /\ rx[g].pc = "dispatch"
  /\ rx[g].pkt.kind = "topic"
  /\ Enter(g, "callback")
  /\ UNCHANGED <<clientVars, data, callVars, outlived, ended>>

(* What a write on the port of this start() may come to. *)
WriteOutcomes ==
  {"raised"} \cup (IF transport = "serial" THEN {"caught"} ELSE {})
             \cup (IF gen \in open THEN {"ok"} ELSE {})

(* The handler's return value, whatever it raised, goes back as a reply.   *)
(* Nothing but SerialException is caught there, nor in _rx_loop().         *)
HandlerReplies(g) ==
  /\ rx[g].pc = "handler" /\ InCallback(g)
  /\ \E outcome \in WriteOutcomes :
       IF outcome = "raised" THEN Dies(g, "reply raised")
       ELSE Goto(g, "callback") /\ UNCHANGED <<data, ended>>
  /\ UNCHANGED <<clientVars, callVars, outlived>>

(* Mutant: what a callback raises is not caught. *)
CallbackReturns_NotCaught(g) ==
  /\ rx[g].pc = "callback" /\ InCallback(g)
  /\ \/ Enter(g, "next") /\ UNCHANGED <<data, ended>>
     \/ Dies(g, "callback raised")
  /\ UNCHANGED <<clientVars, callVars, outlived>>

(* The callback returns or raises: _dispatch() goes on either way. *)
CallbackReturns(g) ==
  /\ rx[g].pc = "callback" /\ InCallback(g)
  /\ Enter(g, "next")
  /\ UNCHANGED <<clientVars, data, callVars, outlived, ended>>

-----------------------------------------------------------------------------
(* publish() and call_service().  A caller is a thread of the application, *)
(* or an RX thread in a callback or a handler.                             *)

(* Mutant: the counter is not masked. *)
NextSeqId_NoMask == seq_id + 1

(* _next_seq_id() *)
NextSeqId == (seq_id + 1) % SeqMod

Free(t) ==
  /\ running
  /\ call[t].pc = "idle"
  /\ t \in Threads => InCallback(t)
  /\ Len(issued) < MaxIds
  /\ gen + Len(issued) < MaxWork

Publish(t) ==
  /\ Free(t)
  /\ seq_id' = NextSeqId
  /\ issued' = Append(issued, [seq |-> seq_id, command |-> PUBLISHED, by |-> t, sent |-> FALSE])
  /\ result' = [result EXCEPT ![Len(issued) + 1] = FAILED]
  /\ UNCHANGED <<clientVars, rx, data, pending, call, response, outlived, ended>>

(* Mutant: an entry that is there already is left alone. *)
CallPut_KeepsLeftover(t) ==
  /\ Free(t)
  /\ seq_id' = NextSeqId
  /\ \E command \in Commands :
       issued' = Append(issued, [seq |-> seq_id, command |-> command, by |-> t, sent |-> FALSE])
  /\ pending' = [s \in DOMAIN pending \cup {seq_id} |->
                   IF s \in DOMAIN pending THEN pending[s] ELSE Len(issued) + 1]
  /\ call' = [call EXCEPT ![t] = [pc |-> "write", n |-> Len(issued) + 1]]
  /\ UNCHANGED <<clientVars, rx, data, response, result, outlived, ended>>

CallPut(t) ==
  /\ Free(t)
  /\ seq_id' = NextSeqId
  /\ \E command \in Commands :
       issued' = Append(issued, [seq |-> seq_id, command |-> command, by |-> t, sent |-> FALSE])
  /\ pending' = [s \in DOMAIN pending \cup {seq_id} |->
                   IF s = seq_id THEN Len(issued) + 1 ELSE pending[s]]
  /\ call' = [call EXCEPT ![t] = [pc |-> "write", n |-> Len(issued) + 1]]
  /\ UNCHANGED <<clientVars, rx, data, response, result, outlived, ended>>

(* _pending.pop(seq, None) *)
Popped(n) == [s \in DOMAIN pending \ {issued[n].seq} |-> pending[s]]

Returns(t, value) ==
  /\ result' = [result EXCEPT ![call[t].n] = value]
  /\ call' = [call EXCEPT ![t] = [pc |-> "idle", n |-> 0]]

(* The write and the flush; when the flush fails the request is out.  What *)
(* is not a SerialException leaves the pending entry behind.               *)
CallWrite(t) ==
  LET n == call[t].n
  IN  /\ call[t].pc = "write"
      /\ \E outcome \in WriteOutcomes, flushed \in BOOLEAN :
           /\ flushed => gen \in open /\ (transport = "serial" \/ outcome = "ok")
           /\ outcome = "ok" => flushed
           /\ issued' = [issued EXCEPT ![n].sent = flushed]
           /\ CASE outcome = "ok" ->
                     /\ call' = [call EXCEPT ![t].pc = "wait"]
                     /\ UNCHANGED <<pending, result>>
                [] outcome = "caught" ->
                     pending' = Popped(n) /\ Returns(t, FAILED)
                [] outcome = "raised" ->
                     UNCHANGED pending /\ Returns(t, RAISED)
      /\ UNCHANGED <<clientVars, rx, data, seq_id, response, outlived, ended>>

(* event.wait() returns, or times out; then the entry is popped. *)
CallAnswered(t) ==
  /\ call[t].pc = "wait"
  /\ response[call[t].n] # 0
  /\ pending' = Popped(call[t].n)
  /\ Returns(t, response[call[t].n])
  /\ UNCHANGED <<clientVars, rx, data, seq_id, issued, response, outlived, ended>>

(* Mutant: the entry of a call that timed out stays. *)
CallTimeout_NoPop(t) ==
  /\ call[t].pc = "wait"
  /\ Returns(t, FAILED)
  /\ UNCHANGED <<clientVars, rx, data, seq_id, issued, pending, response, outlived, ended>>

CallTimeout(t) ==
  /\ call[t].pc = "wait"
  /\ pending' = Popped(call[t].n)
  /\ Returns(t, FAILED)
  /\ UNCHANGED <<clientVars, rx, data, seq_id, issued, response, outlived, ended>>

RxThread(g) ==
  \/ LoopCheck(g) \/ Read(g) \/ ReadError(g) \/ NextPacket(g)
  \/ DispatchReply(g) \/ SetResponse(g) \/ DispatchRequest(g) \/ DispatchTopic(g)
  \/ HandlerReplies(g) \/ CallbackReturns(g) \/ StopInCallback(g)

Caller(t) ==
  \/ Publish(t) \/ CallPut(t) \/ CallWrite(t)
  \/ CallAnswered(t) \/ CallTimeout(t)

Next ==
  /\ \/ Start \/ StopBegin \/ StopClose \/ StopDone
     \/ \E g \in Threads : RxThread(g)
     \/ \E t \in Callers \cup Threads : Caller(t)
  /\ UNCHANGED transport

Spec == Init /\ [][Next]_vars

-----------------------------------------------------------------------------
(* Type invariant: ids fit their width, and _pending has one call per id. *)
ClientTypeOK ==
  /\ transport \in {"serial", "udp"}
  /\ running \in BOOLEAN /\ stop_event \in BOOLEAN /\ outlived \in BOOLEAN
  /\ gen \in 0..MaxStarts
  /\ open \subseteq Threads
  /\ main \in {"idle", "joining", "closing"}

RxTypeOK ==
  /\ rx \in [Threads ->
       [pc : {"none", "loop", "reading", "next", "dispatch", "found", "handler",
              "callback", "dead"},
        pkt : Packets \cup {NoPacket} \cup Found]]
  /\ data \in [Threads -> SUBSET Numbers]
  /\ ended \in [Threads ->
       {"not", "stop_event", "stopped itself", "read error", "reply raised"}]

CallTypeOK ==
  /\ seq_id \in Seqs
  /\ issued \in Seq(Issued) /\ Len(issued) <= MaxIds
  /\ DOMAIN pending \subseteq Seqs
  /\ \A s \in DOMAIN pending : pending[s] \in 1..Len(issued) /\ issued[pending[s]].seq = s
  /\ call \in [Callers \cup Threads -> [pc : {"idle", "write", "wait"}, n : 0..MaxIds]]
  /\ response \in [Numbers -> 0..MaxIds]
  /\ result \in [Numbers -> Numbers \cup {0, FAILED, RAISED}]

TypeOK == ClientTypeOK /\ RxTypeOK /\ CallTypeOK

(* What call_service() returns as the answer was sent for its own request, *)
(* or for a request of the same command a whole turn of the 16-bit counter *)
(* earlier.  A call made by a callback on the RX thread is answered only   *)
(* when a second RX thread is there to hear the reply.                     *)
OwnReply ==
  \A n \in 1..Len(issued) :
    result[n] > 0 =>
      /\ result[n] <= n
      /\ (n - result[n]) % SeqMod = 0
      /\ issued[result[n]].command = issued[n].command
      /\ issued[n].by \in Threads => outlived

(* _pending holds no call that has returned, except one whose write raised *)
(* what call_service() does not catch; and a call in flight is found under *)
(* its id, unless another call has the same id: a later one, or an earlier *)
(* one that has popped it on its way out.  What a raised write leaves      *)
(* behind hides no call, however often the counter comes round.            *)
PendingExact ==
  /\ \A s \in DOMAIN pending : result[pending[s]] \in {0, RAISED}
  /\ \A t \in Callers \cup Threads :
       LET n == call[t].n
       IN  n # 0 =>
             \/ issued[n].seq \in DOMAIN pending /\ pending[issued[n].seq] = n
             \/ \E m \in 1..Len(issued) \ {n} :
                  /\ issued[m].seq = issued[n].seq
                  /\ issued[m].command \in Commands
                  /\ m > n \/ result[m] \notin {0, RAISED}

(* A client that is running has lost its RX thread only to a failed read,  *)
(* to a reply whose write raised, to a callback or handler that called     *)
(* stop(), or, on a serial port, to an earlier RX thread: one that         *)
(* outlived its own stop(), fails on the closed port and sets the common   *)
(* _stop_event.                                                            *)
DeafOnlyForCause ==
  running /\ main = "idle" /\ ~Alive(gen) =>
    \/ ended[gen] \in {"read error", "reply raised", "stopped itself"}
    \/ /\ ended[gen] = "stop_event"
       /\ transport = "serial"
       /\ outlived
       /\ \E g \in 1..gen - 1 : ended[g] = "read error"
=============================================================================
