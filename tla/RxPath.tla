------------------------------- MODULE RxPath -------------------------------
(***************************************************************************)
(* The receive path of SerialComm: process_rx_data() on the RX task of the *)
(* transport, the parser under parser_mutex_, and the inter-byte watchdog  *)
(* (a GPTimer, its alarm interrupt and the watchdog task).                 *)
(*                                                                         *)
(* Three tasks work on the timer and its flag _running with no lock: the   *)
(* RX task in kick(), the watchdog task in stop(), and the task that calls *)
(* SerialComm::start().  Every access to the flag or the timer is a step   *)
(* of its own.  The parser is only touched under parser_mutex_, so each of *)
(* its critical sections is one step.                                      *)
(*                                                                         *)
(* The line is external: it carries Frames back to back, hands them over   *)
(* in chunks of any of the sizes in Chunks, and may lose bytes.            *)
(***************************************************************************)
EXTENDS Framing

CONSTANTS
  Frames,     \* the packets sent, a sequence of distinct ones
  Chunks,     \* the numbers of bytes the transport may read at once ...
  PacedChunks,     \* ... and on a paced line
  MaxLosses,       \* bound: times the line loses bytes in one behaviour ...
  MaxPacedLosses   \* ... and on a paced line

(* A packet an application may send. *)
Packets == [seq_id : Words, version : {VER1}, command : Bytes, payload : Seq(Bytes)]

ASSUME RxPathAssumption ==
  /\ Frames \in Seq(Packets)
  /\ \A n \in 1..Len(Frames) : Len(Frames[n].payload) <= MaxPayload
  /\ Chunks \cup PacedChunks \subseteq Nat \ {0}
  /\ {MaxLosses, MaxPacedLosses} \subseteq Nat

VARIABLES
  paced,      \* no byte is read before SerialComm::start() is done, the sender
              \*   pauses after each frame until the timeout has passed, and no
              \*   task is late: the alarm fires in the pauses only, and its
              \*   handling ends before the next frame
  pos,        \* bytes of the line that were read or lost
  damaged,    \* history: the frames that lost bytes
  losses,     \* history: losses so far
  parser,     \* parser_
  chunk,      \* what process_rx_data() has not parsed yet
  delivered,  \* history: packets handed to dispatcher_.enqueue()
  reset,      \* history: a timeout has reset a packet in assembly
  timer,      \* the driver state of the GPTimer, "enabled" or "run"
  armed,      \* its alarm is set; firing clears it, gptimer_start() sets it
  running,    \* _running
  notified,   \* the notification of the watchdog task
  tpc,        \* tpc[t]: where task t is
  raced       \* history: two tasks were at the timer at once, or the watchdog
              \*   task was stopping it while bytes waited to be parsed

lineVars == <<pos, damaged, losses>>
parserVars == <<parser, chunk, delivered, reset>>
timerVars == <<timer, armed, running, notified>>
pathVars == <<lineVars, parserVars, timerVars, tpc>>
vars == <<paced, pathVars, raced>>

Tasks == {"rx", "watchdog", "start"}
Numbers == 1..Len(Frames)

(* EndOf[n]: where frame n ends on the line. *)
EndOf[n \in 0..Len(Frames)] ==
  IF n = 0 THEN 0 ELSE EndOf[n - 1] + PacketSize(Frames[n])

Line ==
  LET upto[n \in 0..Len(Frames)] ==
        IF n = 0 THEN <<>> ELSE upto[n - 1] \o Encode(Frames[n])
  IN  upto[Len(Frames)]

Boundary == {EndOf[n] : n \in 0..Len(Frames)}

(* The frames that have a byte among those from i to j. *)
Touched(i, j) == {n \in Numbers : EndOf[n - 1] < j /\ i <= EndOf[n]}

Goto(t, label) == tpc' = [tpc EXCEPT ![t] = label]

Init ==
  /\ paced \in BOOLEAN
  /\ pos = 0
  /\ damaged = {}
  /\ losses = 0
  /\ parser = ParserInit
  /\ chunk = <<>>
  /\ delivered = <<>>
  /\ reset = FALSE
  /\ timer = "enabled"
  /\ armed = FALSE
  /\ running = FALSE
  /\ notified = FALSE
  /\ tpc = [t \in Tasks |-> CASE t = "rx" -> "idle"
                              [] t = "watchdog" -> "wait"
                              [] t = "start" -> "start_check"]
  /\ raced = FALSE

-----------------------------------------------------------------------------
(* The line (external). *)

(* The watchdog is done with the pause. *)
Quiet ==
  /\ tpc["start"] = "done"
  /\ tpc["watchdog"] = "wait"
  /\ ~notified
  /\ ~(timer = "run" /\ armed)

(* A chunk of up to n bytes reaches to byte end; on a paced line it does   *)
(* not reach past the end of a frame.                                      *)
Reaches(n, end) ==
  /\ tpc["rx"] = "idle"
  /\ paced => tpc["start"] = "done"
  /\ paced /\ pos \in Boundary => Quiet
  /\ pos < end /\ end <= pos + n /\ end <= EndOf[Len(Frames)]
  /\ LET limits == IF paced THEN {b \in Boundary : b > pos} ELSE {EndOf[Len(Frames)]}
     IN  /\ \A b \in limits : end <= b
         /\ end = pos + n \/ end \in limits

(* The transport reads n bytes and calls transport_rx_callback(). *)
Receive(n) ==
  /\ \E end \in Boundary \cup {pos + n} :
       /\ Reaches(n, end)
       /\ pos' = end
       /\ chunk' = SubSeq(Line, pos + 1, end)
  /\ Goto("rx", "stop_check")
  /\ UNCHANGED <<damaged, losses, parser, delivered, reset, timerVars>>

Lose(n) ==
  /\ losses < (IF paced THEN MaxPacedLosses ELSE MaxLosses)
  /\ \E end \in Boundary \cup {pos + n} :
       /\ Reaches(n, end)
       /\ pos' = end
       /\ damaged' = damaged \cup Touched(pos + 1, end)
  /\ losses' = losses + 1
  /\ UNCHANGED <<parserVars, timerVars, tpc>>

-----------------------------------------------------------------------------
(* SerialCommWatchdogTimer: stop(), start() and kick(), which is stop()    *)
(* followed by start().                                                    *)

AfterStop(t) == Goto(t, IF t = "watchdog" THEN "callback" ELSE "start_check")
AfterStart(t) == Goto(t, IF t = "rx" THEN "parse" ELSE "done")

StopCheck(t) ==
  /\ tpc[t] = "stop_check"
  /\ IF running THEN Goto(t, "stop_timer") ELSE AfterStop(t)
  /\ UNCHANGED <<lineVars, parserVars, timerVars>>

(* gptimer_stop(); ESP_ERR_INVALID_STATE, when it was not running, is fine. *)
StopTimer(t) ==
  /\ tpc[t] = "stop_timer"
  /\ timer' = "enabled"
  /\ Goto(t, "stop_flag")
  /\ UNCHANGED <<lineVars, parserVars, armed, running, notified>>

StopFlag(t) ==
  /\ tpc[t] = "stop_flag"
  /\ running' = FALSE
  /\ AfterStop(t)
  /\ UNCHANGED <<lineVars, parserVars, timer, armed, notified>>

StartCheck(t) ==
  /\ tpc[t] = "start_check"
  /\ IF running THEN AfterStart(t) ELSE Goto(t, "start_timer")
  /\ UNCHANGED <<lineVars, parserVars, timerVars>>

(* Mutant: the alarm is not armed again once it has fired. *)
StartTimer_StaysSpent(t) ==
  /\ tpc[t] = "start_timer"
  /\ IF timer = "enabled"
     THEN timer' = "run" /\ armed' = (armed \/ pos = 0) /\ Goto(t, "start_flag")
     ELSE UNCHANGED <<timer, armed>> /\ AfterStart(t)
  /\ UNCHANGED <<lineVars, parserVars, running, notified>>

(* gptimer_start() arms the alarm; on a timer that runs it does nothing,   *)
(* returns ESP_ERR_INVALID_STATE, and so does start().                     *)
StartTimer(t) ==
  /\ tpc[t] = "start_timer"
  /\ IF timer = "enabled"
     THEN timer' = "run" /\ armed' = TRUE /\ Goto(t, "start_flag")
     ELSE UNCHANGED <<timer, armed>> /\ AfterStart(t)
  /\ UNCHANGED <<lineVars, parserVars, running, notified>>

StartFlag(t) ==
  /\ tpc[t] = "start_flag"
  /\ running' = TRUE
  /\ AfterStart(t)
  /\ UNCHANGED <<lineVars, parserVars, timer, armed, notified>>

TimerStep(t) ==
  \/ StopCheck(t) \/ StopTimer(t) \/ StopFlag(t)
  \/ StartCheck(t) \/ StartTimer(t) \/ StartFlag(t)

(* The timeout passes; the alarm is not reloaded, so it fires once. *)
Alarm ==
  /\ timer = "run"
  /\ armed
  /\ paced => pos \in Boundary /\ tpc["rx"] = "idle"
  /\ armed' = FALSE
  /\ notified' = TRUE
  /\ UNCHANGED <<lineVars, parserVars, timer, running, tpc>>

(* task_function(): the notification is taken, then stop(). *)
Wake ==
  /\ tpc["watchdog"] = "wait"
  /\ notified
  /\ notified' = FALSE
  /\ Goto("watchdog", "stop_check")
  /\ UNCHANGED <<lineVars, parserVars, timer, armed, running>>

(* Mutant: only a packet whose payload is being read is given up. *)
Timeout_PayloadOnly ==
  /\ tpc["watchdog"] = "callback"
  /\ IF parser.state = "READ_PAYLOAD"
     THEN parser' = ParserReset(parser) /\ reset' = TRUE
     ELSE UNCHANGED <<parser, reset>>
  /\ Goto("watchdog", "wait")
  /\ UNCHANGED <<lineVars, chunk, delivered, timerVars>>

(* on_interbyte_timeout(). *)
Timeout ==
  /\ tpc["watchdog"] = "callback"
  /\ IF parser.state # "WAIT_HEADER_0"
     THEN parser' = ParserReset(parser) /\ reset' = TRUE
     ELSE UNCHANGED <<parser, reset>>
  /\ Goto("watchdog", "wait")
  /\ UNCHANGED <<lineVars, chunk, delivered, timerVars>>

-----------------------------------------------------------------------------
(* Mutant: what follows the first packet of a chunk is thrown away. *)
Parse_FirstOnly ==
  /\ tpc["rx"] = "parse"
  /\ LET r == ParseNextPacket(parser, chunk)
     IN  /\ parser' = r.parser
         /\ delivered' = delivered \o r.packets
  /\ chunk' = <<>>
  /\ Goto("rx", "idle")
  /\ UNCHANGED <<lineVars, reset, timerVars>>

(* The loop of process_rx_data(): one packet is looked for, under          *)
(* parser_mutex_, and enqueued.                                            *)
Parse ==
  /\ tpc["rx"] = "parse"
  /\ LET r == ParseNextPacket(parser, chunk)
     IN  /\ parser' = r.parser
         /\ delivered' = delivered \o r.packets
         /\ chunk' = SubSeq(chunk, r.consumed + 1, Len(chunk))
  /\ IF chunk' = <<>> THEN Goto("rx", "idle") ELSE UNCHANGED tpc
  /\ UNCHANGED <<lineVars, reset, timerVars>>

-----------------------------------------------------------------------------
RxStep == TimerStep("rx") \/ Parse
WatchdogStep == Wake \/ TimerStep("watchdog") \/ Timeout
StartStep == TimerStep("start")

(* The line is silent for good and the watchdog has nothing left to do. *)
Finished ==
  /\ pos = Len(Line)
  /\ tpc["rx"] = "idle"
  /\ Quiet
  /\ UNCHANGED vars

(* Two tasks are inside start(), stop() or kick(), or the watchdog task is *)
(* while bytes wait to be parsed.                                          *)
InTimer(t) == tpc[t] \notin {"idle", "wait", "done", "parse", "callback"}
Racing ==
  \E t, u \in Tasks :
    /\ t # u /\ InTimer(t)
    /\ InTimer(u) \/ (t = "watchdog" /\ tpc[u] = "parse")

Next ==
  \/ /\ \/ \E n \in IF paced THEN PacedChunks ELSE Chunks : Receive(n) \/ Lose(n)
        \/ RxStep
        \/ WatchdogStep
        \/ StartStep
        \/ Alarm
     /\ raced' = (raced \/ Racing')
     /\ UNCHANGED paced
  \/ Finished

Spec == Init /\ [][Next]_vars

(* Every task that can run is scheduled: the RX task gets done with each   *)
(* chunk, the others take their next step.  An alarm that is armed on a    *)
(* running timer fires.                                                    *)
FairSpec ==
  /\ Spec
  /\ []<>(tpc["rx"] = "idle")
  /\ WF_pathVars(WatchdogStep) /\ WF_pathVars(StartStep) /\ WF_pathVars(Alarm)

-----------------------------------------------------------------------------
States == {"WAIT_HEADER_0", "WAIT_HEADER_1", "WAIT_HEADER_2", "GET_SEQ_ID_L",
           "GET_SEQ_ID_H", "READ_VERSION", "READ_COMMAND", "READ_LENGTH_L",
           "READ_LENGTH_H", "READ_PAYLOAD", "READ_CRC_L", "READ_CRC_H"}

LineTypeOK ==
  /\ pos \in 0..Len(Line)
  /\ damaged \subseteq Numbers
  /\ losses \in Nat

ParserTypeOK ==
  /\ parser \in [state : States, seq_id : Words, version : Bytes, command : Bytes,
                 payload_len : Words, payload : Seq(Bytes), crc_l : Bytes]
  /\ parser.payload_len <= IF parser.state = "READ_LENGTH_H" THEN 255 ELSE MaxPayload
  /\ Len(parser.payload) <= parser.payload_len
  /\ chunk \in Seq(Bytes) /\ Len(chunk) <= Len(Line)
  /\ delivered \in Seq(Packets)

TaskTypeOK ==
  /\ {paced, armed, running, notified, reset, raced} \subseteq BOOLEAN
  /\ timer \in {"enabled", "run"}
  /\ tpc \in [Tasks -> {"idle", "wait", "done", "stop_check", "stop_timer", "stop_flag",
                         "start_check", "start_timer", "start_flag", "parse", "callback"}]

(* Every variable has its type; the parser never holds more payload than   *)
(* it was announced, nor more than fits its buffer.                        *)
TypeOK == LineTypeOK /\ ParserTypeOK /\ TaskTypeOK

(* What decode() makes of the bytes of frame n. *)
Decoded == [n \in Numbers |-> Decode(SubSeq(Line, EndOf[n - 1] + 1, EndOf[n]))]

(* Whatever is lost and whenever a timeout strikes, every packet handed to *)
(* the dispatcher is one that was sent, none twice, and in the order sent; *)
(* and decode(), given the whole frame at once, agrees with the parser.    *)
DeliveredInOrder ==
  \E index \in [1..Len(delivered) -> Numbers] :
    /\ \A k \in 1..Len(delivered) :
         delivered[k] = Frames[index[k]] /\ Decoded[index[k]].packets = <<delivered[k]>>
    /\ \A k, l \in 1..Len(delivered) : k < l => index[k] < index[l]

Arrived == {n \in Numbers : EndOf[n] <= pos}

(* Frames may be cut anywhere into chunks and several may share a chunk:   *)
(* a frame that arrived whole is delivered as long as no frame lost bytes  *)
(* and no timeout struck inside one.  When the sender pauses between       *)
(* frames, a damaged frame takes no other one with it either: the timeout  *)
(* puts the parser back in step, also when the remains of the frame look   *)
(* like the start of another.                                              *)
UndamagedDelivered ==
  tpc["rx"] = "idle" /\ (paced \/ (damaged = {} /\ ~reset)) =>
    \A n \in Arrived \ damaged : \E k \in 1..Len(delivered) : delivered[k] = Frames[n]

(* A partial packet is left with no timeout to come only when two tasks    *)
(* were at the timer at once, or the watchdog task stopped it after the    *)
(* kick for bytes that were not parsed yet: three tasks work on flag and   *)
(* timer with no lock, and nothing but their interleaving costs a timeout. *)
StrandedOnlyByRace ==
  ~raced /\ tpc["rx"] = "idle" /\ parser.state # "WAIT_HEADER_0" => ~Quiet

(* The callback "will be called when the timer expires": when the line     *)
(* goes silent and no task was late, the parser does not stay in the       *)
(* middle of a packet.                                                     *)
Resynchronizes ==
  paced /\ pos = Len(Line) ~> tpc["rx"] = "idle" /\ parser.state = "WAIT_HEADER_0"
=============================================================================
