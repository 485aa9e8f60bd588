------------------------------- MODULE EspNow -------------------------------
(***************************************************************************)
(* ESPNowTransport: messages longer than a radio frame travel as numbered  *)
(* fragments.                                                              *)
(*                                                                         *)
(* Each peer writes one message at a time (SerialComm::send() holds        *)
(* tx_mutex_ around the call) and waits for the send-done callback after   *)
(* each fragment.  The device that listens puts every frame into rx_queue_ *)
(* from the Wi-Fi task; its one RX task (module RxTask) takes them out and *)
(* puts them together in reassembly_.                                      *)
(***************************************************************************)
EXTENDS Integers, Sequences, FiniteSets

CONSTANTS
  Peers,        \* devices that send to this one
  MaxFrags,     \* ESPNOW_MAX_FRAGS
  Totals,       \* the lengths of messages, in fragments
  SeqMod,       \* msg_seq is a byte: it wraps at 256
  QueueLen,     \* ESPNOW_RX_QUEUE_SIZE
  MaxMessages,  \* bound: messages a peer sends
  None          \* no frame

ASSUME EspNowAssumption ==
  /\ MaxFrags \in Nat \ {0}
  /\ Totals \subseteq 1..MaxFrags
  /\ SeqMod \in Nat \ {0}
  /\ QueueLen \in Nat \ {0}
  /\ MaxMessages \in Nat

VARIABLES
  pc,            \* pc[p]: where peer p is in write() or write_async()
  mode,          \* mode[p]: which of the two
  tx,            \* tx[p]: the fragment it is at
  tx_done_sem,   \* tx_done_sem_[p]
  tx_success,    \* tx_success_[p]
  air,           \* air[p]: the frame its radio has accepted and not yet sent
  send_cb,       \* send_cb[p]: its send-done callback has not given yet
  rx_queue,      \* rx_queue_, the frames as they came
  item,          \* the frame in the hands of the RX task
  reassembly,    \* reassembly_, but for its buffer
  buf,           \* reassembly_.buf
  complete,      \* the RX task is about to hand on the message in buf
  sent,          \* history: sent[p], messages begun
  acked,         \* history: acknowledged fragments of the last message of each peer
  gave_up,       \* history: peers whose writer has given up waiting
  reported,      \* history: the last fragment of each peer's last message, when
                 \* write() returned the length
  queued,        \* history: fragments put into rx_queue_ and not yet handed on
  delivered      \* history: what rx_callback_ got

senderVars == <<pc, mode, tx, sent, acked, gave_up, reported>>
radioVars == <<tx_success, air, send_cb>>
taskVars == <<item, reassembly, buf, complete, delivered>>
vars == <<senderVars, tx_done_sem, radioVars, rx_queue, queued, taskVars>>

(* A fragment, with the message it belongs to in the place of its payload: *)
(* message n of a peer is the n-th it sends.  The frame carries seq, idx   *)
(* and total, not the peer's number for the message.                       *)
Fragments ==
  [peer : Peers, msg : 1..MaxMessages, seq : 0..SeqMod - 1,
   idx : 0..MaxFrags - 1, total : Totals]

ASSUME NoneAssumption == None \notin Fragments

(* reassembly_ all zero *)
NoMessage == [active |-> FALSE, msg_seq |-> 0, expected |-> 0, received |-> 0]

Init ==
  /\ pc = [p \in Peers |-> "idle"]
  /\ mode = [p \in Peers |-> "write"]
  /\ tx = [p \in Peers |-> None]
  /\ tx_done_sem = [p \in Peers |-> FALSE]
  /\ tx_success = [p \in Peers |-> FALSE]
  /\ air = [p \in Peers |-> None]
  /\ send_cb = [p \in Peers |-> FALSE]
  /\ rx_queue = <<>>
  /\ item = None
  /\ reassembly = NoMessage
  /\ buf = <<>>
  /\ complete = FALSE
  /\ sent = [p \in Peers |-> 0]
  /\ acked = {}
  /\ gave_up = {}
  /\ reported = {}
  /\ queued = {}
  /\ delivered = <<>>

-----------------------------------------------------------------------------
(* write() and write_async() *)

(* tx_msg_seq_++ *)
MsgSeq(n) == (n - 1) % SeqMod

(* The message is cut into total fragments under the next number. *)
Begin(p) ==
  /\ pc[p] = "idle"
  /\ sent[p] < MaxMessages
  /\ \E how \in {"write", "write_async"}, total \in Totals :
       /\ mode' = [mode EXCEPT ![p] = how]
       /\ tx' = [tx EXCEPT ![p] =
            [peer |-> p, msg |-> sent[p] + 1, seq |-> MsgSeq(sent[p] + 1),
             idx |-> 0, total |-> total]]
  /\ sent' = [sent EXCEPT ![p] = @ + 1]
  /\ pc' = [pc EXCEPT ![p] = "send"]
  /\ acked' = {f \in acked : f.peer # p}
  /\ reported' = {f \in reported : f.peer # p}
  /\ UNCHANGED <<gave_up, tx_done_sem, radioVars, rx_queue, queued, taskVars>>

(* send_fragment(): esp_now_send() may fail, and refuses a frame while the *)
(* one before is outstanding; the rest of the message is then given up.    *)
SendFragment(p) ==
  /\ pc[p] = "send"
  /\ \/ /\ air[p] = None
        /\ air' = [air EXCEPT ![p] = tx[p]]
        /\ pc' = [pc EXCEPT ![p] = "wait"]
        /\ tx' = tx
     \/ /\ pc' = [pc EXCEPT ![p] = "idle"]
        /\ tx' = [tx EXCEPT ![p] = None]
        /\ air' = air
  /\ UNCHANGED <<mode, sent, acked, gave_up, reported, tx_done_sem, tx_success, send_cb,
                 rx_queue, queued, taskVars>>

(* On to the next fragment, or done: write() returns the length. *)
NextFragment(p) ==
  IF tx[p].idx + 1 < tx[p].total
  THEN /\ tx' = [tx EXCEPT ![p].idx = @ + 1]
       /\ pc' = [pc EXCEPT ![p] = "send"]
       /\ reported' = reported
  ELSE /\ tx' = [tx EXCEPT ![p] = None]
       /\ pc' = [pc EXCEPT ![p] = "idle"]
       /\ reported' = IF mode[p] = "write" THEN reported \cup {tx[p]} ELSE reported

(* xSemaphoreTake(tx_done_sem_): write_async() does not ask for tx_success_. *)
WaitDone(p) ==
  /\ pc[p] = "wait"
  /\ tx_done_sem[p]
  /\ tx_done_sem' = [tx_done_sem EXCEPT ![p] = FALSE]
  /\ IF mode[p] = "write"
     THEN pc' = [pc EXCEPT ![p] = "check"] /\ UNCHANGED <<tx, reported>>
     ELSE NextFragment(p)
  /\ UNCHANGED <<mode, sent, acked, gave_up, radioVars, rx_queue, queued, taskVars>>

(* Mutant: write() goes on whatever the radio reported. *)
CheckSuccess_Ignored(p) ==
  /\ pc[p] = "check"
  /\ NextFragment(p)
  /\ UNCHANGED <<mode, sent, acked, gave_up, tx_done_sem, radioVars, rx_queue, queued, taskVars>>

CheckSuccess(p) ==
  /\ pc[p] = "check"
  /\ IF tx_success[p]
     THEN NextFragment(p)
     ELSE /\ pc' = [pc EXCEPT ![p] = "idle"]
          /\ tx' = [tx EXCEPT ![p] = None]
          /\ reported' = reported
  /\ UNCHANGED <<mode, sent, acked, gave_up, tx_done_sem, radioVars, rx_queue, queued, taskVars>>

(* Mutant: a late send-done is taken for a success. *)
WaitTimeout_GoesOn(p) ==
  /\ pc[p] = "wait"
  /\ ~tx_done_sem[p]
  /\ NextFragment(p)
  /\ gave_up' = gave_up \cup {p}
  /\ UNCHANGED <<mode, sent, acked, tx_done_sem, radioVars, rx_queue, queued, taskVars>>

(* The writer gives up before send-done comes. *)
WaitTimeout(p) ==
  /\ pc[p] = "wait"
  /\ ~tx_done_sem[p]
  /\ pc' = [pc EXCEPT ![p] = "idle"]
  /\ tx' = [tx EXCEPT ![p] = None]
  /\ gave_up' = gave_up \cup {p}
  /\ UNCHANGED <<mode, sent, acked, reported, tx_done_sem, radioVars, rx_queue, queued, taskVars>>

-----------------------------------------------------------------------------
(* The radio and the Wi-Fi tasks at its two ends *)

(* Mutant: one frame more than there is room for *)
RecvCb_OneMore(frame) ==
  IF Len(rx_queue) <= QueueLen
  THEN rx_queue' = Append(rx_queue, frame) /\ queued' = queued \cup ({frame} \ {None})
  ELSE UNCHANGED <<rx_queue, queued>>

(* recv_cb(): the frame is dropped when the queue is full. *)
RecvCb(frame) ==
  IF Len(rx_queue) < QueueLen
  THEN rx_queue' = Append(rx_queue, frame) /\ queued' = queued \cup ({frame} \ {None})
  ELSE UNCHANGED <<rx_queue, queued>>

(* The frame is sent, and lost or not; the acknowledgement of a frame that *)
(* arrived may be lost too.  send_cb() first stores the outcome.           *)
Transmit(p) ==
  /\ air[p] # None
  /\ ~send_cb[p]
  /\ \E arrives, success \in BOOLEAN :
       /\ success => arrives
       /\ IF arrives THEN RecvCb(air[p]) ELSE UNCHANGED <<rx_queue, queued>>
       /\ tx_success' = [tx_success EXCEPT ![p] = success]
       /\ acked' = IF success /\ air[p].msg = sent[p] THEN acked \cup {air[p]} ELSE acked
  /\ air' = [air EXCEPT ![p] = None]
  /\ send_cb' = [send_cb EXCEPT ![p] = TRUE]
  /\ UNCHANGED <<pc, mode, tx, sent, gave_up, reported, tx_done_sem, taskVars>>

(* ... and then gives tx_done_sem_. *)
SendCbGive(p) ==
  /\ send_cb[p]
  /\ tx_done_sem' = [tx_done_sem EXCEPT ![p] = TRUE]
  /\ send_cb' = [send_cb EXCEPT ![p] = FALSE]
  /\ UNCHANGED <<senderVars, tx_success, air, rx_queue, queued, taskVars>>

(* A frame of something else that uses ESP-NOW nearby. *)
Stray ==
  /\ RecvCb(None)
  /\ rx_queue' # rx_queue
  /\ UNCHANGED <<senderVars, tx_done_sem, radioVars, taskVars>>

(* flush(): xQueueReset(rx_queue_) *)
Flush ==
  /\ rx_queue # <<>>
  /\ rx_queue' = <<>>
  /\ queued' = queued \ {rx_queue[k] : k \in 1..Len(rx_queue)}
  /\ UNCHANGED <<senderVars, tx_done_sem, radioVars, taskVars>>

-----------------------------------------------------------------------------
(* The RX task *)

(* xQueueReceive(); what is no fragment is discarded. *)
Receive ==
  /\ item = None
  /\ rx_queue # <<>>
  /\ item' = Head(rx_queue)
  /\ rx_queue' = Tail(rx_queue)
  /\ UNCHANGED <<senderVars, tx_done_sem, radioVars, queued, reassembly, buf, complete,
                 delivered>>

(* process_rx_item(), while it holds reassembly_mutex_.  The fragment goes *)
(* behind the first r.received of assembly r in the buffer; when it is the *)
(* last, the assembly is reset but the buffer left as it is.  (The check   *)
(* for an overflow of the buffer is left out: total is at most MaxFrags.)  *)
AppendFragment(r) ==
  /\ buf' = Append(SubSeq(buf, 1, r.received), item)
  /\ IF r.received + 1 < r.expected
     THEN /\ reassembly' = [r EXCEPT !.received = @ + 1]
          /\ item' = None
          /\ complete' = FALSE
     ELSE /\ reassembly' = [r EXCEPT !.active = FALSE, !.expected = 0, !.received = 0]
          /\ item' = item
          /\ complete' = TRUE
  /\ UNCHANGED <<senderVars, tx_done_sem, radioVars, rx_queue, queued, delivered>>

DropFragment(r, b) ==
  /\ reassembly' = r
  /\ buf' = b
  /\ item' = None
  /\ UNCHANGED <<senderVars, tx_done_sem, radioVars, rx_queue, queued, complete, delivered>>

Belongs == reassembly.active /\ item.seq = reassembly.msg_seq

(* Mutant: fragment 0 has to wait until the message before it is complete. *)
Restart_WhenIdle ==
  /\ item # None /\ ~complete
  /\ item.idx = 0
  /\ IF reassembly.active
     THEN DropFragment(reassembly, buf)
     ELSE AppendFragment([active |-> TRUE, msg_seq |-> item.seq,
                          expected |-> item.total, received |-> 0])

(* Fragment 0 begins a new message, whatever was there. *)
Restart ==
  /\ item # None /\ ~complete
  /\ item.idx = 0
  /\ AppendFragment([active |-> TRUE, msg_seq |-> item.seq,
                     expected |-> item.total, received |-> 0])

(* A fragment of no message that has begun *)
DropOrphan ==
  /\ item # None /\ ~complete
  /\ item.idx # 0
  /\ ~Belongs
  /\ DropFragment(reassembly, buf)

(* A fragment was lost: so is the message. *)
DropOutOfOrder ==
  /\ item # None /\ ~complete
  /\ item.idx # 0
  /\ Belongs
  /\ item.idx # reassembly.received
  /\ DropFragment(NoMessage, <<>>)

(* Mutant: a fragment that is ahead of its turn is taken too. *)
Continue_Ahead ==
  /\ item # None /\ ~complete
  /\ item.idx # 0
  /\ Belongs
  /\ item.idx >= reassembly.received
  /\ AppendFragment(reassembly)

(* The next fragment of the message *)
Continue ==
  /\ item # None /\ ~complete
  /\ item.idx # 0
  /\ Belongs
  /\ item.idx = reassembly.received
  /\ AppendFragment(reassembly)

(* rx_callback_() reads the buffer after the mutex is given. *)
Deliver ==
  /\ complete
  /\ delivered' = Append(delivered, buf)
  /\ complete' = FALSE
  /\ item' = None
  /\ queued' = queued \ {buf[i] : i \in 1..Len(buf)}
  /\ UNCHANGED <<senderVars, tx_done_sem, radioVars, rx_queue, reassembly, buf>>

RxTask ==
  Receive \/ Restart \/ DropOrphan \/ DropOutOfOrder \/ Continue \/ Deliver

-----------------------------------------------------------------------------
Next ==
  \/ \E p \in Peers :
       \/ Begin(p) \/ SendFragment(p) \/ WaitDone(p) \/ CheckSuccess(p) \/ WaitTimeout(p)
       \/ Transmit(p) \/ SendCbGive(p)
  \/ Stray \/ Flush
  \/ RxTask

Spec == Init /\ [][Next]_vars

-----------------------------------------------------------------------------
(* Every variable has its type, the queue its bound, and the buffer never  *)
(* holds more than ESPNOW_MAX_FRAGS fragments.                             *)
SenderTypeOK ==
  /\ pc \in [Peers -> {"idle", "send", "wait", "check"}]
  /\ mode \in [Peers -> {"write", "write_async"}]
  /\ tx \in [Peers -> Fragments \cup {None}]
  /\ sent \in [Peers -> 0..MaxMessages]
  /\ acked \subseteq Fragments
  /\ gave_up \subseteq Peers
  /\ reported \subseteq Fragments
RadioTypeOK ==
  /\ tx_done_sem \in [Peers -> BOOLEAN]
  /\ tx_success \in [Peers -> BOOLEAN]
  /\ air \in [Peers -> Fragments \cup {None}]
  /\ send_cb \in [Peers -> BOOLEAN]
QueueTypeOK ==
  /\ rx_queue \in Seq(Fragments \cup {None}) /\ Len(rx_queue) <= QueueLen
  /\ queued \subseteq Fragments
TaskTypeOK ==
  /\ item \in Fragments \cup {None}
  /\ reassembly \in [active : BOOLEAN, msg_seq : 0..SeqMod - 1,
                     expected : 0..MaxFrags, received : 0..MaxFrags]
  /\ buf \in Seq(Fragments) /\ Len(buf) <= MaxFrags
  /\ complete \in BOOLEAN
  /\ delivered \in Seq(Seq(Fragments))
TypeOK == SenderTypeOK /\ RadioTypeOK /\ QueueTypeOK /\ TaskTypeOK

(* From one peer, what is handed to rx_callback_ is all the fragments of a *)
(* message in order, through any loss, failed write, full queue or flush:  *)
(* fragments of two messages are together only when they have the same     *)
(* number, so at least SeqMod messages apart, with all between them lost.  *)
(* Each message comes once, in the order they were sent.                   *)
Whole(m) ==
  /\ Len(m) = m[1].total
  /\ \A i \in 1..Len(m) : m[i].idx = i - 1
  /\ \A i \in 2..Len(m) :
       m[i - 1].msg = m[i].msg \/ m[i - 1].msg + SeqMod <= m[i].msg
MessagesWhole ==
  /\ \A k \in 1..Len(delivered) : Whole(delivered[k])
  /\ \A j, k \in 1..Len(delivered) :
       j < k => delivered[j][Len(delivered[j])].msg < delivered[k][1].msg

(* A message all of whose fragments reached rx_queue_ is delivered,        *)
(* whatever became of those before and after it.                           *)
Pending(f) ==
  \/ f = item
  \/ \E k \in 1..Len(rx_queue) : rx_queue[k] = f
QueuedDelivered ==
  \A f \in queued :
    (\A i \in 0..f.total - 1 : [f EXCEPT !.idx = i] \in queued)
    => \E i \in 0..f.total - 1 : Pending([f EXCEPT !.idx = i])

(* A write() that returns the length has had every fragment acknowledged,  *)
(* as long as its writer has never given up waiting: after that a          *)
(* send-done that comes late is taken for that of the next fragment.  Even *)
(* then the writer is never more than one fragment ahead of its radio: of  *)
(* any two fragments in a row of what write() reports sent, at least one   *)
(* has been acknowledged.                                                  *)
ReportedMeansDone ==
  \A f \in reported :
    LET Acked(i) == [f EXCEPT !.idx = i] \in acked
    IN  /\ f.peer \notin gave_up => \A i \in 0..f.total - 1 : Acked(i)
        /\ \A i \in 1..f.total - 1 : Acked(i - 1) \/ Acked(i)
=============================================================================
