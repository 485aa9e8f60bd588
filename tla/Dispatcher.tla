----------------------------- MODULE Dispatcher -----------------------------
(***************************************************************************)
(* SerialCommDispatcher: the queue between the RX task and the dispatcher  *)
(* task, the table of command callbacks, and start() and stop().           *)
(*                                                                         *)
(* RX tasks enqueue packets, the dispatcher task takes them out and calls  *)
(* what is registered for their command, other tasks (or a callback)       *)
(* register and unregister, and the application starts and stops the       *)
(* dispatcher.  callback_mutex_ protects the table, nothing protects       *)
(* running_, and stop() deletes the dispatcher task wherever it is.        *)
(***************************************************************************)
EXTENDS Integers, Sequences, FiniteSets

CONSTANTS
  Producers,         \* RX tasks
  Registrars,        \* tasks that register and unregister callbacks
  Commands,          \* command ids
  QueueLen,          \* rx_queue_len
  MaxPackets,        \* bound: packets received in one behaviour
  MaxRegistrations,  \* bound: calls of register_callback()
  MaxStops,          \* bound: calls of stop()
  None               \* no task, no packet

ASSUME DispatcherAssumption ==
  /\ QueueLen \in Nat \ {0}
  /\ MaxPackets \in Nat
  /\ MaxRegistrations \in Nat
  /\ MaxStops \in Nat
  /\ Producers \cap Registrars = {}
  /\ None \notin Producers \cup Registrars
  /\ "dispatcher" \notin Registrars \cup {None}
  /\ None \notin [id : 1..MaxPackets, command : Commands]

VARIABLES
  running,         \* running_
  lpc,             \* where the application is in start() or stop()
  callbacks,       \* callbacks_[command], its two words callback and ctx
  callback_mutex,  \* the task that holds callback_mutex_
  rx_queue,        \* rx_queue_
  dpc,             \* where the dispatcher task is, "none" when there is none
  packet,          \* the packet it handles
  entry,           \* its copy of the entry of the packet's command
  ppc,             \* ppc[p]: the packet producer p is about to send, or None
  rpc,             \* rpc[r]: where registrar r is
  op,              \* op[r]: the registrar's command and what it writes there
  nested,          \* the registrar that is a callback of the dispatcher task
  received,        \* history: packets received
  accepted,        \* history: packets for which enqueue() returned OK
  handled,         \* history: packets the dispatcher task is done with
  killed,          \* history: packets in its hands when it was deleted
  registered,      \* history: registrations made
  revoked,         \* history: registrations replaced or removed for good
  late,            \* history: late[n], calls of callback n after it was revoked
  stops,           \* history: tasks deleted
  orphaned         \* history: a task was deleted while it held callback_mutex_

lifeVars == <<running, lpc, stops, orphaned>>
taskVars == <<rx_queue, dpc, packet, entry, handled, killed, late>>
producerVars == <<ppc, received, accepted>>
registrarVars == <<callbacks, rpc, op, nested, registered, revoked>>
vars == <<lifeVars, taskVars, producerVars, registrarVars, callback_mutex>>

(* Packet n is the n-th received; callback n is the n-th registered, and   *)
(* comes with context n.  0 is a null pointer.                             *)
Packets == [id : 1..MaxPackets, command : Commands]
Registrations == 1..MaxRegistrations
Entries == [callback : 0..MaxRegistrations, ctx : 0..MaxRegistrations]
NoEntry == [callback |-> 0, ctx |-> 0]
NoOp == [command |-> None, callback |-> 0]

Init ==
  /\ running = FALSE
  /\ lpc = "idle"
  /\ callbacks = [m \in Commands |-> NoEntry]
  /\ callback_mutex = None
  /\ rx_queue = <<>>
  /\ dpc = "none"
  /\ packet = None
  /\ entry = NoEntry
  /\ ppc = [p \in Producers |-> None]
  /\ rpc = [r \in Registrars |-> "idle"]
  /\ op = [r \in Registrars |-> NoOp]
  /\ nested = None
  /\ received = 0
  /\ accepted = <<>>
  /\ handled = <<>>
  /\ killed = {}
  /\ registered = 0
  /\ revoked = {}
  /\ late = [n \in Registrations |-> 0]
  /\ stops = 0
  /\ orphaned = FALSE

-----------------------------------------------------------------------------
(* start(): the task is created first, running_ is set after. *)
StartCreate ==
  /\ lpc = "idle"
  /\ ~running
  /\ dpc' = "receive"
  /\ lpc' = "start"
  /\ UNCHANGED <<running, stops, orphaned, rx_queue, packet, entry, handled, killed, late,
                 producerVars, registrarVars, callback_mutex>>

StartDone ==
  /\ lpc = "start"
  /\ running' = TRUE
  /\ lpc' = "idle"
  /\ UNCHANGED <<stops, orphaned, taskVars, producerVars, registrarVars, callback_mutex>>

(* vTaskDelete(): the packet and whatever the task was doing are gone, but *)
(* a mutex it holds stays taken.                                           *)
DeleteTask ==
  /\ dpc' = "none"
  /\ handled' = IF packet = None THEN handled ELSE Append(handled, packet)
  /\ killed' = killed \cup ({packet} \ {None})
  /\ packet' = None
  /\ entry' = NoEntry
  /\ rpc' = [r \in Registrars |-> IF r = nested THEN "idle" ELSE rpc[r]]
  /\ op' = [r \in Registrars |-> IF r = nested THEN NoOp ELSE op[r]]
  /\ nested' = None
  /\ orphaned' = (orphaned \/ callback_mutex \in {"dispatcher", nested} \ {None})

(* Mutant: the queue is emptied, as a fresh start might want it. *)
StopDelete_Flush ==
  /\ lpc = "idle"
  /\ running
  /\ stops < MaxStops
  /\ DeleteTask
  /\ stops' = stops + 1
  /\ lpc' = "stop"
  /\ rx_queue' = <<>>
  /\ UNCHANGED <<running, late, producerVars, callbacks, registered, revoked,
                 callback_mutex>>

(* stop(): the task is deleted at whatever point it has reached, with the  *)
(* mutex it may hold, be it in register_callback(), called by a callback;  *)
(* the queue keeps what is in it.  (A stop() called by a callback deletes  *)
(* its own task and never returns; it is not modelled.)                    *)
StopDelete ==
  /\ lpc = "idle"
  /\ running
  /\ stops < MaxStops
  /\ DeleteTask
  /\ stops' = stops + 1
  /\ lpc' = "stop"
  /\ UNCHANGED <<running, rx_queue, late, producerVars, callbacks, registered, revoked,
                 callback_mutex>>

StopDone ==
  /\ lpc = "stop"
  /\ running' = FALSE
  /\ lpc' = "idle"
  /\ UNCHANGED <<stops, orphaned, taskVars, producerVars, registrarVars, callback_mutex>>

-----------------------------------------------------------------------------
(* enqueue(): running_ is read ... *)
EnqueueCheck(p) ==
  /\ ppc[p] = None
  /\ received < MaxPackets
  /\ received' = received + 1
  /\ \E m \in Commands :
       ppc' = IF running THEN [ppc EXCEPT ![p] = [id |-> received + 1, command |-> m]]
              ELSE ppc
  /\ UNCHANGED <<lifeVars, taskVars, accepted, registrarVars, callback_mutex>>

(* Mutant: one packet too many. *)
EnqueueSend_OneMore(p) ==
  /\ ppc[p] # None
  /\ IF Len(rx_queue) <= QueueLen
     THEN /\ rx_queue' = Append(rx_queue, ppc[p])
          /\ accepted' = Append(accepted, ppc[p])
     ELSE UNCHANGED <<rx_queue, accepted>>
  /\ ppc' = [ppc EXCEPT ![p] = None]
  /\ UNCHANGED <<lifeVars, dpc, packet, entry, handled, killed, late, received,
                 registrarVars, callback_mutex>>

(* ... and the packet sent to the queue, dropped when the queue is full.   *)
(* The dispatcher may have been stopped in between.                        *)
EnqueueSend(p) ==
  /\ ppc[p] # None
  /\ IF Len(rx_queue) < QueueLen
     THEN /\ rx_queue' = Append(rx_queue, ppc[p])
          /\ accepted' = Append(accepted, ppc[p])
     ELSE UNCHANGED <<rx_queue, accepted>>
  /\ ppc' = [ppc EXCEPT ![p] = None]
  /\ UNCHANGED <<lifeVars, dpc, packet, entry, handled, killed, late, received,
                 registrarVars, callback_mutex>>

-----------------------------------------------------------------------------
(* Mutant: the task loops while running_ is set. *)
Receive_WhileRunning ==
  /\ dpc = "receive"
  /\ IF running
     THEN /\ rx_queue # <<>>
          /\ packet' = Head(rx_queue)
          /\ rx_queue' = Tail(rx_queue)
          /\ dpc' = "lock"
     ELSE dpc' = "none" /\ UNCHANGED <<packet, rx_queue>>
  /\ UNCHANGED <<lifeVars, entry, handled, killed, late, producerVars, registrarVars,
                 callback_mutex>>

(* dispatcher_task() and dispatch_packet(). *)
Receive ==
  /\ dpc = "receive"
  /\ rx_queue # <<>>
  /\ packet' = Head(rx_queue)
  /\ rx_queue' = Tail(rx_queue)
  /\ dpc' = "lock"
  /\ UNCHANGED <<lifeVars, entry, handled, killed, late, producerVars, registrarVars,
                 callback_mutex>>

(* Mutant: the entry is read without the mutex. *)
Lock_NotTaken ==
  /\ dpc = "lock"
  /\ dpc' = "copy"
  /\ UNCHANGED <<lifeVars, rx_queue, packet, entry, handled, killed, late, producerVars,
                 registrarVars, callback_mutex>>

Lock ==
  /\ dpc = "lock"
  /\ callback_mutex = None
  /\ callback_mutex' = "dispatcher"
  /\ dpc' = "copy"
  /\ UNCHANGED <<lifeVars, rx_queue, packet, entry, handled, killed, late, producerVars,
                 registrarVars>>

(* Mutant: an entry copied before is used again. *)
Copy_Cached ==
  /\ dpc = "copy"
  /\ entry' = IF entry = NoEntry THEN callbacks[packet.command] ELSE entry
  /\ dpc' = "unlock"
  /\ UNCHANGED <<lifeVars, rx_queue, packet, handled, killed, late, producerVars,
                 registrarVars, callback_mutex>>

Copy ==
  /\ dpc = "copy"
  /\ entry' = callbacks[packet.command]
  /\ dpc' = "unlock"
  /\ UNCHANGED <<lifeVars, rx_queue, packet, handled, killed, late, producerVars,
                 registrarVars, callback_mutex>>

(* Mutant: the mutex is kept while the callback runs. *)
Unlock_Keep ==
  /\ dpc = "unlock"
  /\ callback_mutex' = IF entry.callback = 0 THEN None ELSE callback_mutex
  /\ dpc' = "call"
  /\ UNCHANGED <<lifeVars, rx_queue, packet, entry, handled, killed, late, producerVars,
                 registrarVars>>

(* The mutex is given back before the callback is called. *)
Unlock ==
  /\ dpc = "unlock"
  /\ callback_mutex' = None
  /\ dpc' = "call"
  /\ UNCHANGED <<lifeVars, rx_queue, packet, entry, handled, killed, late, producerVars,
                 registrarVars>>

(* The callback of the copied entry, if there is one, is entered ... *)
Call ==
  /\ dpc = "call"
  /\ late' = IF entry.callback \in revoked
             THEN [late EXCEPT ![entry.callback] = @ + 1] ELSE late
  /\ dpc' = "called"
  /\ UNCHANGED <<lifeVars, rx_queue, packet, entry, handled, killed, producerVars,
                 registrarVars, callback_mutex>>

(* ... and returns. *)
Called ==
  /\ dpc = "called"
  /\ nested = None
  /\ handled' = Append(handled, packet)
  /\ packet' = None
  /\ dpc' = "receive"
  /\ UNCHANGED <<lifeVars, rx_queue, entry, killed, late, producerVars, registrarVars,
                 callback_mutex>>

DispatcherStep == Receive \/ Lock \/ Copy \/ Unlock \/ Call \/ Called

-----------------------------------------------------------------------------
(* register_callback() and unregister_callback(), called by a task of its  *)
(* own or by the callback that runs on the dispatcher task.                *)
Begin(r) ==
  /\ rpc[r] = "idle"
  /\ nested' \in {nested} \cup {n \in {r} : dpc = "called" /\ nested = None /\ entry # NoEntry}
  /\ rpc' = [rpc EXCEPT ![r] = "take"]

Register(r) ==
  /\ Begin(r)
  /\ registered < MaxRegistrations
  /\ registered' = registered + 1
  /\ \E m \in Commands :
       op' = [op EXCEPT ![r] = [command |-> m, callback |-> registered + 1]]
  /\ UNCHANGED <<lifeVars, taskVars, producerVars, callbacks, revoked, callback_mutex>>

Unregister(r) ==
  /\ Begin(r)
  /\ \E m \in Commands : op' = [op EXCEPT ![r] = [command |-> m, callback |-> 0]]
  /\ UNCHANGED <<lifeVars, taskVars, producerVars, callbacks, registered, revoked,
                 callback_mutex>>

Take(r) ==
  /\ rpc[r] = "take"
  /\ callback_mutex = None
  /\ callback_mutex' = r
  /\ rpc' = [rpc EXCEPT ![r] = "callback"]
  /\ UNCHANGED <<lifeVars, taskVars, producerVars, callbacks, op, nested, registered, revoked>>

WriteCallback(r) ==
  /\ rpc[r] = "callback"
  /\ callbacks' = [callbacks EXCEPT ![op[r].command].callback = op[r].callback]
  /\ rpc' = [rpc EXCEPT ![r] = "ctx"]
  /\ UNCHANGED <<lifeVars, taskVars, producerVars, op, nested, registered, revoked,
                 callback_mutex>>

(* ctx still names the registration that is replaced. *)
WriteCtx(r) ==
  /\ rpc[r] = "ctx"
  /\ callbacks' = [callbacks EXCEPT ![op[r].command].ctx = op[r].callback]
  /\ revoked' = revoked \cup ({callbacks[op[r].command].ctx} \ {0, op[r].callback})
  /\ rpc' = [rpc EXCEPT ![r] = "give"]
  /\ UNCHANGED <<lifeVars, taskVars, producerVars, op, nested, registered, callback_mutex>>

Give(r) ==
  /\ rpc[r] = "give"
  /\ callback_mutex' = None
  /\ rpc' = [rpc EXCEPT ![r] = "idle"]
  /\ op' = [op EXCEPT ![r] = NoOp]
  /\ nested' = IF nested = r THEN None ELSE nested
  /\ UNCHANGED <<lifeVars, taskVars, producerVars, callbacks, registered, revoked>>

RegistrarStep(r) == Take(r) \/ WriteCallback(r) \/ WriteCtx(r) \/ Give(r)

-----------------------------------------------------------------------------
(* Nothing is left to do, or a task that waits for the orphaned mutex      *)
(* waits for ever.                                                         *)
Finished ==
  /\ received = MaxPackets
  /\ \/ rx_queue = <<>> /\ dpc = "receive" /\ \A r \in Registrars : rpc[r] = "idle"
     \/ orphaned
  /\ UNCHANGED vars

Next ==
  \/ StartCreate \/ StartDone \/ StopDelete \/ StopDone
  \/ \E p \in Producers : EnqueueCheck(p) \/ EnqueueSend(p)
  \/ DispatcherStep
  \/ \E r \in Registrars : Register(r) \/ Unregister(r) \/ RegistrarStep(r)
  \/ Finished

Spec == Init /\ [][Next]_vars

(* The dispatcher task and the registrars are scheduled, FreeRTOS hands    *)
(* the mutex to its waiters in turn, and callbacks return.                 *)
FairSpec ==
  /\ Spec
  /\ SF_vars(DispatcherStep)
  /\ \A r \in Registrars : SF_vars(RegistrarStep(r))

-----------------------------------------------------------------------------
LifeTypeOK ==
  /\ running \in BOOLEAN
  /\ lpc \in {"idle", "start", "stop"}
  /\ stops \in 0..MaxStops
  /\ orphaned \in BOOLEAN

TaskTypeOK ==
  /\ rx_queue \in Seq(Packets) /\ Len(rx_queue) <= QueueLen
  /\ dpc \in {"none", "receive", "lock", "copy", "unlock", "call", "called"}
  /\ packet \in Packets \cup {None}
  /\ entry \in Entries
  /\ handled \in Seq(Packets)
  /\ killed \subseteq Packets
  /\ late \in [Registrations -> Nat]

ProducerTypeOK ==
  /\ ppc \in [Producers -> Packets \cup {None}]
  /\ received \in 0..MaxPackets
  /\ accepted \in Seq(Packets)

RegistrarTypeOK ==
  /\ callbacks \in [Commands -> Entries]
  /\ callback_mutex \in Registrars \cup {"dispatcher", None}
  /\ rpc \in [Registrars -> {"idle", "take", "callback", "ctx", "give"}]
  /\ op \in [Registrars -> [command : Commands \cup {None}, callback : 0..MaxRegistrations]]
  /\ nested \in Registrars \cup {None}
  /\ registered \in 0..MaxRegistrations
  /\ revoked \subseteq Registrations

(* Every variable has its type, and the queue never holds more packets     *)
(* than it was made for.                                                   *)
TypeOK == LifeTypeOK /\ TaskTypeOK /\ ProducerTypeOK /\ RegistrarTypeOK

(* A packet that enqueue() accepted is handled once and in its turn,       *)
(* through any number of stops and starts; a stop costs at most the one    *)
(* packet in the hands of the task it deletes.                             *)
InHand == IF packet = None THEN <<>> ELSE <<packet>>
AcceptedKept ==
  /\ accepted = handled \o InHand \o rx_queue
  /\ Cardinality(killed) <= stops

(* A callback is never called with the context of another registration,    *)
(* however registrations and dispatches interleave.                        *)
WholeEntry == dpc \in {"call", "called"} => entry.callback = entry.ctx

(* After register_callback() or unregister_callback() has replaced a       *)
(* callback, the old one is called at most once more: for the packet whose *)
(* entry was copied before.                                                *)
AtMostOneLateCall == \A n \in Registrations : late[n] <= 1

(* register_callback() and unregister_callback() return, also when a       *)
(* callback calls them, unless a stop() has deleted the dispatcher task    *)
(* while it held the mutex.                                                *)
RegisterReturns ==
  \A r \in Registrars : rpc[r] # "idle" ~> rpc[r] = "idle" \/ orphaned

(* No accepted packet waits for ever while the dispatcher runs.            *)
AcceptedHandled ==
  \A n \in 1..MaxPackets :
    (\E k \in 1..Len(rx_queue) : rx_queue[k].id = n)
    ~> \/ \E k \in 1..Len(handled) : handled[k].id = n
       \/ ~running \/ lpc = "stop"
       \/ orphaned
=============================================================================
