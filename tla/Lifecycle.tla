----------------------------- MODULE Lifecycle -----------------------------
(***************************************************************************)
(* The lifecycle of a stack: SerialComm with its dispatcher, on a          *)
(* UARTTransport or on a MultiTransport over several of them.              *)
(*                                                                         *)
(* One application task calls init(), start(), stop() and deinit() of      *)
(* every object, and add_transport() and remove_transport(), in any order; *)
(* other tasks send; every started UART has an event task that runs        *)
(* process_rx_data() through the callbacks registered at that time.  A     *)
(* call that fails and changes nothing is not an action.                   *)
(*                                                                         *)
(* Each UART's line is external: it carries frames, and the driver reports *)
(* half a frame at a time.                                                 *)
(***************************************************************************)
EXTENDS Naturals, FiniteSets

CONSTANTS
  Uarts,      \* the UARTs
  Multi,      \* the MultiTransport
  Senders,    \* the tasks that call send()
  MaxSlots,   \* MAX_SLOTS
  MaxCalls,   \* bound: calls of the application task in one behaviour
  MaxEvents,  \* bound: driver events in one behaviour
  MaxSends,   \* bound: calls of send() in one behaviour
  None,
  Lost        \* holds parser_mutex_ when its holder was deleted

ASSUME LifecycleAssumption ==
  /\ {MaxSlots, MaxCalls, MaxEvents, MaxSends} \subseteq Nat
  /\ IsFiniteSet(Uarts)
  /\ None # Lost /\ None # Multi /\ Multi # "comm" /\ None # "comm"
  /\ {None, Lost, Multi, "idle", "take", "write"} \cap Uarts = {}
  /\ None \notin Senders /\ None \notin [uart : Uarts, rx : BOOLEAN, tx : BOOLEAN]

VARIABLES
  transport,   \* transport_ of the SerialComm: a UART or Multi
  (* of each UART *)
  ustate, driver,   \* state_; its driver is installed
  etask,       \* its event task: where it is, "none" when there is none
  rx_callback, \* whom it calls: None, Multi, or "comm"
  de,          \* its RS-485 transceiver drives the line
  half,        \* half of a frame has been reported
  (* of the MultiTransport *)
  mstate, slots,
  attached,    \* its rx_callback_ is the SerialComm's
  (* of the SerialComm and its dispatcher *)
  initialized, running,
  watchdog,    \* interbyte_watchdog_ is not null
  live,        \* the handles that are not null
  dinitialized, drunning,
  holder,      \* who holds parser_mutex_
  sending,     \* who holds tx_mutex_
  parser,      \* the UARTs whose bytes are in the partial packet of parser_
  apc,         \* where the application task is in a call
  spc,         \* spc[s]: where sender s is: <<step, slot>>
  calls, events, sends,
  own,         \* history: UARTs the application has started itself
  stray,       \* history: UARTs stopped while not initialized
  removed,     \* history: UARTs removed from a slot that received
  spoiled,     \* history: init() failed after its dispatcher was initialized
  late,        \* history: deinit() met a sender inside send()
  exposed,     \* history: a UART that is heard ran while handles were null
  fault        \* history: a null handle was used

uartVars == <<ustate, driver, rx_callback>>
multiVars == <<mstate, slots, attached>>
commVars == <<initialized, running, watchdog, live, dinitialized, drunning>>
historyVars == <<own, stray, removed, spoiled, late>>
lineVars == <<half, parser, events>>
sendVars == <<de, sending, spc, sends>>
appVars == <<apc, calls>>
vars == <<transport, uartVars, multiVars, commVars, etask, holder, lineVars,
          sendVars, appVars, historyVars, exposed, fault>>

Slots == 1..MaxSlots
Modes == [rx : BOOLEAN, tx : BOOLEAN]
Handles == {"tx", "parser", "queue"}
CanStart == {"INITIALIZED", "STOPPED"}

Init ==
  /\ transport \in Uarts \cup {Multi}
  /\ ustate = [u \in Uarts |-> "UNINITIALIZED"]
  /\ driver = [u \in Uarts |-> FALSE]
  /\ etask = [u \in Uarts |-> "none"]
  /\ rx_callback = [u \in Uarts |-> None]
  /\ de = [u \in Uarts |-> FALSE]
  /\ half = [u \in Uarts |-> FALSE]
  /\ mstate = "UNINITIALIZED"
  /\ slots = [i \in Slots |-> None]
  /\ attached = FALSE
  /\ initialized = FALSE /\ running = FALSE /\ watchdog = FALSE
  /\ live = {}
  /\ dinitialized = FALSE /\ drunning = FALSE
  /\ holder = None /\ sending = None
  /\ parser = {}
  /\ apc = "idle"
  /\ spc = [s \in Senders |-> <<"idle", 0>>]
  /\ calls = 0 /\ events = 0 /\ sends = 0
  /\ own = {} /\ stray = {}
  /\ removed = {}
  /\ spoiled = FALSE /\ late = FALSE
  /\ exposed = FALSE /\ fault = FALSE

(* The application task makes a call: it returns at once, or goes on at    *)
(* step label.                                                             *)
Call(label) ==
  /\ apc = "idle"
  /\ calls < MaxCalls
  /\ calls' = calls + 1
  /\ apc' = label

-----------------------------------------------------------------------------
(* UARTTransport.  On a stack without a MultiTransport, only its own.      *)

(* The driver cannot be installed twice.  A failure after its installation *)
(* leaves it installed.                                                    *)
UartInit(u) ==
  /\ transport \in {u, Multi}
  /\ ustate[u] = "UNINITIALIZED" /\ ~driver[u]
  /\ driver' = [driver EXCEPT ![u] = TRUE]
  /\ \/ UNCHANGED <<ustate, de>>
     \/ /\ ustate' = [ustate EXCEPT ![u] = "INITIALIZED"]
        /\ de' = [de EXCEPT ![u] = FALSE]
  /\ Call("idle")
  /\ UNCHANGED <<transport, rx_callback, multiVars, commVars, etask, holder, lineVars,
                 sending, spc, sends, historyVars, fault>>

(* Mutant: stop() leaves the event task to end by itself. *)
StopUart_NoDelete(u) ==
  /\ ustate' = [ustate EXCEPT ![u] = "STOPPED"]
  /\ stray' = IF ustate[u] = "UNINITIALIZED" THEN stray \cup {u} ELSE stray
  /\ UNCHANGED <<etask, holder>>

(* The effect of start() and of stop(), which deletes the event task       *)
(* wherever it is and never looks at state_.                               *)
StartUart(u) ==
  /\ ustate' = [ustate EXCEPT ![u] = "RUNNING"]
  /\ etask' = [etask EXCEPT ![u] = "wait"]

StopUart(u) ==
  /\ ustate' = [ustate EXCEPT ![u] = "STOPPED"]
  /\ etask' = [etask EXCEPT ![u] = "none"]
  /\ holder' = IF holder = u THEN Lost ELSE holder
  /\ stray' = IF ustate[u] = "UNINITIALIZED" THEN stray \cup {u} ELSE stray

UartStart(u) ==
  /\ transport \in {u, Multi}
  /\ ustate[u] \in CanStart
  /\ StartUart(u)
  /\ own' = own \cup {u}
  /\ Call("idle")
  /\ UNCHANGED <<transport, driver, rx_callback, multiVars, commVars, holder, lineVars,
                 sendVars, stray, removed, spoiled, late, fault>>

UartStop(u) ==
  /\ transport \in {u, Multi}
  /\ StopUart(u)
  /\ Call("idle")
  /\ UNCHANGED <<transport, driver, rx_callback, multiVars, commVars, lineVars,
                 sendVars, own, removed, spoiled, late, fault>>

(* deinit(): stop(), uart_driver_delete(). *)
UartDeinit(u) ==
  /\ transport \in {u, Multi}
  /\ etask' = [etask EXCEPT ![u] = "none"]
  /\ holder' = IF holder = u THEN Lost ELSE holder
  /\ ustate' = [ustate EXCEPT ![u] = "UNINITIALIZED"]
  /\ driver' = [driver EXCEPT ![u] = FALSE]
  /\ half' = [half EXCEPT ![u] = FALSE]
  /\ Call("idle")
  /\ UNCHANGED <<transport, rx_callback, multiVars, commVars, parser, events,
                 sendVars, historyVars, fault>>

-----------------------------------------------------------------------------
(* MultiTransport. *)

Holds(i, u) == slots[i] # None /\ slots[i].uart = u
Receiving == {i \in Slots : slots[i] # None /\ slots[i].rx}

(* Mutant: every slot in use is given the rx callback. *)
Forward_AnySlot(S) ==
  [u \in Uarts |-> IF \E i \in Slots : Holds(i, u) THEN Multi ELSE rx_callback[u]]

(* register_slot_callbacks() of the slots in S (the rx callbacks). *)
Forward(S) ==
  [u \in Uarts |-> IF \E i \in S : Holds(i, u) THEN Multi ELSE rx_callback[u]]

(* The first unused slot; registered at once when already initialized. *)
AddTransport(u, mode) ==
  /\ transport = Multi
  /\ \A i \in Slots : ~Holds(i, u)
  /\ \E i \in Slots :
       /\ slots[i] = None
       /\ \A j \in Slots : slots[j] = None => i <= j
       /\ slots' = [slots EXCEPT ![i] = [uart |-> u, rx |-> mode.rx, tx |-> mode.tx]]
  /\ rx_callback' = IF mstate # "UNINITIALIZED" /\ mode.rx
                    THEN [rx_callback EXCEPT ![u] = Multi] ELSE rx_callback
  /\ Call("idle")
  /\ UNCHANGED <<transport, ustate, driver, mstate, attached, commVars, etask, holder,
                 lineVars, sendVars, historyVars, fault>>

(* The slot is emptied; the callbacks of the transport stay. *)
RemoveTransport(u) ==
  /\ \E i \in Slots :
       /\ Holds(i, u)
       /\ slots' = [slots EXCEPT ![i] = None]
       /\ removed' = IF slots[i].rx THEN removed \cup {u} ELSE removed
  /\ Call("idle")
  /\ UNCHANGED <<transport, uartVars, mstate, attached, commVars, etask, holder, lineVars,
                 sendVars, own, stray, spoiled, late, fault>>

MultiInit ==
  /\ transport = Multi
  /\ mstate = "UNINITIALIZED"
  /\ mstate' = "INITIALIZED"
  /\ rx_callback' = Forward(Receiving)
  /\ Call("idle")
  /\ UNCHANGED <<transport, ustate, driver, slots, attached, commVars, etask, holder,
                 lineVars, sendVars, historyVars, fault>>

(* start(), stop() and deinit() change nothing but state_. *)
MultiMove ==
  /\ transport = Multi
  /\ mstate' \in {"RUNNING", "STOPPED", "UNINITIALIZED"} \ {mstate}
  /\ mstate' = "RUNNING" => mstate \in CanStart
  /\ mstate' = "STOPPED" => mstate = "RUNNING"
  /\ Call("idle")
  /\ UNCHANGED <<transport, uartVars, slots, attached, commVars, etask, holder, lineVars,
                 sendVars, historyVars, fault>>

-----------------------------------------------------------------------------
(* SerialComm. *)

(* set_rx_callback() of the transport. *)
SetRxCallback ==
  IF transport = Multi
  THEN attached' = TRUE /\ rx_callback' = Forward(Receiving)
  ELSE rx_callback' = [rx_callback EXCEPT ![transport] = "comm"] /\ UNCHANGED attached

CommInit ==
  /\ ~initialized /\ ~dinitialized
  /\ initialized' = TRUE /\ dinitialized' = TRUE
  /\ watchdog' = TRUE
  /\ live' = Handles
  /\ holder' = None /\ sending' = None
  /\ SetRxCallback
  /\ Call("idle")
  /\ UNCHANGED <<transport, ustate, driver, mstate, slots, running, drunning, etask,
                 lineVars, de, spc, sends, historyVars, fault>>

(* The watchdog or set_rx_callback() fails, after the dispatcher was       *)
(* initialized: cleanup_resources() leaves it so, and the next init()      *)
(* fails at the dispatcher until a deinit().                               *)
CommInitFail ==
  /\ ~initialized /\ ~dinitialized
  /\ dinitialized' = TRUE
  /\ live' = {"queue"}
  /\ spoiled' = TRUE
  /\ Call("idle")
  /\ UNCHANGED <<transport, uartVars, multiVars, initialized, running, watchdog, drunning,
                 etask, holder, lineVars, sendVars, own, stray, removed, late, fault>>

(* start(): the dispatcher first ... *)
CommStart ==
  /\ initialized /\ ~running
  /\ dinitialized /\ ~drunning
  /\ drunning' = TRUE
  /\ Call("start_transport")
  /\ UNCHANGED <<transport, uartVars, multiVars, initialized, running, watchdog, live,
                 dinitialized, etask, holder, lineVars, sendVars, historyVars, fault>>

(* ... then the transport, which may refuse: a UART also when its event    *)
(* task cannot be created, ...                                             *)
CommStartTransport ==
  /\ apc = "start_transport"
  /\ \/ /\ transport = Multi /\ mstate \in CanStart
        /\ mstate' = "RUNNING"
        /\ running' = TRUE
        /\ apc' = "idle"
        /\ UNCHANGED <<ustate, etask>>
     \/ /\ transport \in Uarts
        /\ ustate[transport] \in CanStart
        /\ StartUart(transport)
        /\ running' = TRUE
        /\ apc' = "idle"
        /\ UNCHANGED mstate
     \/ /\ transport = Multi => mstate \notin CanStart
        /\ apc' = "refused"
        /\ UNCHANGED <<ustate, etask, mstate, running>>
  /\ UNCHANGED <<transport, driver, rx_callback, slots, attached, initialized, watchdog,
                 live, dinitialized, drunning, holder, lineVars, sendVars, calls,
                 historyVars, fault>>

(* ... and when that refuses, the dispatcher is stopped. *)
CommStartRefused ==
  /\ apc = "refused"
  /\ apc' = "idle"
  /\ drunning' = FALSE
  /\ UNCHANGED <<transport, uartVars, multiVars, initialized, running, watchdog, live,
                 dinitialized, etask, holder, lineVars, sendVars, calls, historyVars, fault>>

(* stop(), alone or inside deinit(): the transport, ... *)
CommStop(next) ==
  /\ running
  /\ Call(next)
  /\ IF transport = Multi
     THEN /\ mstate' = IF mstate = "RUNNING" THEN "STOPPED" ELSE mstate
          /\ UNCHANGED <<ustate, etask, holder, stray>>
     ELSE StopUart(transport) /\ UNCHANGED mstate
  /\ UNCHANGED <<transport, driver, rx_callback, slots, attached, commVars, lineVars,
                 sendVars, own, removed, spoiled, late, fault>>

(* ... then the dispatcher and running_. *)
CommStopped ==
  /\ apc \in {"stop_dispatcher", "deinit_stop"}
  /\ apc' = IF apc = "deinit_stop" THEN "deinit_dispatcher" ELSE "idle"
  /\ drunning' = FALSE
  /\ running' = FALSE
  /\ UNCHANGED <<transport, uartVars, multiVars, initialized, watchdog, live,
                 dinitialized, etask, holder, lineVars, sendVars, calls, historyVars, fault>>

(* Mutant: deinit() does not stop a SerialComm that runs. *)
CommDeinit_Running ==
  /\ Call("deinit_dispatcher")
  /\ UNCHANGED <<transport, uartVars, multiVars, commVars, etask, holder, lineVars,
                 sendVars, historyVars, fault>>

CommDeinit ==
  /\ ~running
  /\ Call("deinit_dispatcher")
  /\ UNCHANGED <<transport, uartVars, multiVars, commVars, etask, holder, lineVars,
                 sendVars, historyVars, fault>>

(* Mutant: the dispatcher is not given back when init() has failed. *)
CommDeinitDispatcher_OnlyWhole ==
  /\ apc = "deinit_dispatcher"
  /\ apc' = "cleanup"
  /\ live' = live \ {"queue"}
  /\ dinitialized' = (dinitialized /\ ~initialized) /\ drunning' = FALSE
  /\ UNCHANGED <<transport, uartVars, multiVars, initialized, running, watchdog, etask,
                 holder, lineVars, sendVars, calls, historyVars, fault>>

(* dispatcher_.deinit() deletes the queue ... *)
CommDeinitDispatcher ==
  /\ apc = "deinit_dispatcher"
  /\ apc' = "cleanup"
  /\ live' = live \ {"queue"}
  /\ dinitialized' = FALSE /\ drunning' = FALSE
  /\ UNCHANGED <<transport, uartVars, multiVars, initialized, running, watchdog, etask,
                 holder, lineVars, sendVars, calls, historyVars, fault>>

(* ... cleanup_resources() the watchdog and the mutexes.  The transport    *)
(* keeps its rx callback.                                                  *)
CommCleanup ==
  /\ apc = "cleanup"
  /\ apc' = "idle"
  /\ watchdog' = FALSE
  /\ live' = {}
  /\ initialized' = FALSE
  /\ spoiled' = FALSE
  /\ late' = (late \/ \E s \in Senders : spc[s][1] # "idle")
  /\ UNCHANGED <<transport, uartVars, multiVars, running, dinitialized, drunning, etask,
                 holder, lineVars, sendVars, calls, own, stray, removed, fault>>

AppStep ==
  \/ \E u \in Uarts :
       \/ UartInit(u) \/ UartStart(u) \/ UartStop(u) \/ UartDeinit(u)
       \/ \E mode \in Modes : AddTransport(u, mode)
       \/ RemoveTransport(u)
  \/ MultiInit \/ MultiMove
  \/ CommInit \/ CommInitFail \/ CommStart \/ CommStartTransport \/ CommStartRefused
  \/ CommStop("stop_dispatcher") \/ CommStop("deinit_stop") \/ CommStopped
  \/ CommDeinit \/ CommDeinitDispatcher \/ CommCleanup

-----------------------------------------------------------------------------
(* The event task of UART u: uart_event_task(), process_rx_data(),         *)
(* enqueue().                                                              *)

Fault ==
  /\ fault' = TRUE
  /\ UNCHANGED <<transport, uartVars, multiVars, commVars, etask, holder, lineVars,
                 sendVars, appVars, historyVars>>

Goto(u, label) == etask' = [etask EXCEPT ![u] = label]

EventStep(u, label) ==
  /\ Goto(u, label)
  /\ UNCHANGED <<transport, uartVars, multiVars, commVars, sendVars, appVars,
                 historyVars, fault>>

(* The callback leads to the SerialComm. *)
Heard(u) == rx_callback[u] = "comm" \/ (rx_callback[u] = Multi /\ attached)

(* UART_DATA: half a frame is read and passed to the callback, which finds *)
(* the watchdog or not.                                                    *)
EventData(u) ==
  /\ etask[u] = "wait" /\ driver[u]
  /\ events < MaxEvents
  /\ events' = events + 1
  /\ half' = [half EXCEPT ![u] = ~half[u]]
  /\ EventStep(u, IF ~Heard(u) THEN "wait" ELSE IF watchdog THEN "kick" ELSE "lock")
  /\ UNCHANGED <<parser, holder>>

(* UART_FIFO_OVF: the input and the queue are flushed. *)
EventOverflow(u) ==
  /\ etask[u] = "wait" /\ driver[u]
  /\ events < MaxEvents
  /\ events' = events + 1
  /\ half' = [half EXCEPT ![u] = FALSE]
  /\ EventStep(u, "wait")
  /\ UNCHANGED <<parser, holder>>

(* The queue of a driver that is not installed. *)
EventNoDriver(u) == etask[u] = "wait" /\ ~driver[u] /\ Fault

Kick(u) ==
  /\ etask[u] = "kick"
  /\ IF watchdog THEN EventStep(u, "lock") /\ UNCHANGED <<lineVars, holder>> ELSE Fault

Lock(u) ==
  /\ etask[u] = "lock"
  /\ IF "parser" \notin live THEN Fault
     ELSE /\ holder = None
          /\ holder' = u
          /\ EventStep(u, "parse") /\ UNCHANGED lineVars

(* half[u] is TRUE after the first half of a frame.  The second one makes  *)
(* a packet unless it meets the bytes of another UART, or those of a frame *)
(* whose end an overflow took.                                             *)
Parse(u) ==
  /\ etask[u] = "parse"
  /\ IF "parser" \notin live \/ holder # u THEN Fault
     ELSE /\ holder' = None
          /\ IF parser = {u} /\ ~half[u]
             THEN parser' = {} /\ \E label \in {"enqueue", "wait"} : EventStep(u, label)
             ELSE parser' = parser \cup {u} /\ EventStep(u, "wait")
          /\ UNCHANGED <<half, events>>

EnqueueCheck(u) ==
  /\ etask[u] = "enqueue"
  /\ EventStep(u, IF drunning /\ dinitialized THEN "queue" ELSE "wait")
  /\ UNCHANGED <<lineVars, holder>>

EnqueueSend(u) ==
  /\ etask[u] = "queue"
  /\ IF "queue" \notin live THEN Fault
     ELSE EventStep(u, "wait") /\ UNCHANGED <<lineVars, holder>>

EventTask(u) ==
  \/ EventData(u) \/ EventOverflow(u) \/ EventNoDriver(u)
  \/ Kick(u) \/ Lock(u) \/ Parse(u) \/ EnqueueCheck(u) \/ EnqueueSend(u)

(* on_interbyte_timeout() gives up what is in the parser. *)
Timeout ==
  /\ watchdog
  /\ holder = None /\ parser # {}
  /\ parser' = {}
  /\ UNCHANGED <<transport, uartVars, multiVars, commVars, etask, holder, half, events,
                 sendVars, appVars, historyVars, fault>>

-----------------------------------------------------------------------------
(* send() of task s. *)

SendStep(s, step) ==
  /\ spc' = [spc EXCEPT ![s] = step]
  /\ UNCHANGED <<transport, uartVars, multiVars, commVars, etask, holder, lineVars,
                 appVars, historyVars, fault>>

SendBegin(s) ==
  /\ spc[s][1] = "idle"
  /\ sends < MaxSends
  /\ running
  /\ sends' = sends + 1
  /\ SendStep(s, <<"take", 0>>)
  /\ UNCHANGED <<de, sending>>

(* tx_mutex_, or ERR_TIMEOUT after 100 ms. *)
SendTake(s) ==
  /\ spc[s][1] = "take"
  /\ IF "tx" \notin live THEN Fault
     ELSE /\ UNCHANGED <<de, sends>>
          /\ \/ /\ sending = None
                /\ sending' = s
                /\ SendStep(s, <<"write", 1>>)
             \/ /\ sending # None
                /\ UNCHANGED sending
                /\ SendStep(s, <<"idle", 0>>)

(* The UART behind slot i, None when the slot sends nothing; the transport *)
(* of a stack without a MultiTransport counts as slot 1.                   *)
Target(i) ==
  IF transport # Multi THEN (IF i = 1 THEN transport ELSE None)
  ELSE IF slots[i] # None /\ slots[i].tx THEN slots[i].uart
  ELSE None

(* write() or write_async() of a MultiTransport that does not run: it      *)
(* looks at its state_ before the first slot, and not again.               *)
WriteRefused(s) ==
  /\ spc[s] = <<"write", 1>>
  /\ transport = Multi /\ mstate # "RUNNING"
  /\ SendStep(s, <<"write", MaxSlots + 1>>)
  /\ UNCHANGED <<de, sending, sends>>

(* write() or write_async(): of each transport in turn; one that is not    *)
(* running writes nothing.  Half duplex: the transceiver is switched to    *)
(* drive the line, ...                                                     *)
Write(s) ==
  /\ spc[s][1] = "write"
  /\ spc[s][2] <= MaxSlots
  /\ transport = Multi /\ spc[s][2] = 1 => mstate = "RUNNING"
  /\ LET i == spc[s][2]
         u == Target(i)
     IN  IF u # None /\ ustate[u] = "RUNNING"
         THEN de' = [de EXCEPT ![u] = TRUE] /\ SendStep(s, <<u, i>>)
         ELSE UNCHANGED de /\ SendStep(s, <<"write", i + 1>>)
  /\ UNCHANGED <<sending, sends>>

(* Mutant: write_async() does not switch it back. *)
Drain_StaysUp(s) ==
  /\ spc[s][1] \in Uarts
  /\ UNCHANGED <<de, sending, sends>>
  /\ SendStep(s, <<"write", spc[s][2] + 1>>)

(* ... and back when the bytes are out. *)
Drain(s) ==
  /\ spc[s][1] \in Uarts
  /\ de' = [de EXCEPT ![spc[s][1]] = FALSE]
  /\ SendStep(s, <<"write", spc[s][2] + 1>>)
  /\ UNCHANGED <<sending, sends>>

SendDone(s) ==
  /\ spc[s][1] = "write"
  /\ spc[s][2] > MaxSlots
  /\ IF "tx" \notin live \/ sending # s THEN Fault
     ELSE sending' = None /\ SendStep(s, <<"idle", 0>>) /\ UNCHANGED <<de, sends>>

Send(s) ==
  SendBegin(s) \/ SendTake(s) \/ WriteRefused(s) \/ Write(s) \/ Drain(s) \/ SendDone(s)

-----------------------------------------------------------------------------
(* An event task runs, and leads to a SerialComm without its handles. *)
Bare == live # Handles /\ \E u \in Uarts : etask[u] # "none" /\ Heard(u)

Finished ==
  /\ fault \/ calls = MaxCalls
  /\ UNCHANGED vars

Next ==
  \/ /\ ~fault
     /\ \/ AppStep
        \/ \E u \in Uarts : EventTask(u)
        \/ Timeout
        \/ \E s \in Senders : Send(s)
     /\ exposed' = (exposed \/ Bare')
  \/ Finished

Spec == Init /\ [][Next]_vars

-----------------------------------------------------------------------------
TransportStates == {"UNINITIALIZED", "INITIALIZED", "RUNNING", "STOPPED"}

UartTypeOK ==
  /\ ustate \in [Uarts -> TransportStates]
  /\ driver \in [Uarts -> BOOLEAN] /\ de \in [Uarts -> BOOLEAN] /\ half \in [Uarts -> BOOLEAN]
  /\ etask \in [Uarts -> {"none", "wait", "kick", "lock", "parse", "enqueue", "queue"}]
  /\ rx_callback \in [Uarts -> {None, Multi, "comm"}]

MultiTypeOK ==
  /\ mstate \in TransportStates
  /\ slots \in [Slots -> {None} \cup [uart : Uarts, rx : BOOLEAN, tx : BOOLEAN]]

CommTypeOK ==
  /\ transport \in Uarts \cup {Multi}
  /\ live \subseteq Handles
  /\ holder \in Uarts \cup {None, Lost} /\ sending \in Senders \cup {None}
  /\ parser \subseteq Uarts
  /\ apc \in {"idle", "start_transport", "refused", "stop_dispatcher",
              "deinit_stop", "deinit_dispatcher", "cleanup"}

SendTypeOK == spc \in [Senders -> ({"idle", "take", "write"} \cup Uarts) \X (0..MaxSlots + 1)]

CountTypeOK ==
  /\ calls \in 0..MaxCalls /\ events \in 0..MaxEvents /\ sends \in 0..MaxSends
  /\ own \subseteq Uarts /\ stray \subseteq Uarts /\ removed \subseteq Uarts

FlagTypeOK ==
  /\ attached \in BOOLEAN /\ initialized \in BOOLEAN /\ running \in BOOLEAN
  /\ watchdog \in BOOLEAN /\ dinitialized \in BOOLEAN /\ drunning \in BOOLEAN
  /\ spoiled \in BOOLEAN /\ late \in BOOLEAN /\ exposed \in BOOLEAN /\ fault \in BOOLEAN

(* Every variable has its type, and the stack is never half alive between  *)
(* two calls: the SerialComm runs only with its dispatcher.                *)
TypeOK ==
  /\ UartTypeOK /\ MultiTypeOK /\ CommTypeOK /\ SendTypeOK /\ CountTypeOK /\ FlagTypeOK
  /\ running /\ apc = "idle" => initialized /\ dinitialized /\ drunning

(* The program uses a deleted handle only when deinit() met a sender       *)
(* inside send(), when a UART that the SerialComm hears ran while handles  *)
(* were null, or when a UART was stopped before it was initialized.  The   *)
(* second happens only to an event task that SerialComm::stop() does not   *)
(* stop: under a MultiTransport, or started by the application itself.     *)
(* So a MultiTransport whose UARTs are stopped first survives a deinit(),  *)
(* and a stack on one UART that is started and stopped through SerialComm  *)
(* every other order of calls and events.                                  *)
FaultOnlyByLateUse ==
  /\ fault => late \/ exposed \/ \E u \in stray : transport \in {u, Multi}
  /\ exposed => transport = Multi \/ transport \in own \cup stray

Whole == initialized /\ dinitialized /\ watchdog /\ live = Handles
Clean == ~initialized /\ ~dinitialized /\ ~watchdog /\ live = {}
Remains == ~initialized /\ dinitialized /\ ~watchdog /\ live = {"queue"} /\ spoiled

(* Between two calls the SerialComm and its dispatcher are whole, or clean *)
(* for the next init(), or, after an init() that failed behind the         *)
(* dispatcher's and until the next deinit(), what that init() leaves: the  *)
(* dispatcher with its queue, not running, and nothing else.               *)
DispatcherOwned ==
  apc = "idle" =>
    /\ Whole \/ Clean \/ Remains
    /\ (drunning <=> running) /\ (running => Whole)

(* The bytes in the parser are those of UARTs that were registered to be   *)
(* heard: the stack's own, one in a slot that receives, or one that was    *)
(* removed from such a slot, whose callback stays.  The frames of a UART   *)
(* in a slot that only sends never meet those of another.                  *)
OnlyReceiversHeard ==
  \A u \in parser :
    \/ u = transport
    \/ transport = Multi /\ (u \in removed \/ \E i \in Receiving : Holds(i, u))

(* The transceiver of a UART drives the line only while one sender writes  *)
(* to it; otherwise the device would be deaf, or cut off another's bytes.  *)
TransceiverReleased ==
  ~late => \A u \in Uarts :
    /\ Cardinality({s \in Senders : spc[s][1] = u}) <= 1
    /\ de[u] => \E s \in Senders : spc[s][1] = u

(* The start order that multi_transport.h, the README and the examples     *)
(* give, transport.start() and then comm.start(), is accepted: comm.start()*)
(* does not refuse a transport because it already runs.                    *)
StartAccepted ==
  apc = "refused" =>
    IF transport = Multi THEN mstate # "RUNNING" ELSE ustate[transport] # "RUNNING"
=============================================================================
