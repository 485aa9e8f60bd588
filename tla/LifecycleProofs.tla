-------------------------- MODULE LifecycleProofs --------------------------
(***************************************************************************)
(* Theorems about module Lifecycle, for any number of UARTs, slots and     *)
(* senders, and with no bound on calls, events and sends.                  *)
(***************************************************************************)
EXTENDS Lifecycle, FiniteSetTheorems, TLAPS

-----------------------------------------------------------------------------
(* The inductive invariant. *)

(* What init(), start(), stop() and deinit() leave at each of their steps. *)
StackWhole ==
  /\ apc # "cleanup" => Whole \/ Clean \/ Remains
  /\ running => Whole /\ drunning
  /\ initialized => watchdog /\ {"tx", "parser"} \subseteq live
  /\ apc = "idle" => (drunning <=> running)
  /\ apc = "start_transport" => Whole /\ drunning
  /\ apc = "refused" => Whole
  /\ apc \in {"start_transport", "refused", "deinit_dispatcher", "cleanup"} => ~running
  /\ apc \in {"deinit_dispatcher", "cleanup"} => ~drunning
  /\ apc = "cleanup" => ~dinitialized /\ "queue" \notin live

(* On a stack without a MultiTransport only its UART does anything. *)
OneUart ==
  transport \in Uarts =>
    \A u \in Uarts :
      /\ rx_callback[u] # Multi
      /\ rx_callback[u] = "comm" \/ etask[u] # "none" \/ u \in parser => u = transport

(* A UART whose bytes reach the parser was registered by a slot, which     *)
(* still holds it unless it was removed.                                   *)
SlotsHeard ==
  transport = Multi =>
    \A u \in Uarts :
      /\ rx_callback[u] # "comm"
      /\ rx_callback[u] = Multi \/ etask[u] \in {"kick", "lock", "parse"} \/ u \in parser
           => u \in removed \/ \E i \in Slots : Holds(i, u) /\ slots[i].rx

(* A UART that is initialized has its driver, and so has one that runs. *)
DriverThere ==
  \A u \in Uarts :
    (ustate[u] = "UNINITIALIZED" /\ etask[u] = "none") \/ driver[u] \/ u \in stray

(* An event task inside a callback is one that is heard. *)
HeardInside ==
  \A u \in Uarts : etask[u] \in {"kick", "lock", "parse", "enqueue", "queue"} => Heard(u)

ExposedSeen == Bare => exposed

(* No init() has made a new parser_mutex_ under an event task. *)
HoldsToParse ==
  ~exposed => \A u \in Uarts : etask[u] = "parse" => holder = u

(* The event task that SerialComm has started lives between its start()    *)
(* and its stop(), and holds parser_mutex_ while it parses.                *)
TaskOwned ==
  transport \in Uarts \ (own \cup stray) /\ etask[transport] # "none" =>
    /\ running /\ apc = "idle" /\ driver[transport]
    /\ etask[transport] = "parse" => holder = transport

(* Senders are inside send() of an initialized SerialComm, and the one     *)
(* that writes holds tx_mutex_.                                            *)
SenderInside ==
  ~late =>
    \A s \in Senders :
      /\ spc[s][1] # "idle" => initialized
      /\ spc[s][1] \notin {"idle", "take"} => sending = s

(* A transceiver that drives the line has a sender that will release it. *)
Driven == ~late => \A u \in Uarts : de[u] => \E s \in Senders : spc[s][1] = u

(* A sender that writes to a UART stands at a slot, and one that looks for  *)
(* the next slot at one that follows a slot, or at the first.              *)
StepAt(step) ==
  /\ step[1] \in Uarts => step[2] \in Slots
  /\ step[1] = "write" => step[2] # 0
AtSlot == \A s \in Senders : StepAt(spc[s])

IInv ==
  /\ TypeOK
  /\ StackWhole /\ OneUart /\ SlotsHeard /\ DriverThere /\ TaskOwned
  /\ HeardInside /\ ExposedSeen /\ HoldsToParse
  /\ SenderInside /\ Driven /\ AtSlot
  /\ FaultOnlyByLateUse

LEMMA InitIInv == Init => IInv
<1> SUFFICES ASSUME Init PROVE IInv
  OBVIOUS
<1> USE LifecycleAssumption
<1>1. UartTypeOK /\ MultiTypeOK /\ CommTypeOK /\ SendTypeOK /\ CountTypeOK
  BY DEF Init, UartTypeOK, MultiTypeOK, CommTypeOK, SendTypeOK, CountTypeOK, TransportStates
<1>2. FlagTypeOK
  BY Zenon DEF Init, FlagTypeOK
<1>3. TypeOK
  BY <1>1, <1>2 DEF Init, TypeOK
<1>4. StackWhole /\ OneUart /\ SlotsHeard /\ DriverThere /\ TaskOwned
  BY DEF Init, StackWhole, OneUart, SlotsHeard, DriverThere, TaskOwned, Whole, Clean
<1>a. HeardInside /\ ExposedSeen /\ HoldsToParse
  BY DEF Init, HeardInside, ExposedSeen, HoldsToParse, Bare
<1>5. SenderInside /\ Driven /\ AtSlot
  BY DEF Init, SenderInside, Driven, AtSlot, StepAt
<1>6. FaultOnlyByLateUse
  BY Zenon DEF Init, FaultOnlyByLateUse
<1> QED BY <1>3, <1>4, <1>5, <1>6, <1>a DEF IInv

-----------------------------------------------------------------------------
(* What the steps of each kind leave alone. *)

(* Calls to a UART and to the MultiTransport. *)
UartCall(u) == UartInit(u) \/ UartStart(u) \/ UartStop(u) \/ UartDeinit(u)

MultiCall ==
  \/ \E u \in Uarts : (\E mode \in Modes : AddTransport(u, mode)) \/ RemoveTransport(u)
  \/ MultiInit \/ MultiMove

(* Steps of SerialComm that its transport does not see. *)
CommInner ==
  \/ CommInitFail \/ CommStart \/ CommStartRefused \/ CommStopped
  \/ CommDeinit \/ CommDeinitDispatcher \/ CommCleanup

(* Steps of SerialComm that call its transport. *)
CommOuter == CommInit \/ CommStartTransport \/ \E next \in {"stop_dispatcher", "deinit_stop"} : CommStop(next)

LEMMA NextCases ==
  ASSUME Next
  PROVE  \/ (\E u \in Uarts : UartCall(u)) \/ MultiCall \/ CommInner \/ CommOuter
         \/ (\E u \in Uarts : EventTask(u)) \/ Timeout \/ (\E s \in Senders : Send(s))
         \/ UNCHANGED vars
BY DEF Next, AppStep, UartCall, MultiCall, CommInner, CommOuter, Finished

(* exposed is set by what a step leaves. *)
LEMMA ExposedStep ==
  ASSUME Next
  PROVE  exposed' = (exposed \/ Bare') \/ UNCHANGED vars
BY Zenon DEF Next, Finished

LEMMA UartCallFrame ==
  ASSUME NEW u \in Uarts, UartCall(u)
  PROVE  /\ UNCHANGED <<transport, rx_callback, multiVars, commVars, parser, events, sending,
                        spc, sends, removed, spoiled, late, fault>>
         /\ apc = "idle" /\ apc' = "idle" /\ calls < MaxCalls /\ calls' = calls + 1
         /\ transport \in {u, Multi}
         /\ own \subseteq own' /\ stray \subseteq stray'
BY DEF UartCall, UartInit, UartStart, UartStop, UartDeinit, StopUart, Call, uartVars, lineVars,
   sendVars, historyVars

LEMMA MultiCallFrame ==
  ASSUME MultiCall
  PROVE  /\ UNCHANGED <<transport, ustate, driver, attached, commVars, etask, holder, lineVars,
                        sendVars, own, stray, spoiled, late, fault>>
         /\ apc = "idle" /\ apc' = "idle" /\ calls < MaxCalls /\ calls' = calls + 1
<1>1. ASSUME NEW u \in Uarts, NEW mode \in Modes, AddTransport(u, mode)
      PROVE  /\ UNCHANGED <<transport, ustate, driver, attached, commVars, etask, holder,
                            lineVars, sendVars, own, stray, spoiled, late, fault>>
             /\ apc = "idle" /\ apc' = "idle" /\ calls < MaxCalls /\ calls' = calls + 1
  BY <1>1 DEF AddTransport, Call, historyVars
<1> QED BY <1>1 DEF MultiCall, RemoveTransport, MultiInit, MultiMove, Call, uartVars, historyVars

LEMMA CommInnerFrame ==
  ASSUME CommInner
  PROVE  UNCHANGED <<transport, uartVars, multiVars, etask, holder, lineVars, sendVars, own,
                     stray, removed, fault>>
BY DEF CommInner, CommInitFail, CommStart, CommStartRefused, CommStopped, CommDeinit,
   CommDeinitDispatcher, CommCleanup, historyVars

LEMMA CommOuterFrame ==
  ASSUME CommOuter
  PROVE  UNCHANGED <<transport, driver, slots, lineVars, de, spc, sends, own, removed,
                     spoiled, late, fault>>
BY DEF CommOuter, CommInit, CommStartTransport, CommStop, multiVars, sendVars, historyVars

LEMMA EventFrame ==
  ASSUME NEW u \in Uarts, EventTask(u)
  PROVE  UNCHANGED <<transport, uartVars, multiVars, commVars, sendVars, appVars, historyVars>>
BY DEF EventTask, EventData, EventOverflow, EventNoDriver, Kick, Lock, Parse, EnqueueCheck,
   EnqueueSend, EventStep, Fault

LEMMA SendFrame ==
  ASSUME NEW s \in Senders, Send(s)
  PROVE  UNCHANGED <<transport, uartVars, multiVars, commVars, etask, holder, lineVars, appVars,
                     historyVars>>
BY DEF Send, SendBegin, SendTake, WriteRefused, Write, Drain, SendDone, SendStep, Fault

-----------------------------------------------------------------------------
(* Types. *)

LEMMA ForwardTyped ==
  ASSUME UartTypeOK, NEW S
  PROVE  Forward(S) \in [Uarts -> {None, Multi, "comm"}]
BY DEF Forward, UartTypeOK

LEMMA StepUartTyped ==
  ASSUME UartTypeOK, CommTypeOK, Next
  PROVE  UartTypeOK'
<1> USE DEF UartTypeOK, TransportStates
<1>1. ASSUME NEW u \in Uarts, UartCall(u) PROVE UartTypeOK'
  <2>1. CASE UartInit(u)
    BY <2>1 DEF UartInit, lineVars
  <2>2. CASE UartStart(u)
    BY <2>2 DEF UartStart, StartUart, lineVars, sendVars
  <2>3. CASE UartStop(u)
    BY <2>3 DEF UartStop, StopUart, lineVars, sendVars
  <2>4. CASE UartDeinit(u)
    BY <2>4 DEF UartDeinit, sendVars
  <2> QED BY <1>1, <2>1, <2>2, <2>3, <2>4 DEF UartCall
<1>2. CASE MultiCall
  <2>1. rx_callback' \in [Uarts -> {None, Multi, "comm"}]
    <3>1. ASSUME NEW u \in Uarts, NEW mode \in Modes, AddTransport(u, mode)
          PROVE  rx_callback' \in [Uarts -> {None, Multi, "comm"}]
      BY <3>1 DEF AddTransport
    <3>2. CASE MultiInit
      BY <3>2, ForwardTyped DEF MultiInit
    <3>3. CASE (\E u \in Uarts : RemoveTransport(u)) \/ MultiMove
      BY <3>3 DEF RemoveTransport, MultiMove, uartVars
    <3> QED BY <1>2, <3>1, <3>2, <3>3 DEF MultiCall
  <2>2. UNCHANGED <<ustate, driver, de, half, etask>>
    BY <1>2, MultiCallFrame DEF lineVars, sendVars
  <2> QED BY <2>1, <2>2
<1>3. CASE CommOuter
  <2>1. UNCHANGED <<driver, de, half>>
    BY <1>3, CommOuterFrame DEF lineVars
  <2>2. CASE CommInit
    <3>1. UNCHANGED <<ustate, etask>>
      BY <2>2 DEF CommInit
    <3>2. rx_callback' \in [Uarts -> {None, Multi, "comm"}]
      BY <2>2, ForwardTyped DEF CommInit, SetRxCallback, CommTypeOK
    <3> QED BY <2>1, <3>1, <3>2
  <2>3. CASE CommStartTransport
    BY <2>1, <2>3 DEF CommStartTransport, StartUart
  <2>4. ASSUME NEW next, CommStop(next) PROVE UartTypeOK'
    BY <2>1, <2>4 DEF CommStop, StopUart
  <2> QED BY <1>3, <2>2, <2>3, <2>4 DEF CommOuter
<1>4. ASSUME NEW u \in Uarts, EventTask(u) PROVE UartTypeOK'
  <2>1. UNCHANGED <<ustate, driver, de, rx_callback>>
    BY <1>4, EventFrame DEF uartVars, sendVars
  <2>2. \/ etask' = etask
        \/ \E label \in {"none", "wait", "kick", "lock", "parse", "enqueue", "queue"} :
             etask' = [etask EXCEPT ![u] = label]
    BY <1>4 DEF EventTask, EventData, EventOverflow, EventNoDriver, Kick, Lock, Parse,
       EnqueueCheck, EnqueueSend, EventStep, Goto, Fault
  <2>3. half' = half \/ \E b \in BOOLEAN : half' = [half EXCEPT ![u] = b]
    BY <1>4 DEF EventTask, EventData, EventOverflow, EventNoDriver, Kick, Lock, Parse,
       EnqueueCheck, EnqueueSend, EventStep, Fault, lineVars
  <2> QED BY <2>1, <2>2, <2>3
<1>5. ASSUME NEW s \in Senders, Send(s) PROVE UartTypeOK'
  <2>1. UNCHANGED <<ustate, driver, half, rx_callback, etask>>
    BY <1>5, SendFrame DEF uartVars, lineVars
  <2>2. de' = de \/ \E u, b : b \in BOOLEAN /\ de' = [de EXCEPT ![u] = b]
    <3>1. CASE SendBegin(s) \/ SendTake(s) \/ SendDone(s)
      BY <3>1 DEF SendBegin, SendTake, SendDone, Fault, sendVars
    <3>2. CASE WriteRefused(s) \/ Write(s)
      BY <3>2 DEF WriteRefused, Write
    <3>3. CASE Drain(s)
      BY <3>3 DEF Drain
    <3> QED BY <1>5, <3>1, <3>2, <3>3 DEF Send
  <2> QED BY <2>1, <2>2
<1>6. CASE CommInner \/ Timeout \/ UNCHANGED vars
  <2>1. UNCHANGED <<uartVars, etask, de, half>>
    BY <1>6, CommInnerFrame DEF Timeout, vars, lineVars, sendVars
  <2> QED BY <2>1 DEF uartVars
<1> QED BY <1>1, <1>2, <1>3, <1>4, <1>5, <1>6, NextCases

LEMMA StepMultiTyped ==
  ASSUME MultiTypeOK, Next
  PROVE  MultiTypeOK'
<1> USE DEF MultiTypeOK, TransportStates
<1>1. CASE MultiCall
  <2>1. ASSUME NEW u \in Uarts, NEW mode \in Modes, AddTransport(u, mode) PROVE MultiTypeOK'
    <3>1. PICK i \in Slots : slots' = [slots EXCEPT ![i] = [uart |-> u, rx |-> mode.rx, tx |-> mode.tx]]
      BY <2>1 DEF AddTransport
    <3>2. mode.rx \in BOOLEAN /\ mode.tx \in BOOLEAN
      BY DEF Modes
    <3> QED BY <2>1, <3>1, <3>2 DEF AddTransport
  <2>2. ASSUME NEW u \in Uarts, RemoveTransport(u) PROVE MultiTypeOK'
    BY <2>2 DEF RemoveTransport
  <2>3. CASE MultiInit \/ MultiMove
    BY <2>3 DEF MultiInit, MultiMove
  <2> QED BY <1>1, <2>1, <2>2, <2>3 DEF MultiCall
<1>2. CASE CommOuter
  BY <1>2, CommOuterFrame DEF CommOuter, CommInit, CommStartTransport, CommStop
<1>3. CASE \/ (\E u \in Uarts : UartCall(u) \/ EventTask(u)) \/ CommInner \/ Timeout
           \/ (\E s \in Senders : Send(s)) \/ UNCHANGED vars
  <2>1. UNCHANGED multiVars
    BY <1>3, UartCallFrame, CommInnerFrame, EventFrame, SendFrame DEF Timeout, vars
  <2> QED BY <2>1 DEF multiVars
<1> QED BY <1>1, <1>2, <1>3, NextCases

LEMMA StepCommTyped ==
  ASSUME UartTypeOK, CommTypeOK, Next
  PROVE  CommTypeOK'
<1> USE DEF CommTypeOK
<1>1. ASSUME NEW u \in Uarts, UartCall(u) PROVE CommTypeOK'
  <2>1. UNCHANGED <<transport, live, parser, sending>> /\ apc' = "idle"
    BY <1>1, UartCallFrame DEF commVars
  <2>2. holder' \in {holder, Lost}
    BY <1>1 DEF UartCall, UartInit, UartStart, UartStop, UartDeinit, StopUart
  <2> QED BY <2>1, <2>2
<1>2. CASE MultiCall
  BY <1>2, MultiCallFrame DEF commVars, lineVars, sendVars
<1>3. CASE CommInner
  <2>1. UNCHANGED <<transport, holder, parser, sending>>
    BY <1>3, CommInnerFrame DEF lineVars, sendVars
  <2>2. live' \subseteq Handles
    BY <1>3 DEF CommInner, CommInitFail, CommStart, CommStartRefused, CommStopped, CommDeinit,
       CommDeinitDispatcher, CommCleanup, Handles, commVars
  <2>3. apc' \in {"idle", "start_transport", "deinit_dispatcher", "cleanup"}
    BY <1>3 DEF CommInner, CommInitFail, CommStart, CommStartRefused, CommStopped, CommDeinit,
       CommDeinitDispatcher, CommCleanup, Call
  <2> QED BY <2>1, <2>2, <2>3
<1>4. CASE CommOuter
  <2>1. UNCHANGED <<transport, parser>>
    BY <1>4, CommOuterFrame DEF lineVars
  <2>2. CASE CommInit
    BY <2>1, <2>2 DEF CommInit, Call
  <2>3. CASE CommStartTransport
    BY <2>1, <2>3 DEF CommStartTransport, sendVars
  <2>4. ASSUME NEW next \in {"stop_dispatcher", "deinit_stop"}, CommStop(next) PROVE CommTypeOK'
    BY <2>1, <2>4 DEF CommStop, StopUart, Call, commVars, sendVars
  <2> QED BY <1>4, <2>2, <2>3, <2>4 DEF CommOuter
<1>5. ASSUME NEW u \in Uarts, EventTask(u) PROVE CommTypeOK'
  <2>1. UNCHANGED <<transport, live, sending, apc>>
    BY <1>5, EventFrame DEF commVars, sendVars, appVars
  <2>2. holder' \in {holder, u, None}
    BY <1>5 DEF EventTask, EventData, EventOverflow, EventNoDriver, Kick, Lock, Parse,
       EnqueueCheck, EnqueueSend, EventStep, Fault, lineVars
  <2>3. parser' \in {parser, {}, parser \cup {u}}
    BY <1>5 DEF EventTask, EventData, EventOverflow, EventNoDriver, Kick, Lock, Parse,
       EnqueueCheck, EnqueueSend, EventStep, Fault, lineVars
  <2> QED BY <2>1, <2>2, <2>3
<1>6. CASE Timeout
  BY <1>6 DEF Timeout, commVars, sendVars, appVars
<1>7. ASSUME NEW s \in Senders, Send(s) PROVE CommTypeOK'
  <2>1. UNCHANGED <<transport, live, parser, holder, apc>>
    BY <1>7, SendFrame DEF commVars, lineVars, appVars
  <2>2. sending' \in {sending, s, None}
    BY <1>7 DEF Send, SendBegin, SendTake, WriteRefused, Write, Drain, SendDone, Fault, sendVars
  <2> QED BY <2>1, <2>2
<1>8. CASE UNCHANGED vars
  BY <1>8 DEF vars, commVars, lineVars, sendVars, appVars
<1> QED BY <1>1, <1>2, <1>3, <1>4, <1>5, <1>6, <1>7, <1>8, NextCases

(* The steps of a sender. *)
LEMMA SendMoves ==
  ASSUME SendTypeOK, CommTypeOK, MultiTypeOK, AtSlot, NEW s \in Senders, Send(s)
  PROVE  \/ spc' = spc
         \/ \E step \in ({"idle", "take", "write"} \cup Uarts) \X (0..MaxSlots + 1) :
              spc' = [spc EXCEPT ![s] = step] /\ StepAt(step)
<1> USE LifecycleAssumption DEF SendTypeOK, SendStep, Slots
<1> DEFINE Steps == ({"idle", "take", "write"} \cup Uarts) \X (0..MaxSlots + 1)
           Moves == \/ spc' = spc
                    \/ \E step \in Steps : spc' = [spc EXCEPT ![s] = step] /\ StepAt(step)
<1>1. CASE SendBegin(s)
  <2>1. <<"take", 0>> \in Steps /\ StepAt(<<"take", 0>>)
    BY DEF StepAt
  <2> QED BY <1>1, <2>1 DEF SendBegin
<1>2. CASE SendTake(s)
  <2>1. /\ <<"write", 1>> \in Steps /\ StepAt(<<"write", 1>>)
        /\ <<"idle", 0>> \in Steps /\ StepAt(<<"idle", 0>>)
    BY DEF StepAt
  <2> QED BY <1>2, <2>1 DEF SendTake, Fault, sendVars
<1>3. CASE Write(s)
  <2> DEFINE i == spc[s][2]
  <2>1. i \in Slots
    BY <1>3 DEF Write, AtSlot, StepAt
  <2>2. <<"write", i + 1>> \in Steps /\ StepAt(<<"write", i + 1>>)
    BY <2>1 DEF StepAt
  <2>3. CASE spc' = [spc EXCEPT ![s] = <<"write", i + 1>>]
    BY <2>2, <2>3
  <2>4. ASSUME NEW u \in Uarts, spc' = [spc EXCEPT ![s] = <<u, i>>] PROVE Moves
    <3>1. <<u, i>> \in Steps /\ StepAt(<<u, i>>)
      BY <2>1 DEF StepAt
    <3> QED BY <2>4, <3>1
  <2>5. Target(i) # None => Target(i) \in Uarts
    BY <2>1 DEF Target, CommTypeOK, MultiTypeOK
  <2> QED BY <1>3, <2>3, <2>4, <2>5 DEF Write
<1>6. CASE WriteRefused(s)
  <2>1. <<"write", MaxSlots + 1>> \in Steps /\ StepAt(<<"write", MaxSlots + 1>>)
    BY DEF StepAt
  <2> QED BY <1>6, <2>1 DEF WriteRefused
<1>4. CASE Drain(s)
  <2>1. spc[s][2] \in Slots
    BY <1>4 DEF Drain, AtSlot, StepAt
  <2>2. <<"write", spc[s][2] + 1>> \in Steps /\ StepAt(<<"write", spc[s][2] + 1>>)
    BY <2>1 DEF StepAt
  <2> QED BY <1>4, <2>2 DEF Drain
<1>5. CASE SendDone(s)
  <2>1. <<"idle", 0>> \in Steps /\ StepAt(<<"idle", 0>>)
    BY DEF StepAt
  <2> QED BY <1>5, <2>1 DEF SendDone, Fault, sendVars
<1> QED BY <1>1, <1>2, <1>3, <1>4, <1>5, <1>6 DEF Send

LEMMA StepSendTyped ==
  ASSUME SendTypeOK, CommTypeOK, MultiTypeOK, AtSlot, Next
  PROVE  SendTypeOK' /\ AtSlot'
<1>1. CASE spc' = spc
  BY <1>1 DEF SendTypeOK, AtSlot
<1>2. ASSUME NEW s \in Senders, NEW step \in ({"idle", "take", "write"} \cup Uarts) \X (0..MaxSlots + 1),
             spc' = [spc EXCEPT ![s] = step], StepAt(step)
      PROVE  SendTypeOK' /\ AtSlot'
  BY <1>2 DEF SendTypeOK, AtSlot
<1>3. spc' = spc \/ \E s \in Senders : Send(s)
  BY NextCases, UartCallFrame, MultiCallFrame, CommInnerFrame, CommOuterFrame, EventFrame
     DEF Timeout, vars, sendVars
<1> QED BY <1>1, <1>2, <1>3, SendMoves

LEMMA StepCountTyped ==
  ASSUME CountTypeOK, CommTypeOK, UartTypeOK, Next
  PROVE  CountTypeOK'
<1> USE LifecycleAssumption DEF CountTypeOK
<1>1. ASSUME calls' = calls \/ (calls < MaxCalls /\ calls' = calls + 1),
             events' = events \/ (events < MaxEvents /\ events' = events + 1),
             sends' = sends \/ (sends < MaxSends /\ sends' = sends + 1),
             own' \subseteq Uarts, stray' \subseteq Uarts, removed' \subseteq Uarts
      PROVE  CountTypeOK'
  BY <1>1
<1>2. ASSUME NEW u \in Uarts, UartCall(u) PROVE CountTypeOK'
  <2>1. own' \subseteq own \cup {u} /\ stray' \subseteq stray \cup {u}
    BY <1>2 DEF UartCall, UartInit, UartStart, UartStop, UartDeinit, StopUart, historyVars
  <2> QED BY <1>1, <1>2, <2>1, UartCallFrame
<1>3. CASE MultiCall
  <2>1. removed' \subseteq Uarts
    BY <1>3 DEF MultiCall, AddTransport, RemoveTransport, MultiInit, MultiMove, historyVars
  <2> QED BY <1>1, <1>3, <2>1, MultiCallFrame DEF lineVars, sendVars
<1>4. CASE CommInner
  <2>1. calls' = calls \/ (calls < MaxCalls /\ calls' = calls + 1)
    BY <1>4 DEF CommInner, CommInitFail, CommStart, CommStartRefused, CommStopped, CommDeinit,
       CommDeinitDispatcher, CommCleanup, Call
  <2> QED BY <1>1, <1>4, <2>1, CommInnerFrame DEF lineVars, sendVars
<1>5. CASE CommOuter
  <2>1. calls' = calls \/ (calls < MaxCalls /\ calls' = calls + 1)
    BY <1>5 DEF CommOuter, CommInit, CommStartTransport, CommStop, Call
  <2>2. stray' \subseteq Uarts
    <3>1. CASE CommInit \/ CommStartTransport
      BY <3>1 DEF CommInit, CommStartTransport, historyVars
    <3>2. ASSUME NEW next, CommStop(next) PROVE stray' \subseteq Uarts
      BY <3>2 DEF CommStop, StopUart, CommTypeOK
    <3> QED BY <1>5, <3>1, <3>2 DEF CommOuter
  <2> QED BY <1>1, <1>5, <2>1, <2>2, CommOuterFrame DEF lineVars
<1>6. ASSUME NEW u \in Uarts, EventTask(u) PROVE CountTypeOK'
  <2>1. events' = events \/ (events < MaxEvents /\ events' = events + 1)
    BY <1>6 DEF EventTask, EventData, EventOverflow, EventNoDriver, Kick, Lock, Parse,
       EnqueueCheck, EnqueueSend, EventStep, Fault, lineVars
  <2> QED BY <1>1, <1>6, <2>1, EventFrame DEF appVars, sendVars, historyVars
<1>7. ASSUME NEW s \in Senders, Send(s) PROVE CountTypeOK'
  <2>1. sends' = sends \/ (sends < MaxSends /\ sends' = sends + 1)
    BY <1>7 DEF Send, SendBegin, SendTake, WriteRefused, Write, Drain, SendDone, Fault, sendVars
  <2> QED BY <1>1, <1>7, <2>1, SendFrame DEF appVars, lineVars, historyVars
<1>8. CASE Timeout \/ UNCHANGED vars
  BY <1>1, <1>8 DEF Timeout, vars, appVars, sendVars, lineVars, historyVars
<1> QED BY <1>2, <1>3, <1>4, <1>5, <1>6, <1>7, <1>8, NextCases

LEMMA StepFlagTyped ==
  ASSUME FlagTypeOK, Next
  PROVE  FlagTypeOK'
<1>e. exposed' \in BOOLEAN
  <2>1. CASE exposed' = (exposed \/ Bare')
    BY <2>1
  <2>2. CASE UNCHANGED vars
    BY <2>2, Zenon DEF vars, FlagTypeOK
  <2> QED BY <2>1, <2>2, ExposedStep
<1> DEFINE FlagsButExposed ==
      /\ attached' \in BOOLEAN /\ initialized' \in BOOLEAN /\ running' \in BOOLEAN
      /\ watchdog' \in BOOLEAN /\ dinitialized' \in BOOLEAN /\ drunning' \in BOOLEAN
      /\ spoiled' \in BOOLEAN /\ late' \in BOOLEAN /\ fault' \in BOOLEAN
<1> SUFFICES FlagsButExposed
  BY <1>e, Zenon DEF FlagTypeOK
<1>1. ASSUME NEW u \in Uarts, UartCall(u) PROVE FlagsButExposed
  BY <1>1, UartCallFrame, Zenon DEF FlagTypeOK, multiVars, commVars
<1>2. CASE MultiCall
  <2>1. UNCHANGED <<attached, commVars, spoiled, late, fault>>
    BY <1>2, MultiCallFrame
  <2> QED BY <2>1, Zenon DEF FlagTypeOK, commVars
<1>3. CASE CommInner
  <2>1. UNCHANGED <<attached, fault>>
    BY <1>3, CommInnerFrame DEF multiVars
  <2>2. CASE CommInitFail
    BY <2>1, <2>2, Zenon DEF CommInitFail, FlagTypeOK
  <2>3. CASE CommStart \/ CommStartRefused
    BY <2>1, <2>3, Zenon DEF CommStart, CommStartRefused, FlagTypeOK, historyVars
  <2>4. CASE CommStopped
    BY <2>1, <2>4, Zenon DEF CommStopped, FlagTypeOK, historyVars
  <2>5. CASE CommDeinit \/ CommDeinitDispatcher
    BY <2>1, <2>5, Zenon DEF CommDeinit, CommDeinitDispatcher, FlagTypeOK, commVars,
       historyVars
  <2>6. CASE CommCleanup
    BY <2>1, <2>6, Zenon DEF CommCleanup, FlagTypeOK
  <2> QED BY <1>3, <2>2, <2>3, <2>4, <2>5, <2>6 DEF CommInner
<1>4. CASE CommOuter
  <2>1. UNCHANGED <<spoiled, late, fault>>
    BY <1>4, CommOuterFrame
  <2>2. CASE CommInit
    <3>1. attached' \in {attached, TRUE}
      BY <2>2, Zenon DEF CommInit, SetRxCallback
    <3> QED BY <2>1, <2>2, <3>1, Zenon DEF CommInit, FlagTypeOK
  <2>3. CASE CommStartTransport
    <3>1. running' \in {running, TRUE}
      BY <2>3, Zenon DEF CommStartTransport
    <3> QED BY <2>1, <2>3, <3>1, Zenon DEF CommStartTransport, FlagTypeOK
  <2>4. ASSUME NEW next, CommStop(next) PROVE FlagsButExposed
    BY <2>1, <2>4, Zenon DEF CommStop, FlagTypeOK, commVars
  <2> QED BY <1>4, <2>2, <2>3, <2>4 DEF CommOuter
<1>5. ASSUME fault' \in {fault, TRUE}, UNCHANGED <<multiVars, commVars, historyVars>>
      PROVE  FlagsButExposed
  BY <1>5, Zenon DEF FlagTypeOK, multiVars, commVars, historyVars
<1>6. ASSUME NEW u \in Uarts, EventTask(u) PROVE FlagsButExposed
  <2>1. fault' \in {fault, TRUE}
    BY <1>6, Zenon DEF EventTask, EventData, EventOverflow, EventNoDriver, Kick, Lock, Parse,
       EnqueueCheck, EnqueueSend, EventStep, Fault
  <2> QED BY <1>5, <1>6, <2>1, EventFrame
<1>7. ASSUME NEW s \in Senders, Send(s) PROVE FlagsButExposed
  <2>1. fault' \in {fault, TRUE}
    BY <1>7, Zenon DEF Send, SendBegin, SendTake, WriteRefused, Write, Drain, SendDone, SendStep, Fault
  <2> QED BY <1>5, <1>7, <2>1, SendFrame
<1>8. CASE Timeout \/ UNCHANGED vars
  <2>1. fault' \in {fault, TRUE} /\ UNCHANGED <<multiVars, commVars, historyVars>>
    BY <1>8, Zenon DEF Timeout, vars
  <2> QED BY <1>5, <2>1
<1> QED BY <1>1, <1>2, <1>3, <1>4, <1>6, <1>7, <1>8, NextCases

-----------------------------------------------------------------------------
(* The parts of the invariant. *)

LEMMA StepStackWhole ==
  ASSUME CommTypeOK, StackWhole, Next
  PROVE  StackWhole'
<1> USE DEF StackWhole, Handles, Whole, Clean, Remains
<1>1. ASSUME UNCHANGED <<commVars, spoiled, apc>> PROVE StackWhole'
  BY <1>1 DEF commVars
<1>2. CASE CommInner
  <2>1. CASE CommInitFail
    BY <2>1 DEF CommInitFail, Call
  <2>2. CASE CommStart
    BY <2>2 DEF CommStart, Call, historyVars
  <2>3. CASE CommStartRefused
    BY <2>3 DEF CommStartRefused, historyVars
  <2>4. CASE CommStopped
    BY <2>4 DEF CommStopped, historyVars
  <2>5. CASE CommDeinit
    BY <2>5 DEF CommDeinit, Call, commVars, historyVars
  <2>6. CASE CommDeinitDispatcher
    BY <2>6 DEF CommDeinitDispatcher, historyVars
  <2>7. CASE CommCleanup
    BY <2>7 DEF CommCleanup
  <2> QED BY <1>2, <2>1, <2>2, <2>3, <2>4, <2>5, <2>6, <2>7 DEF CommInner
<1>3. CASE CommOuter
  <2>1. spoiled' = spoiled
    BY <1>3, CommOuterFrame
  <2>2. CASE CommInit
    BY <2>1, <2>2 DEF CommInit, Call
  <2>3. CASE CommStartTransport
    BY <2>1, <2>3 DEF CommStartTransport
  <2>4. ASSUME NEW next \in {"stop_dispatcher", "deinit_stop"}, CommStop(next) PROVE StackWhole'
    BY <2>1, <2>4 DEF CommStop, Call, commVars
  <2> QED BY <1>3, <2>2, <2>3, <2>4 DEF CommOuter
<1>4. CASE \/ (\E u \in Uarts : UartCall(u) \/ EventTask(u)) \/ MultiCall \/ Timeout
           \/ (\E s \in Senders : Send(s)) \/ UNCHANGED vars
  <2>1. UNCHANGED <<commVars, spoiled, apc>>
    BY <1>4, UartCallFrame, MultiCallFrame, EventFrame, SendFrame
       DEF Timeout, vars, historyVars, appVars
  <2> QED BY <1>1, <2>1
<1> QED BY <1>2, <1>3, <1>4, NextCases

(* What the callbacks of the event tasks do to the parser. *)
LEMMA EventMoves ==
  ASSUME NEW u \in Uarts, EventTask(u), UartTypeOK
  PROVE  /\ etask[u] # "none"
         /\ \A v \in Uarts \ {u} : etask'[v] = etask[v]
         /\ etask'[u] \in {"kick", "lock", "parse"} =>
              etask[u] \in {"kick", "lock", "parse"} \/ Heard(u)
         /\ etask'[u] \in {"kick", "lock", "parse", "enqueue", "queue"} =>
              etask[u] \in {"kick", "lock", "parse", "enqueue", "queue"} \/ Heard(u)
         /\ parser' \subseteq parser \/ (parser' = parser \cup {u} /\ etask[u] = "parse")
<1> USE DEF UartTypeOK
<1>1. CASE EventData(u) \/ EventOverflow(u) \/ EventNoDriver(u)
  BY <1>1 DEF EventData, EventOverflow, EventNoDriver, EventStep, Goto, Fault, lineVars
<1>2. CASE Kick(u) \/ Lock(u)
  BY <1>2 DEF Kick, Lock, EventStep, Goto, Fault, lineVars
<1>3. CASE Parse(u)
  BY <1>3 DEF Parse, EventStep, Goto, Fault, lineVars
<1>4. CASE EnqueueCheck(u) \/ EnqueueSend(u)
  BY <1>4 DEF EnqueueCheck, EnqueueSend, EventStep, Goto, Fault, lineVars
<1> QED BY <1>1, <1>2, <1>3, <1>4 DEF EventTask

LEMMA StepOneUart ==
  ASSUME UartTypeOK, CommTypeOK, OneUart, Next
  PROVE  OneUart'
<1> USE LifecycleAssumption DEF UartTypeOK, CommTypeOK, OneUart
<1>1. transport' = transport
  BY NextCases, UartCallFrame, MultiCallFrame, CommInnerFrame, CommOuterFrame, EventFrame,
     SendFrame DEF Timeout, vars
<1> SUFFICES ASSUME transport \in Uarts PROVE OneUart'
  BY <1>1
<1>2. ASSUME NEW u \in Uarts, UartCall(u) PROVE OneUart'
  <2>1. UNCHANGED <<rx_callback, parser>> /\ u = transport
    BY <1>2, UartCallFrame
  <2>2. \A v \in Uarts \ {u} : etask'[v] = etask[v]
    BY <1>2 DEF UartCall, UartInit, UartStart, UartStop, UartDeinit, StartUart, StopUart
  <2> QED BY <1>1, <2>1, <2>2
<1>3. CASE MultiCall
  <2>1. \A u \in Uarts : \A mode \in Modes : ~AddTransport(u, mode)
    BY DEF AddTransport
  <2>2. UNCHANGED <<rx_callback, parser, etask>>
    BY <1>3, <2>1, MultiCallFrame
       DEF MultiCall, RemoveTransport, MultiInit, MultiMove, uartVars, lineVars
  <2> QED BY <1>1, <2>2
<1>4. CASE CommInner \/ Timeout \/ (\E s \in Senders : Send(s)) \/ UNCHANGED vars
  <2>1. UNCHANGED <<rx_callback, etask>> /\ parser' \subseteq parser
    BY <1>4, CommInnerFrame, SendFrame DEF Timeout, vars, uartVars, lineVars
  <2> QED BY <1>1, <2>1
<1>5. CASE CommOuter
  <2>1. parser' = parser
    BY <1>5, CommOuterFrame DEF lineVars
  <2>2. CASE CommInit
    BY <1>1, <2>1, <2>2 DEF CommInit, SetRxCallback
  <2>3. CASE CommStartTransport
    BY <1>1, <2>1, <2>3 DEF CommStartTransport, StartUart
  <2>4. ASSUME NEW next, CommStop(next) PROVE OneUart'
    BY <1>1, <2>1, <2>4 DEF CommStop, StopUart
  <2> QED BY <1>5, <2>2, <2>3, <2>4 DEF CommOuter
<1>6. ASSUME NEW u \in Uarts, EventTask(u) PROVE OneUart'
  <2>1. rx_callback' = rx_callback
    BY <1>6, EventFrame DEF uartVars
  <2> QED BY <1>1, <1>6, <2>1, EventMoves
<1> QED BY <1>2, <1>3, <1>4, <1>5, <1>6, NextCases

LEMMA TransportKept == Next => transport' = transport
BY NextCases, UartCallFrame, MultiCallFrame, CommInnerFrame, CommOuterFrame, EventFrame,
   SendFrame DEF Timeout, vars

LEMMA StepSlotsHeard ==
  ASSUME UartTypeOK, MultiTypeOK, CommTypeOK, SlotsHeard, Next
  PROVE  SlotsHeard'
<1> USE LifecycleAssumption DEF UartTypeOK, SlotsHeard, Holds
<1> SUFFICES ASSUME transport = Multi PROVE SlotsHeard'
  BY TransportKept
<1>1. transport' = transport
  BY TransportKept
<1>2. ASSUME removed' = removed, slots' = slots, rx_callback' = rx_callback, parser' \subseteq parser,
             \A u \in Uarts : etask'[u] \in {"kick", "lock", "parse"} => etask[u] = etask'[u]
      PROVE  SlotsHeard'
  BY <1>1, <1>2
(* The callbacks of the receiving slots are registered. *)
<1>3. ASSUME removed' = removed, slots' = slots, parser' = parser, etask' = etask,
             rx_callback' = rx_callback \/ rx_callback' = Forward(Receiving)
      PROVE  SlotsHeard'
  BY <1>1, <1>3 DEF Forward, Receiving
<1>4. ASSUME NEW u \in Uarts, UartCall(u) PROVE SlotsHeard'
  <2>1. UNCHANGED <<rx_callback, slots, parser, removed>>
    BY <1>4, UartCallFrame DEF multiVars
  <2>2. \A v \in Uarts : etask'[v] \in {"kick", "lock", "parse"} => etask'[v] = etask[v]
    BY <1>4 DEF UartCall, UartInit, UartStart, UartStop, UartDeinit, StartUart, StopUart
  <2> QED BY <1>2, <2>1, <2>2
<1>5. CASE MultiCall
  <2>1. UNCHANGED <<etask, parser>>
    BY <1>5, MultiCallFrame DEF lineVars
  <2>2. ASSUME NEW u \in Uarts, NEW mode \in Modes, AddTransport(u, mode) PROVE SlotsHeard'
    <3>1. PICK i \in Slots :
            /\ slots[i] = None
            /\ slots' = [slots EXCEPT ![i] = [uart |-> u, rx |-> mode.rx, tx |-> mode.tx]]
      BY <2>2 DEF AddTransport
    <3>2. \A j \in Slots : slots[j] # None => slots'[j] = slots[j]
      BY <3>1 DEF MultiTypeOK
    <3>3. removed' = removed
      BY <2>2 DEF AddTransport, historyVars
    <3>4. \A v \in Uarts : (\E j \in Slots : Holds(j, v) /\ slots[j].rx)
                            => \E j \in Slots : Holds(j, v)' /\ slots'[j].rx
      BY <3>2
    <3>5. CASE rx_callback' = rx_callback
      BY <1>1, <2>1, <3>3, <3>4, <3>5
    <3>6. CASE rx_callback' = [rx_callback EXCEPT ![u] = Multi] /\ mode.rx
      <4>1. slots'[i] # None /\ slots'[i].uart = u /\ slots'[i].rx
        <5>1. slots'[i] = [uart |-> u, rx |-> mode.rx, tx |-> mode.tx]
          BY <3>1 DEF MultiTypeOK
        <5>2. slots'[i] \in [uart : Uarts, rx : BOOLEAN, tx : BOOLEAN]
          BY <5>1 DEF Modes
        <5>3. slots'[i].uart = u /\ slots'[i].rx = mode.rx
          BY <5>1
        <5> QED BY <3>6, <5>2, <5>3
      <4>2. \A v \in Uarts : v # u => rx_callback'[v] = rx_callback[v]
        BY <3>6
      <4>3. rx_callback'[u] = Multi
        BY <3>6
      <4> QED BY <1>1, <2>1, <3>3, <3>4, <4>1, <4>2, <4>3
    <3> QED BY <2>2, <3>5, <3>6 DEF AddTransport
  <2>3. CASE MultiInit \/ MultiMove
    BY <1>3, <2>1, <2>3 DEF MultiInit, MultiMove, uartVars, historyVars
  <2>4. ASSUME NEW u \in Uarts, RemoveTransport(u) PROVE SlotsHeard'
    <3>1. PICK i \in Slots :
            /\ Holds(i, u)
            /\ slots' = [slots EXCEPT ![i] = None]
            /\ removed' = IF slots[i].rx THEN removed \cup {u} ELSE removed
      BY <2>4 DEF RemoveTransport
    <3>2. rx_callback' = rx_callback
      BY <2>4 DEF RemoveTransport, uartVars
    <3>3. \A j \in Slots \ {i} : slots'[j] = slots[j]
      BY <3>1 DEF MultiTypeOK
    <3>4. \A v \in Uarts : v \in removed \/ (\E j \in Slots : Holds(j, v) /\ slots[j].rx)
            => v \in removed' \/ \E j \in Slots : Holds(j, v)' /\ slots'[j].rx
      BY <3>1, <3>3
    <3> QED BY <1>1, <2>1, <3>2, <3>4
  <2> QED BY <1>5, <2>2, <2>3, <2>4 DEF MultiCall
<1>6. CASE CommInner \/ Timeout \/ (\E s \in Senders : Send(s)) \/ UNCHANGED vars
  <2>1. UNCHANGED <<rx_callback, etask, slots, removed>> /\ parser' \subseteq parser
    BY <1>6, CommInnerFrame, SendFrame
       DEF Timeout, vars, uartVars, multiVars, lineVars, historyVars
  <2> QED BY <1>2, <2>1
<1>7. CASE CommOuter
  <2>1. UNCHANGED <<parser, slots, removed>>
    BY <1>7, CommOuterFrame DEF lineVars
  <2>2. CASE CommInit
    BY <1>3, <2>1, <2>2 DEF CommInit, SetRxCallback
  <2>3. CASE CommStartTransport
    BY <1>2, <2>1, <2>3 DEF CommStartTransport
  <2>4. ASSUME NEW next, CommStop(next) PROVE SlotsHeard'
    BY <1>2, <2>1, <2>4 DEF CommStop
  <2> QED BY <1>7, <2>2, <2>3, <2>4 DEF CommOuter
<1>8. ASSUME NEW u \in Uarts, EventTask(u) PROVE SlotsHeard'
  <2>1. UNCHANGED <<rx_callback, slots, removed>>
    BY <1>8, EventFrame DEF uartVars, multiVars, historyVars
  <2> QED BY <1>1, <1>8, <2>1, EventMoves DEF Heard
<1> QED BY <1>4, <1>5, <1>6, <1>7, <1>8, NextCases

LEMMA StepDriverThere ==
  ASSUME UartTypeOK, CommTypeOK, DriverThere, Next
  PROVE  DriverThere'
<1> USE DEF UartTypeOK, CommTypeOK, DriverThere
<1>1. ASSUME NEW u \in Uarts, StopUart(u), driver' = driver PROVE DriverThere'
  BY <1>1 DEF StopUart
<1>2. ASSUME NEW u \in Uarts, ustate[u] \in CanStart, StartUart(u), UNCHANGED <<driver, stray>>
      PROVE  DriverThere'
  BY <1>2 DEF StartUart, CanStart
<1>3. ASSUME NEW u \in Uarts, UartCall(u) PROVE DriverThere'
  <2>1. CASE UartInit(u)
    BY <2>1 DEF UartInit, historyVars
  <2>2. CASE UartStart(u)
    BY <1>2, <2>2 DEF UartStart
  <2>3. CASE UartStop(u)
    BY <1>1, <2>3 DEF UartStop
  <2>4. CASE UartDeinit(u)
    BY <2>4 DEF UartDeinit, historyVars
  <2> QED BY <1>3, <2>1, <2>2, <2>3, <2>4 DEF UartCall
<1>4. ASSUME UNCHANGED <<ustate, driver, etask, stray>> PROVE DriverThere'
  BY <1>4
<1>5. CASE CommOuter
  <2>1. CASE CommInit
    BY <1>4, <2>1 DEF CommInit, historyVars
  <2>2. CASE CommStartTransport
    <3>1. CASE UNCHANGED <<ustate, etask>>
      BY <1>4, <2>2, <3>1 DEF CommStartTransport, historyVars
    <3>2. CASE transport \in Uarts /\ ustate[transport] \in CanStart /\ StartUart(transport)
      BY <1>2, <2>2, <3>2 DEF CommStartTransport, historyVars
    <3> QED BY <2>2, <3>1, <3>2 DEF CommStartTransport
  <2>3. ASSUME NEW next, CommStop(next) PROVE DriverThere'
    <3>1. CASE transport = Multi
      BY <1>4, <2>3, <3>1 DEF CommStop
    <3>2. CASE transport \in Uarts /\ StopUart(transport)
      BY <1>1, <2>3, <3>2 DEF CommStop
    <3> QED BY <2>3, <3>1, <3>2 DEF CommStop
  <2> QED BY <1>5, <2>1, <2>2, <2>3 DEF CommOuter
<1>6. ASSUME NEW u \in Uarts, EventTask(u) PROVE DriverThere'
  <2>1. UNCHANGED <<ustate, driver, stray>>
    BY <1>6, EventFrame DEF uartVars, historyVars
  <2> QED BY <1>6, <2>1, EventMoves
<1>7. CASE MultiCall \/ CommInner \/ Timeout \/ (\E s \in Senders : Send(s)) \/ UNCHANGED vars
  <2>1. UNCHANGED <<ustate, driver, etask, stray>>
    BY <1>7, MultiCallFrame, CommInnerFrame, SendFrame
       DEF Timeout, vars, uartVars, historyVars
  <2> QED BY <1>4, <2>1
<1> QED BY <1>3, <1>5, <1>6, <1>7, NextCases

(* A UART that is heard stays so: no callback is ever taken back. *)
LEMMA HeardStays ==
  ASSUME UartTypeOK, CommTypeOK, OneUart, SlotsHeard, Next, NEW u \in Uarts, Heard(u)
  PROVE  Heard(u)'
<1> USE LifecycleAssumption DEF UartTypeOK, CommTypeOK, Heard
<1>1. CASE UNCHANGED <<rx_callback, attached>>
  BY <1>1
<1>2. CASE transport = Multi /\ (attached' = attached \/ attached' = TRUE)
           /\ \A v \in Uarts : rx_callback'[v] \in {rx_callback[v], Multi}
  BY <1>2 DEF SlotsHeard
<1>3. CASE MultiCall
  <2>1. attached' = attached
    BY <1>3, MultiCallFrame
  <2>2. ASSUME NEW v \in Uarts, NEW mode \in Modes, AddTransport(v, mode) PROVE Heard(u)'
    BY <1>2, <2>1, <2>2 DEF AddTransport
  <2>3. CASE MultiInit
    BY <1>2, <2>1, <2>3 DEF MultiInit, Forward
  <2>4. CASE (\E v \in Uarts : RemoveTransport(v)) \/ MultiMove
    BY <1>1, <2>1, <2>4 DEF RemoveTransport, MultiMove, uartVars
  <2> QED BY <1>3, <2>2, <2>3, <2>4 DEF MultiCall
<1>4. CASE CommOuter
  <2>1. CASE CommInit
    <3>1. CASE transport = Multi
      BY <1>2, <2>1, <3>1 DEF CommInit, SetRxCallback, Forward
    <3>2. CASE transport \in Uarts
      BY <2>1, <3>2 DEF CommInit, SetRxCallback, OneUart
    <3> QED BY <3>1, <3>2
  <2>2. CASE CommStartTransport \/ \E next : CommStop(next)
    BY <1>1, <2>2 DEF CommStartTransport, CommStop
  <2> QED BY <1>4, <2>1, <2>2 DEF CommOuter
<1>5. CASE \/ (\E v \in Uarts : UartCall(v) \/ EventTask(v)) \/ CommInner \/ Timeout
           \/ (\E s \in Senders : Send(s)) \/ UNCHANGED vars
  <2>1. UNCHANGED <<rx_callback, attached>>
    BY <1>5, UartCallFrame, EventFrame, CommInnerFrame, SendFrame
       DEF Timeout, vars, uartVars, multiVars
  <2> QED BY <1>1, <2>1
<1> QED BY <1>3, <1>4, <1>5, NextCases

(* Only its own steps take an event task into a callback. *)
LEMMA CallbackEntered ==
  ASSUME UartTypeOK, CommTypeOK, Next, NEW u \in Uarts, ~EventTask(u),
         etask'[u] \notin {"none", "wait"}
  PROVE  etask'[u] = etask[u]
<1> USE DEF UartTypeOK, CommTypeOK
<1>1. ASSUME NEW v \in Uarts, UartCall(v) PROVE etask'[u] = etask[u]
  BY <1>1 DEF UartCall, UartInit, UartStart, UartStop, UartDeinit, StartUart, StopUart
<1>2. CASE CommOuter
  BY <1>2 DEF CommOuter, CommInit, CommStartTransport, CommStop, StartUart, StopUart
<1>3. ASSUME NEW v \in Uarts \ {u}, EventTask(v) PROVE etask'[u] = etask[u]
  BY <1>3, EventMoves
<1>4. CASE MultiCall \/ CommInner \/ Timeout \/ (\E s \in Senders : Send(s)) \/ UNCHANGED vars
  BY <1>4, MultiCallFrame, CommInnerFrame, SendFrame DEF Timeout, vars
<1> QED BY <1>1, <1>2, <1>3, <1>4, NextCases

LEMMA StepHeardInside ==
  ASSUME UartTypeOK, CommTypeOK, OneUart, SlotsHeard, HeardInside, Next
  PROVE  HeardInside'
<1> USE DEF HeardInside
<1> SUFFICES ASSUME NEW u \in Uarts,
                    etask'[u] \in {"kick", "lock", "parse", "enqueue", "queue"}
             PROVE  Heard(u)
  BY HeardStays
<1>1. CASE EventTask(u)
  BY <1>1, EventMoves
<1>2. CASE ~EventTask(u)
  BY <1>2, CallbackEntered
<1> QED BY <1>1, <1>2

LEMMA StepExposedSeen ==
  ASSUME IInv, Next
  PROVE  ExposedSeen'
<1>1. CASE exposed' = (exposed \/ Bare')
  BY <1>1, Zenon DEF ExposedSeen
<1>2. CASE UNCHANGED vars
  BY <1>2 DEF IInv, ExposedSeen, Bare, Heard, vars, uartVars, multiVars, commVars
<1> QED BY <1>1, <1>2, ExposedStep

LEMMA StepHoldsToParse ==
  ASSUME UartTypeOK, CommTypeOK, StackWhole, HeardInside, ExposedSeen, HoldsToParse, Next
  PROVE  HoldsToParse'
<1> USE LifecycleAssumption DEF UartTypeOK, CommTypeOK, HoldsToParse
<1>e. exposed => exposed'
  BY ExposedStep, Zenon DEF vars
<1> SUFFICES ASSUME ~exposed, NEW u \in Uarts, etask'[u] = "parse" PROVE holder' = u
  BY <1>e
<1>1. ASSUME etask[u] = "parse", holder' = holder PROVE holder' = u
  BY <1>1
<1>2. CASE EventTask(u)
  BY <1>2 DEF EventTask, EventData, EventOverflow, EventNoDriver, Kick, Lock, Parse,
     EnqueueCheck, EnqueueSend, EventStep, Goto, Fault
<1>3. CASE ~EventTask(u)
  <2>1. etask[u] = "parse" /\ holder = u
    BY <1>3, CallbackEntered
  <2>2. ASSUME NEW v \in Uarts, EventTask(v) PROVE holder' = u
    <3>1. v # u
      BY <1>3, <2>2
    <3> QED BY <2>1, <2>2, <3>1
        DEF EventTask, EventData, EventOverflow, EventNoDriver, Kick, Lock, Parse,
            EnqueueCheck, EnqueueSend, EventStep, Fault
  <2>3. ASSUME NEW v \in Uarts, UartCall(v) PROVE holder' = u
    BY <2>1, <2>3 DEF UartCall, UartInit, UartStart, UartStop, UartDeinit, StopUart
  <2>4. ~CommInit
    <3>1. live = Handles
      BY <2>1 DEF HeardInside, ExposedSeen, Bare
    <3> QED BY <3>1 DEF CommInit, Call, StackWhole, Clean, Whole, Remains, Handles
  <2>5. CASE CommOuter
    BY <2>1, <2>4, <2>5 DEF CommOuter, CommStartTransport, CommStop, StopUart
  <2>6. CASE \/ MultiCall \/ CommInner \/ Timeout \/ (\E s \in Senders : Send(s))
             \/ UNCHANGED vars
    BY <2>1, <2>6, MultiCallFrame, CommInnerFrame, SendFrame DEF Timeout, vars
  <2> QED BY <2>2, <2>3, <2>5, <2>6, NextCases
<1> QED BY <1>2, <1>3

LEMMA StepTaskOwned ==
  ASSUME UartTypeOK, CommTypeOK, StackWhole, OneUart, DriverThere, TaskOwned, Next
  PROVE  TaskOwned'
<1> USE LifecycleAssumption DEF UartTypeOK, CommTypeOK
<1> DEFINE T == transport
<1>1. T' = T
  BY TransportKept
<1>2. own \subseteq own' /\ stray \subseteq stray'
  <2>1. CASE CommOuter
    BY <2>1, CommOuterFrame
       DEF CommOuter, CommInit, CommStartTransport, CommStop, StopUart, historyVars
  <2>2. CASE ~CommOuter
    BY <2>2, NextCases, UartCallFrame, MultiCallFrame, CommInnerFrame, EventFrame, SendFrame
       DEF Timeout, vars, historyVars
  <2> QED BY <2>1, <2>2
<1> SUFFICES ASSUME T \in Uarts, T \notin own', T \notin stray', etask'[T] # "none"
             PROVE  /\ running' /\ apc' = "idle" /\ driver'[T]
                    /\ etask'[T] = "parse" => holder' = T
  BY <1>1 DEF TaskOwned
<1> DEFINE Owned == /\ running' /\ apc' = "idle" /\ driver'[T]
                    /\ etask'[T] = "parse" => holder' = T
<1> SUFFICES Owned
  OBVIOUS
<1> HIDE DEF Owned, T
<1>3. T = transport /\ T \in Uarts \ (own \cup stray)
  BY <1>2 DEF T
<1>4. etask[T] # "none" => /\ running /\ apc = "idle" /\ driver[T]
                           /\ etask[T] = "parse" => holder = T
  BY <1>3 DEF TaskOwned
<1>5. ASSUME etask[T] # "none", UNCHANGED <<running, apc, driver>>,
             etask'[T] = "parse" => (etask[T] = "parse" /\ holder' = holder) \/ holder' = T
      PROVE  Owned
  BY <1>4, <1>5 DEF Owned
<1>6. ASSUME NEW u \in Uarts, UartCall(u) PROVE Owned
  <2>1. u = T /\ UNCHANGED <<running, apc>>
    BY <1>3, <1>6, UartCallFrame, LifecycleAssumption DEF commVars
  <2>2. CASE UartInit(u)
    <3>1. etask[T] # "none" /\ etask' = etask /\ holder' = holder /\ driver'[T]
      BY <1>6, <2>1, <2>2 DEF UartInit
    <3> QED BY <1>4, <2>1, <3>1 DEF Owned
  <2>3. CASE UartStart(u)
    BY <2>1, <2>3 DEF UartStart
  <2>4. CASE UartStop(u) \/ UartDeinit(u)
    BY <2>1, <2>4 DEF UartStop, UartDeinit, StopUart
  <2> QED BY <1>6, <2>2, <2>3, <2>4 DEF UartCall
<1>7. CASE MultiCall
  <2>1. UNCHANGED <<running, apc, driver, etask, holder>>
    BY <1>7, MultiCallFrame DEF commVars
  <2> QED BY <1>5, <2>1
<1>8. CASE CommInner
  <2>1. UNCHANGED <<driver, etask, holder>>
    BY <1>8, CommInnerFrame DEF uartVars
  <2>2. running /\ apc = "idle"
    BY <1>4, <2>1
  <2>3. FALSE
    BY <1>8, <2>2 DEF CommInner, CommInitFail, CommStart, CommStartRefused, CommStopped,
       CommDeinit, CommDeinitDispatcher, CommCleanup, StackWhole, Whole
  <2> QED BY <2>3
<1>9. CASE CommOuter
  <2>1. driver' = driver
    BY <1>9, CommOuterFrame
  <2>2. CASE CommInit
    BY <1>4, <2>2 DEF CommInit, StackWhole, Whole
  <2>3. CASE CommStartTransport
    <3>1. apc = "start_transport" /\ ~running
      BY <2>3 DEF CommStartTransport, StackWhole
    <3>2. etask[T] = "none"
      BY <1>4, <3>1
    <3>3. ustate[T] \in CanStart /\ StartUart(T) /\ running' = TRUE /\ apc' = "idle"
      BY <1>3, <2>3, <3>2 DEF CommStartTransport
    <3>4. driver[T]
      BY <1>3, <3>3 DEF DriverThere, CanStart
    <3>5. etask'[T] = "wait"
      BY <1>3, <3>3 DEF StartUart
    <3> QED BY <2>1, <3>3, <3>4, <3>5 DEF Owned
  <2>4. ASSUME NEW next, CommStop(next) PROVE Owned
    BY <1>3, <2>4 DEF CommStop, StopUart
  <2> QED BY <1>9, <2>2, <2>3, <2>4 DEF CommOuter
<1>10. ASSUME NEW u \in Uarts, EventTask(u) PROVE Owned
  <2>1. u = T /\ etask[T] # "none"
    BY <1>3, <1>10, EventMoves DEF OneUart
  <2>2. UNCHANGED <<running, apc, driver>>
    BY <1>10, EventFrame DEF uartVars, commVars, appVars
  <2>3. etask'[T] = "parse" => (etask[T] = "parse" /\ holder' = holder) \/ holder' = T
    BY <1>3, <1>10, <2>1 DEF EventTask, EventData, EventOverflow, EventNoDriver, Kick, Lock,
       Parse, EnqueueCheck, EnqueueSend, EventStep, Goto, Fault
  <2> QED BY <1>5, <2>1, <2>2, <2>3
<1>11. CASE Timeout \/ (\E s \in Senders : Send(s)) \/ UNCHANGED vars
  <2>1. UNCHANGED <<running, apc, driver, etask, holder>>
    BY <1>11, SendFrame DEF Timeout, vars, uartVars, commVars, appVars
  <2> QED BY <1>5, <2>1
<1> QED BY <1>6, <1>7, <1>8, <1>9, <1>10, <1>11, NextCases

(* What has been done stays done. *)
LEMMA HistoryGrows ==
  ASSUME Next
  PROVE  /\ late => late'
         /\ exposed => exposed'
         /\ own \subseteq own' /\ stray \subseteq stray'
<1>e. exposed => exposed'
  BY ExposedStep, Zenon DEF vars
<1>1. CASE CommOuter
  BY <1>1, <1>e, CommOuterFrame
     DEF CommOuter, CommInit, CommStartTransport, CommStop, StopUart, historyVars
<1>2. CASE CommInner
  <2>1. UNCHANGED <<own, stray>>
    BY <1>2, CommInnerFrame
  <2>2. late => late'
    BY <1>2, Zenon DEF CommInner, CommInitFail, CommStart, CommStartRefused, CommStopped,
       CommDeinit, CommDeinitDispatcher, CommCleanup, historyVars
  <2> QED BY <2>1, <2>2, <1>e
<1>3. CASE ~CommOuter /\ ~CommInner
  BY <1>3, <1>e, NextCases, UartCallFrame, MultiCallFrame, EventFrame, SendFrame
     DEF Timeout, vars, historyVars
<1> QED BY <1>1, <1>2, <1>3

LEMMA StepSenderInside ==
  ASSUME SendTypeOK, StackWhole, SenderInside, Next
  PROVE  SenderInside'
<1> USE DEF SendTypeOK, SenderInside
<1> SUFFICES ASSUME ~late, ~late' PROVE SenderInside'
  BY HistoryGrows
<1>1. ASSUME UNCHANGED <<spc, initialized, sending>> PROVE SenderInside'
  BY <1>1
<1>2. CASE CommInner
  <2>1. UNCHANGED <<spc, sending>>
    BY <1>2, CommInnerFrame DEF sendVars
  <2>2. CASE CommCleanup
    BY <2>1, <2>2 DEF CommCleanup
  <2>3. CASE ~CommCleanup
    <3>1. initialized' = initialized
      BY <1>2, <2>3 DEF CommInner, CommInitFail, CommStart, CommStartRefused, CommStopped,
         CommDeinit, CommDeinitDispatcher, commVars
    <3> QED BY <1>1, <2>1, <3>1
  <2> QED BY <2>2, <2>3
<1>3. CASE CommOuter
  <2>1. CASE CommInit
    BY <2>1 DEF CommInit
  <2>2. CASE ~CommInit
    BY <1>1, <1>3, <2>2 DEF CommOuter, CommStartTransport, CommStop, commVars, sendVars
  <2> QED BY <2>1, <2>2
<1>4. ASSUME NEW s \in Senders, Send(s) PROVE SenderInside'
  <2>1. initialized' = initialized
    BY <1>4, SendFrame DEF commVars
  <2>2. CASE SendBegin(s)
    BY <2>1, <2>2 DEF SendBegin, SendStep, StackWhole, Whole
  <2>3. CASE SendTake(s)
    BY <2>1, <2>3, LifecycleAssumption DEF SendTake, SendStep, Fault, sendVars
  <2>4. CASE WriteRefused(s) \/ Write(s) \/ Drain(s)
    <3>1. spc[s][1] \notin {"idle", "take"}
      BY <2>4, LifecycleAssumption DEF WriteRefused, Write, Drain
    <3> QED BY <2>1, <2>4, <3>1 DEF WriteRefused, Write, Drain, SendStep
  <2>5. CASE SendDone(s)
    BY <2>1, <2>5 DEF SendDone, SendStep, Fault, sendVars
  <2> QED BY <1>4, <2>2, <2>3, <2>4, <2>5 DEF Send
<1>5. CASE \/ (\E u \in Uarts : UartCall(u) \/ EventTask(u)) \/ MultiCall \/ Timeout
           \/ UNCHANGED vars
  <2>1. UNCHANGED <<spc, initialized, sending>>
    BY <1>5, UartCallFrame, MultiCallFrame, EventFrame DEF Timeout, vars, commVars, sendVars
  <2> QED BY <1>1, <2>1
<1> QED BY <1>2, <1>3, <1>4, <1>5, NextCases

LEMMA StepDriven ==
  ASSUME UartTypeOK, SendTypeOK, Driven, Next
  PROVE  Driven'
<1> USE LifecycleAssumption DEF UartTypeOK, SendTypeOK, Driven
<1> SUFFICES ASSUME ~late, ~late' PROVE Driven'
  BY HistoryGrows
<1>1. ASSUME spc' = spc, \A u \in Uarts : de'[u] => de[u] PROVE Driven'
  BY <1>1
<1>2. ASSUME NEW u \in Uarts, UartCall(u) PROVE Driven'
  BY <1>1, <1>2, UartCallFrame
     DEF UartCall, UartInit, UartStart, UartStop, UartDeinit, sendVars
<1>3. CASE \/ MultiCall \/ CommInner \/ CommOuter \/ (\E u \in Uarts : EventTask(u)) \/ Timeout
           \/ UNCHANGED vars
  <2>1. UNCHANGED <<spc, de>>
    BY <1>3, MultiCallFrame, CommInnerFrame, CommOuterFrame, EventFrame DEF Timeout, vars, sendVars
  <2> QED BY <1>1, <2>1
<1>4. ASSUME NEW s \in Senders, Send(s) PROVE Driven'
  <2>1. CASE SendBegin(s) \/ SendTake(s) \/ WriteRefused(s) \/ SendDone(s)
    <3>1. spc[s][1] \notin Uarts /\ de' = de
      BY <2>1 DEF SendBegin, SendTake, WriteRefused, SendDone, Fault, sendVars
    <3>2. \A r \in Senders \ {s} : spc'[r] = spc[r]
      BY <2>1 DEF SendBegin, SendTake, WriteRefused, SendDone, SendStep, Fault, sendVars
    <3> QED BY <3>1, <3>2
  <2>2. CASE Write(s)
    <3> DEFINE i == spc[s][2]
    <3>1. spc[s][1] \notin Uarts
      BY <2>2 DEF Write
    <3>2. \/ de' = de /\ spc' = [spc EXCEPT ![s] = <<"write", i + 1>>]
          \/ \E u : de' = [de EXCEPT ![u] = TRUE] /\ spc' = [spc EXCEPT ![s] = <<u, i>>]
      BY <2>2 DEF Write, SendStep
    <3> QED BY <3>1, <3>2
  <2>3. CASE Drain(s)
    BY <2>3 DEF Drain, SendStep
  <2> QED BY <1>4, <2>1, <2>2, <2>3 DEF Send
<1> QED BY <1>2, <1>3, <1>4, NextCases

(* None of the handles is used too late. *)
LEMMA StepFaultOnly ==
  ASSUME IInv, Next, OneUart', StackWhole', TaskOwned', CommTypeOK'
  PROVE  FaultOnlyByLateUse'
<1> USE LifecycleAssumption DEF IInv, TypeOK
<1>1. /\ transport' = transport /\ (late => late') /\ (exposed => exposed')
      /\ own \subseteq own' /\ stray \subseteq stray'
  BY TransportKept, HistoryGrows
<1>2. ASSUME ~fault, fault', ~late, ~exposed, ~\E u \in stray : transport \in {u, Multi}
      PROVE  FALSE
  <2>1. initialized => watchdog /\ {"tx", "parser"} \subseteq live
    BY DEF StackWhole
  <2>2. ASSUME NEW u \in Uarts, EventTask(u) PROVE FALSE
    <3>1. etask[u] # "none" /\ transport \in {u, Multi}
      BY <2>2, EventMoves DEF OneUart, CommTypeOK
    <3>2. driver[u]
      BY <1>2, <3>1 DEF DriverThere
    <3>3. ASSUME etask[u] \in {"kick", "lock", "parse", "enqueue", "queue"}
          PROVE  live = Handles /\ watchdog
      <4>1. live = Handles
        BY <1>2, <3>3 DEF HeardInside, ExposedSeen, Bare
      <4> QED BY <4>1 DEF StackWhole, Whole, Clean, Remains, Handles
    <3>4. CASE EventData(u) \/ EventOverflow(u) \/ EventNoDriver(u)
      BY <1>2, <3>2, <3>4 DEF EventData, EventOverflow, EventNoDriver, EventStep
    <3>5. CASE Kick(u) \/ Lock(u)
      BY <1>2, <3>3, <3>5 DEF Kick, Lock, EventStep, Handles
    <3>6. CASE Parse(u)
      BY <1>2, <3>3, <3>6 DEF Parse, EventStep, Handles, HoldsToParse
    <3>7. CASE EnqueueCheck(u) \/ EnqueueSend(u)
      BY <1>2, <3>3, <3>7 DEF EnqueueCheck, EnqueueSend, EventStep, Handles
    <3> QED BY <2>2, <3>4, <3>5, <3>6, <3>7 DEF EventTask
  <2>3. ASSUME NEW s \in Senders, Send(s) PROVE FALSE
    <3>1. CASE SendBegin(s) \/ WriteRefused(s) \/ Write(s) \/ Drain(s)
      BY <1>2, <3>1 DEF SendBegin, WriteRefused, Write, Drain, SendStep
    <3>2. CASE SendTake(s) \/ SendDone(s)
      <4>1. initialized
        BY <1>2, <3>2 DEF SendTake, SendDone, SenderInside
      <4>2. spc[s][1] = "write" => sending = s
        BY <1>2 DEF SenderInside
      <4> QED BY <1>2, <2>1, <3>2, <4>1, <4>2 DEF SendTake, SendDone, SendStep
    <3> QED BY <2>3, <3>1, <3>2 DEF Send
  <2> QED BY <1>2, <2>2, <2>3, NextCases, UartCallFrame, MultiCallFrame, CommInnerFrame,
      CommOuterFrame DEF Timeout, vars
<1>3. fault' => late' \/ exposed' \/ \E u \in stray' : transport' \in {u, Multi}
  <2>1. CASE fault
    BY <1>1, <2>1 DEF FaultOnlyByLateUse
  <2> QED BY <1>1, <1>2, <2>1
<1>4. ASSUME exposed', ~exposed, transport \in Uarts \ (own' \cup stray') PROVE FALSE
  <2>1. Bare'
    BY <1>4, ExposedStep, Zenon DEF vars
  <2>2. PICK u \in Uarts : etask'[u] # "none"
    BY <2>1 DEF Bare
  <2>3. u = transport'
    BY <1>1, <1>4, <2>2 DEF OneUart
  <2>4. running'
    BY <1>1, <1>4, <2>2, <2>3 DEF TaskOwned
  <2>5. live' = Handles
    BY <2>4 DEF StackWhole, Whole, Handles
  <2> QED BY <2>1, <2>5 DEF Bare, Handles
<1>5. exposed' => transport' = Multi \/ transport' \in own' \cup stray'
  <2>1. CASE exposed
    BY <1>1, <2>1 DEF FaultOnlyByLateUse
  <2>2. CASE ~exposed
    BY <1>1, <1>4, <2>2 DEF CommTypeOK
  <2> QED BY <2>1, <2>2
<1> QED BY <1>3, <1>5 DEF FaultOnlyByLateUse

LEMMA StepIInv == IInv /\ [Next]_vars => IInv'
<1> SUFFICES ASSUME IInv, [Next]_vars PROVE IInv'
  OBVIOUS
<1>1. CASE Next
  <2> USE <1>1 DEF IInv
  <2>1. /\ UartTypeOK /\ MultiTypeOK /\ CommTypeOK /\ SendTypeOK /\ CountTypeOK /\ FlagTypeOK
    BY DEF TypeOK
  <2>2. UartTypeOK' /\ MultiTypeOK' /\ CommTypeOK'
    BY <2>1, StepUartTyped, StepMultiTyped, StepCommTyped
  <2>3. SendTypeOK' /\ AtSlot' /\ CountTypeOK' /\ FlagTypeOK'
    BY <2>1, StepSendTyped, StepCountTyped, StepFlagTyped
  <2>4. StackWhole' /\ OneUart' /\ SlotsHeard' /\ DriverThere'
    BY <2>1, StepStackWhole, StepOneUart, StepSlotsHeard, StepDriverThere
  <2>a. HeardInside' /\ HoldsToParse'
    BY <2>1, StepHeardInside, StepHoldsToParse
  <2>b. ExposedSeen'
    BY StepExposedSeen
  <2>5. TaskOwned' /\ SenderInside' /\ Driven'
    BY <2>1, StepTaskOwned, StepSenderInside, StepDriven
  <2>6. TypeOK'
    BY <2>2, <2>3, <2>4 DEF TypeOK, StackWhole, Whole
  <2>7. FaultOnlyByLateUse'
    BY <2>2, <2>4, <2>5, StepFaultOnly
  <2> QED BY <2>3, <2>4, <2>5, <2>6, <2>7, <2>a, <2>b
<1>2. CASE UNCHANGED vars
  <2> USE <1>2 DEF IInv, vars, uartVars, multiVars, commVars, historyVars, lineVars, sendVars,
          appVars
  <2>1. UartTypeOK' /\ MultiTypeOK' /\ CommTypeOK' /\ SendTypeOK' /\ CountTypeOK'
    BY DEF TypeOK, UartTypeOK, MultiTypeOK, CommTypeOK, SendTypeOK, CountTypeOK
  <2>2. FlagTypeOK'
    BY Zenon DEF TypeOK, FlagTypeOK
  <2>3. StackWhole' /\ OneUart' /\ SlotsHeard' /\ DriverThere' /\ TaskOwned'
    BY DEF StackWhole, OneUart, SlotsHeard, DriverThere, TaskOwned, Holds, Whole, Clean, Remains
  <2>a. HeardInside' /\ ExposedSeen' /\ HoldsToParse'
    BY DEF HeardInside, ExposedSeen, HoldsToParse, Heard, Bare
  <2>4. SenderInside' /\ Driven' /\ AtSlot' /\ FaultOnlyByLateUse'
    BY DEF SenderInside, Driven, AtSlot, FaultOnlyByLateUse, StepAt
  <2> QED BY <2>1, <2>2, <2>3, <2>4, <2>a DEF TypeOK, StackWhole, Whole
<1> QED BY <1>1, <1>2

LEMMA Invariance == Spec => []IInv
BY InitIInv, StepIInv, PTL DEF Spec

-----------------------------------------------------------------------------
(* The theorems. *)

(* Every variable keeps its type, and the SerialComm runs only with its    *)
(* dispatcher, whatever order of calls the application makes.              *)
THEOREM TypeCorrect == Spec => []TypeOK
<1>1. IInv => TypeOK
  BY DEF IInv
<1> QED BY <1>1, Invariance, PTL

(* A null handle or a missing driver is used only after a call out of      *)
(* order: deinit() under a sender or under an event task that it does not  *)
(* stop, or a stop() of a UART before its init().                          *)
THEOREM FaultsHaveCause == Spec => []FaultOnlyByLateUse
<1>1. IInv => FaultOnlyByLateUse
  BY DEF IInv
<1> QED BY <1>1, Invariance, PTL

(* Between two calls the SerialComm is whole, clean, or what an init()     *)
(* that failed behind its dispatcher's leaves.                             *)
THEOREM DispatcherGivenBack == Spec => []DispatcherOwned
<1>1. IInv => DispatcherOwned
  BY DEF IInv, StackWhole, DispatcherOwned
<1> QED BY <1>1, Invariance, PTL

LEMMA OneMember ==
  ASSUME NEW S, \A x, y \in S : x = y
  PROVE  Cardinality(S) <= 1
<1>1. CASE S = {}
  BY <1>1, FS_EmptySet
<1>2. CASE S # {}
  <2>1. PICK x \in S : S = {x}
    BY <1>2
  <2> QED BY <2>1, FS_Singleton
<1> QED BY <1>1, <1>2

(* The parser is fed by the UARTs that were registered to be heard, and by *)
(* no slot that only sends.                                                *)
THEOREM ParserFed == Spec => []OnlyReceiversHeard
<1>1. IInv => OnlyReceiversHeard
  <2> SUFFICES ASSUME IInv, NEW u \in parser, u # transport
               PROVE  transport = Multi /\ (u \in removed \/ \E i \in Receiving : Holds(i, u))
    BY DEF OnlyReceiversHeard
  <2>1. u \in Uarts /\ transport \in Uarts \cup {Multi}
    BY DEF IInv, TypeOK, CommTypeOK
  <2>2. transport = Multi
    BY <2>1 DEF IInv, OneUart
  <2> QED BY <2>1, <2>2 DEF IInv, SlotsHeard, Receiving, Holds
<1> QED BY <1>1, Invariance, PTL

(* The transceiver of a UART drives the line only while one sender writes  *)
(* to it.                                                                  *)
THEOREM LineReleased == Spec => []TransceiverReleased
<1>1. IInv => TransceiverReleased
  <2> SUFFICES ASSUME IInv, ~late, NEW u \in Uarts
               PROVE  /\ Cardinality({s \in Senders : spc[s][1] = u}) <= 1
                      /\ de[u] => \E s \in Senders : spc[s][1] = u
    BY DEF TransceiverReleased
  <2>1. \A s, r \in {x \in Senders : spc[x][1] = u} : s = r
    BY LifecycleAssumption DEF IInv, SenderInside
  <2>2. Cardinality({s \in Senders : spc[s][1] = u}) <= 1
    BY <2>1, OneMember
  <2> QED BY <2>2 DEF IInv, Driven
<1> QED BY <1>1, Invariance, PTL
=============================================================================
