-------------------------- MODULE DispatcherProofs --------------------------
(***************************************************************************)
(* Theorems about module Dispatcher, for any number of RX tasks,           *)
(* registrars, commands, packets, registrations and stops.                 *)
(***************************************************************************)
EXTENDS Dispatcher, FiniteSetTheorems, SequenceTheorems, TLAPS

-----------------------------------------------------------------------------
(* The inductive invariant. *)

(* There is a dispatcher task between the two steps of start() and those   *)
(* of stop(), whatever running_ says meanwhile.                            *)
TaskExists ==
  /\ lpc = "idle" => (running <=> dpc # "none")
  /\ lpc = "start" => dpc # "none"
  /\ lpc = "stop" => dpc = "none"

(* The dispatcher task has a packet in hand exactly when it handles one. *)
PacketInHand == dpc \in {"none", "receive"} <=> packet = None

(* A registrar that has begun knows its command. *)
OpCommand == \A r \in Registrars : rpc[r] # "idle" => op[r].command \in Commands

(* Who reads or writes the table holds callback_mutex_. *)
MutexHeld ==
  /\ \A r \in Registrars : rpc[r] \in {"callback", "ctx", "give"} => callback_mutex = r
  /\ dpc \in {"copy", "unlock"} => callback_mutex = "dispatcher"

Whole(m) == callbacks[m].callback = callbacks[m].ctx

(* An entry is torn only between the two writes of the registrar that holds *)
(* the mutex, or for ever when stop() deleted it there with the mutex.      *)
TableWhole ==
  /\ callback_mutex \notin Registrars => \A m \in Commands : Whole(m)
  /\ \A r \in Registrars :
       /\ rpc[r] \in {"callback", "give"} => \A m \in Commands : Whole(m)
       /\ rpc[r] = "ctx" =>
            /\ callbacks[op[r].command].callback = op[r].callback
            /\ \A m \in Commands \ {op[r].command} : Whole(m)

EntryWhole == dpc \in {"unlock", "call", "called"} => entry.callback = entry.ctx

InTable(n, m) == n \in {callbacks[m].callback, callbacks[m].ctx}

(* Registration n is on its way to the table. *)
Pending(r, n) == rpc[r] \in {"take", "callback"} /\ op[r].callback = n

(* Registrations are numbered as they come. *)
Known ==
  \A n \in Registrations :
    \/ n \in revoked
    \/ \E m \in Commands : InTable(n, m)
    \/ \E r \in Registrars : op[r].callback = n
    => n <= registered

(* A registration is made by one call and stands under one command, and    *)
(* once revoked under none.                                                *)
RevokedGone == \A n \in revoked, m \in Commands : ~InTable(n, m)
OneCommand ==
  \A n \in Registrations, m1, m2 \in Commands : InTable(n, m1) /\ InTable(n, m2) => m1 = m2
OneRegistrar ==
  \A n \in Registrations, r, q \in Registrars :
    op[r].callback = n /\ op[q].callback = n => r = q
PendingNew ==
  \A n \in Registrations, r \in Registrars :
    Pending(r, n) => n \notin revoked /\ \A m \in Commands : ~InTable(n, m)

Registered == Known /\ RevokedGone /\ OneCommand /\ OneRegistrar /\ PendingNew

(* Only a revoked callback is called late, and one just copied was not. *)
Lateness ==
  /\ \A n \in Registrations : late[n] > 0 => n \in revoked
  /\ dpc \in {"unlock", "call"} /\ entry.callback # 0 => late[entry.callback] = 0
  /\ AtMostOneLateCall

KilledFinite == IsFiniteSet(killed)

IInv ==
  /\ TypeOK /\ TaskExists /\ PacketInHand /\ OpCommand
  /\ MutexHeld /\ TableWhole /\ EntryWhole
  /\ Registered /\ Lateness
  /\ KilledFinite /\ AcceptedKept

Ops == [command : Commands \cup {None}, callback : 0..MaxRegistrations]

LEMMA InitIInv == Init => IInv
<1> SUFFICES ASSUME Init PROVE IInv
  OBVIOUS
<1> USE DispatcherAssumption
<1>1. NoEntry \in Entries /\ NoOp \in Ops
  BY DEF NoEntry, NoOp, Entries, Ops
<1>2. TypeOK
  <2>1. LifeTypeOK
    <3>1. lpc \in {"idle", "start", "stop"} /\ stops \in 0..MaxStops
      BY DEF Init
    <3>2. running \in BOOLEAN /\ orphaned \in BOOLEAN
      BY Zenon DEF Init
    <3> QED BY <3>1, <3>2 DEF LifeTypeOK
  <2>2. TaskTypeOK
    BY <1>1 DEF Init, TaskTypeOK
  <2>3. ProducerTypeOK
    BY DEF Init, ProducerTypeOK
  <2>4. RegistrarTypeOK
    BY <1>1 DEF Init, RegistrarTypeOK, Ops
  <2> QED BY <2>1, <2>2, <2>3, <2>4 DEF TypeOK
<1>3. TaskExists
  BY Zenon DEF Init, TaskExists
<1>7. PacketInHand /\ OpCommand /\ MutexHeld /\ TableWhole /\ EntryWhole
  BY DEF Init, PacketInHand, OpCommand, MutexHeld, TableWhole, EntryWhole, Whole, NoEntry
<1>4. Registered
  BY DEF Init, Registered, Known, RevokedGone, OneCommand, OneRegistrar, PendingNew,
     Pending, InTable, NoEntry, NoOp, Registrations
<1>5. Lateness
  BY DEF Init, Lateness, AtMostOneLateCall, NoEntry, Registrations
<1>6. KilledFinite /\ AcceptedKept
  BY FS_EmptySet DEF Init, KilledFinite, AcceptedKept, InHand
<1> QED BY <1>2, <1>3, <1>4, <1>5, <1>6, <1>7 DEF IInv
-----------------------------------------------------------------------------
(* Type correctness, one lemma per task. *)

LEMMA LifeTyped ==
  ASSUME IInv, StartCreate \/ StartDone \/ StopDelete \/ StopDone
  PROVE  TypeOK'
<1> USE DispatcherAssumption DEF IInv, TypeOK
<1>1. LifeTypeOK'
  <2>1. lpc' \in {"idle", "start", "stop"} /\ stops' \in 0..MaxStops
    BY DEF LifeTypeOK, StartCreate, StartDone, StopDelete, StopDone
  <2>2. running' \in BOOLEAN /\ orphaned' \in BOOLEAN
    BY Zenon DEF LifeTypeOK, StartCreate, StartDone, StopDelete, StopDone, DeleteTask
  <2> QED BY <2>1, <2>2 DEF LifeTypeOK
<1>2. CASE StartCreate
  BY <1>1, <1>2 DEF StartCreate, TaskTypeOK, ProducerTypeOK, RegistrarTypeOK,
     producerVars, registrarVars
<1>3. CASE StartDone \/ StopDone
  BY <1>1, <1>3 DEF StartDone, StopDone, TaskTypeOK, ProducerTypeOK, RegistrarTypeOK,
     taskVars, producerVars, registrarVars
<1>4. CASE StopDelete
  <2>1. NoEntry \in Entries /\ NoOp \in Ops
    BY DEF NoEntry, NoOp, Entries, Ops
  <2>2. handled' \in Seq(Packets)
    <3>1. CASE packet = None
      BY <1>4, <3>1 DEF StopDelete, DeleteTask, TaskTypeOK
    <3>2. CASE packet # None
      BY <1>4, <3>2 DEF StopDelete, DeleteTask, TaskTypeOK
    <3> QED BY <3>1, <3>2
  <2>3. TaskTypeOK'
    BY <1>4, <2>1, <2>2 DEF StopDelete, DeleteTask, TaskTypeOK
  <2>4. RegistrarTypeOK'
    BY <1>4, <2>1 DEF StopDelete, DeleteTask, RegistrarTypeOK, Ops
  <2>5. ProducerTypeOK'
    BY <1>4 DEF StopDelete, ProducerTypeOK, producerVars
  <2> QED BY <1>1, <2>3, <2>4, <2>5
<1> QED BY <1>2, <1>3, <1>4

LEMMA ProducerTyped ==
  ASSUME IInv, NEW p \in Producers, EnqueueCheck(p) \/ EnqueueSend(p)
  PROVE  TypeOK'
<1> USE DispatcherAssumption DEF IInv, TypeOK
<1>1. CASE EnqueueCheck(p)
  <2>1. PICK m \in Commands :
          ppc' = IF running THEN [ppc EXCEPT ![p] = [id |-> received + 1, command |-> m]]
                 ELSE ppc
    BY <1>1 DEF EnqueueCheck
  <2>2. received + 1 \in 1..MaxPackets
    BY <1>1 DEF EnqueueCheck, ProducerTypeOK
  <2>3. [id |-> received + 1, command |-> m] \in Packets
    BY <2>2 DEF Packets
  <2>4. ProducerTypeOK'
    BY <1>1, <2>1, <2>2, <2>3 DEF EnqueueCheck, ProducerTypeOK
  <2> QED BY <1>1, <2>4 DEF EnqueueCheck, LifeTypeOK, TaskTypeOK, RegistrarTypeOK,
      lifeVars, taskVars, registrarVars
<1>2. CASE EnqueueSend(p)
  <2>1. ppc[p] \in Packets
    BY <1>2 DEF EnqueueSend, ProducerTypeOK
  <2>2. CASE Len(rx_queue) < QueueLen
    <3>1. /\ Append(rx_queue, ppc[p]) \in Seq(Packets)
          /\ Len(Append(rx_queue, ppc[p])) = Len(rx_queue) + 1
          /\ Append(accepted, ppc[p]) \in Seq(Packets)
      BY <2>1 DEF TaskTypeOK, ProducerTypeOK
    <3>2. Len(rx_queue) \in Nat /\ rx_queue' = Append(rx_queue, ppc[p])
      BY <1>2, <2>2 DEF EnqueueSend, TaskTypeOK
    <3>3. rx_queue' \in Seq(Packets) /\ Len(rx_queue') <= QueueLen
      BY <2>2, <3>1, <3>2
    <3> QED BY <1>2, <2>2, <3>1, <3>3 DEF EnqueueSend, LifeTypeOK, TaskTypeOK,
        ProducerTypeOK, RegistrarTypeOK, lifeVars, registrarVars
  <2>3. CASE ~(Len(rx_queue) < QueueLen)
    BY <1>2, <2>3 DEF EnqueueSend, LifeTypeOK, TaskTypeOK, ProducerTypeOK,
       RegistrarTypeOK, lifeVars, registrarVars
  <2> QED BY <2>2, <2>3
<1> QED BY <1>1, <1>2

LEMMA DispatcherTyped ==
  ASSUME IInv, DispatcherStep
  PROVE  TypeOK'
<1> USE DispatcherAssumption DEF IInv, TypeOK
<1>1. LifeTypeOK' /\ ProducerTypeOK'
  BY DEF DispatcherStep, Receive, Lock, Copy, Unlock, Call, Called, LifeTypeOK,
     ProducerTypeOK, lifeVars, producerVars
<1>2. RegistrarTypeOK'
  BY DEF DispatcherStep, Receive, Lock, Copy, Unlock, Call, Called, RegistrarTypeOK,
     registrarVars
<1>3. TaskTypeOK'
  <2>1. CASE Receive
    <3>1. /\ Head(rx_queue) \in Packets
          /\ Tail(rx_queue) \in Seq(Packets)
          /\ Len(Tail(rx_queue)) <= QueueLen
      BY <2>1 DEF Receive, TaskTypeOK
    <3> QED BY <2>1, <3>1 DEF Receive, TaskTypeOK
  <2>2. CASE Lock \/ Unlock
    BY <2>2 DEF Lock, Unlock, TaskTypeOK
  <2>3. CASE Copy
    <3>1. packet \in Packets
      BY <2>3 DEF Copy, TaskTypeOK, PacketInHand
    <3>2. callbacks[packet.command] \in Entries
      BY <3>1 DEF Packets, RegistrarTypeOK
    <3> QED BY <2>3, <3>2 DEF Copy, TaskTypeOK
  <2>4. CASE Call
    BY <2>4 DEF Call, TaskTypeOK, RegistrarTypeOK
  <2>5. CASE Called
    <3>1. packet \in Packets
      BY <2>5 DEF Called, TaskTypeOK, PacketInHand
    <3>2. Append(handled, packet) \in Seq(Packets)
      BY <3>1 DEF TaskTypeOK
    <3> QED BY <2>5, <3>2 DEF Called, TaskTypeOK
  <2> QED BY <2>1, <2>2, <2>3, <2>4, <2>5 DEF DispatcherStep
<1> QED BY <1>1, <1>2, <1>3

LEMMA BeginTyped ==
  ASSUME IInv, NEW r \in Registrars, Register(r) \/ Unregister(r)
  PROVE  TypeOK'
<1> USE DispatcherAssumption DEF IInv, TypeOK
<1>1. LifeTypeOK' /\ TaskTypeOK' /\ ProducerTypeOK'
  BY DEF Register, Unregister, LifeTypeOK, TaskTypeOK, ProducerTypeOK, lifeVars,
     taskVars, producerVars
<1>2. rpc' \in [Registrars -> {"idle", "take", "callback", "ctx", "give"}]
  BY DEF Register, Unregister, Begin, RegistrarTypeOK
<1>3. nested' \in Registrars \cup {None}
  BY DEF Register, Unregister, Begin, RegistrarTypeOK
<1>4. registered' \in 0..MaxRegistrations
  BY DEF Register, Unregister, RegistrarTypeOK
<1>5. op' \in [Registrars -> Ops]
  <2>1. PICK m \in Commands, n \in {0, registered'} :
          op' = [op EXCEPT ![r] = [command |-> m, callback |-> n]]
    BY DEF Register, Unregister
  <2>2. [command |-> m, callback |-> n] \in Ops
    BY <1>4 DEF Ops
  <2> QED BY <2>1, <2>2 DEF RegistrarTypeOK, Ops
<1> QED BY <1>1, <1>2, <1>3, <1>4, <1>5 DEF Register, Unregister, RegistrarTypeOK, Ops

LEMMA RegistrarTyped ==
  ASSUME IInv, NEW r \in Registrars, RegistrarStep(r)
  PROVE  TypeOK'
<1> USE DispatcherAssumption DEF IInv, TypeOK
<1>1. LifeTypeOK' /\ TaskTypeOK' /\ ProducerTypeOK'
  BY DEF RegistrarStep, Take, WriteCallback, WriteCtx, Give, LifeTypeOK, TaskTypeOK,
     ProducerTypeOK, lifeVars, taskVars, producerVars
<1>2. RegistrarTypeOK'
  <2>1. CASE Take(r)
    BY <2>1 DEF Take, RegistrarTypeOK
  <2>2. CASE WriteCallback(r)
    <3>1. op[r].command \in Commands /\ op[r].callback \in 0..MaxRegistrations
      BY <2>2 DEF WriteCallback, OpCommand, RegistrarTypeOK
    <3>2. callbacks' \in [Commands -> Entries]
      BY <2>2, <3>1 DEF WriteCallback, RegistrarTypeOK, Entries
    <3> QED BY <2>2, <3>2 DEF WriteCallback, RegistrarTypeOK
  <2>3. CASE WriteCtx(r)
    <3>1. op[r].command \in Commands /\ op[r].callback \in 0..MaxRegistrations
      BY <2>3 DEF WriteCtx, OpCommand, RegistrarTypeOK
    <3>2. callbacks' \in [Commands -> Entries]
      BY <2>3, <3>1 DEF WriteCtx, RegistrarTypeOK, Entries
    <3>3. revoked' \subseteq Registrations
      BY <2>3, <3>1 DEF WriteCtx, RegistrarTypeOK, Entries, Registrations
    <3> QED BY <2>3, <3>2, <3>3 DEF WriteCtx, RegistrarTypeOK
  <2>4. CASE Give(r)
    <3>1. NoOp \in [command : Commands \cup {None}, callback : 0..MaxRegistrations]
      BY DEF NoOp
    <3> QED BY <2>4, <3>1 DEF Give, RegistrarTypeOK
  <2> QED BY <2>1, <2>2, <2>3, <2>4 DEF RegistrarStep
<1> QED BY <1>1, <1>2

-----------------------------------------------------------------------------
(* The mutex and the table. *)

(* The parts that speak of the tasks, the mutex and the table. *)
Excluded == TaskExists /\ PacketInHand /\ OpCommand /\ MutexHeld /\ TableWhole /\ EntryWhole

LEMMA StepExcluded ==
  ASSUME IInv, Next
  PROVE  Excluded'
<1> USE DispatcherAssumption
    DEF IInv, TypeOK, TaskTypeOK, RegistrarTypeOK, Excluded, TaskExists, PacketInHand,
        OpCommand, MutexHeld, TableWhole, Whole, EntryWhole
<1>1. CASE StartCreate \/ StartDone \/ StopDone
  BY <1>1 DEF StartCreate, StartDone, StopDone, taskVars, registrarVars
<1>2. CASE StopDelete
  BY <1>2 DEF StopDelete, DeleteTask
<1>3. ASSUME NEW p \in Producers, EnqueueCheck(p) \/ EnqueueSend(p) PROVE Excluded'
  BY <1>3 DEF EnqueueCheck, EnqueueSend, lifeVars, taskVars, registrarVars
<1>4. CASE Receive
  <2>1. Head(rx_queue) \in Packets
    BY <1>4 DEF Receive
  <2>2. None \notin Packets
    BY DEF Packets
  <2> QED BY <1>4, <2>1, <2>2 DEF Receive, registrarVars, lifeVars
<1>5. CASE Lock \/ Call \/ Called
  BY <1>5 DEF Lock, Call, Called, registrarVars, lifeVars
<1>6. CASE Copy
  <2>1. packet.command \in Commands
    BY <1>6 DEF Copy, PacketInHand, Packets
  <2> QED BY <1>6, <2>1 DEF Copy, registrarVars, lifeVars
<1>7. CASE Unlock
  BY <1>7 DEF Unlock, registrarVars, lifeVars
<1>8. ASSUME NEW r \in Registrars, Register(r) \/ Unregister(r) PROVE Excluded'
  <2>1. PICK m \in Commands, n \in {0, registered + 1} :
          op' = [op EXCEPT ![r] = [command |-> m, callback |-> n]]
    BY <1>8 DEF Register, Unregister
  <2>2. /\ rpc' = [rpc EXCEPT ![r] = "take"]
        /\ UNCHANGED <<running, lpc, dpc, packet, entry, callbacks, callback_mutex>>
    BY <1>8 DEF Register, Unregister, Begin, lifeVars, taskVars
  <2>3. TaskExists' /\ PacketInHand' /\ EntryWhole'
    BY <2>2
  <2>4. OpCommand' /\ MutexHeld'
    BY <2>1, <2>2
  <2>5. TableWhole'
    <3>1. \A q \in Registrars : rpc'[q] \in {"callback", "ctx", "give"}
             => rpc[q] = rpc'[q] /\ op'[q] = op[q]
      BY <2>1, <2>2
    <3> QED BY <2>2, <3>1
  <2> QED BY <2>3, <2>4, <2>5
<1>9. ASSUME NEW r \in Registrars, RegistrarStep(r) PROVE Excluded'
  <2>1. CASE Take(r)
    BY <2>1 DEF Take, lifeVars, taskVars
  <2>2. CASE WriteCallback(r)
    BY <2>2 DEF WriteCallback, lifeVars, taskVars, Entries
  <2>3. CASE WriteCtx(r)
    BY <2>3 DEF WriteCtx, lifeVars, taskVars, Entries
  <2>4. CASE Give(r)
    BY <2>4 DEF Give, lifeVars, taskVars
  <2> QED BY <1>9, <2>1, <2>2, <2>3, <2>4 DEF RegistrarStep
<1>10. CASE Finished
  BY <1>10 DEF Finished, vars, lifeVars, taskVars, registrarVars
<1> QED BY <1>1, <1>2, <1>3, <1>4, <1>5, <1>6, <1>7, <1>8, <1>9, <1>10
    DEF Next, DispatcherStep
-----------------------------------------------------------------------------
(* Registrations and the callbacks called late. *)

(* What registers nothing changes nothing of it. *)
LEMMA RegisteredUnchanged ==
  ASSUME Registered, UNCHANGED <<callbacks, op, revoked, registered>>,
         \A r \in Registrars : rpc'[r] \in {"take", "callback"} => rpc'[r] = rpc[r]
  PROVE  Registered'
BY DEF Registered, Known, RevokedGone, OneCommand, OneRegistrar, PendingNew, Pending, InTable

(* A registrar that lets go of what it was doing frees no registration.    *)
LEMMA RegisteredDropped ==
  ASSUME TypeOK, Registered, UNCHANGED <<callbacks, revoked, registered>>,
         \A r \in Registrars :
           \/ rpc'[r] = rpc[r] /\ op'[r] = op[r]
           \/ rpc'[r] = "idle" /\ op'[r] = NoOp
  PROVE  Registered'
<1>1. \A r \in Registrars, n \in Registrations : op'[r].callback = n => op[r].callback = n
  BY DEF NoOp, Registrations
<1>2. \A r \in Registrars, n \in Registrations : Pending(r, n)' => Pending(r, n)
  BY DEF Pending, NoOp, Registrations
<1>3. \A n \in Registrations, m \in Commands : InTable(n, m)' <=> InTable(n, m)
  BY DEF InTable
<1>4. Known' /\ RevokedGone' /\ OneCommand'
  BY <1>1, <1>3 DEF TypeOK, RegistrarTypeOK, Registered, Known, RevokedGone, OneCommand
<1>5. OneRegistrar' /\ PendingNew'
  BY <1>1, <1>2, <1>3 DEF Registered, OneRegistrar, PendingNew
<1> QED BY <1>4, <1>5 DEF Registered

LEMMA RegisterRegistered ==
  ASSUME IInv, NEW r \in Registrars, Register(r)
  PROVE  Registered'
<1> USE DispatcherAssumption DEF IInv, TypeOK, RegistrarTypeOK, Registered
<1> DEFINE n == registered + 1
<1>1. PICK m \in Commands : op' = [op EXCEPT ![r] = [command |-> m, callback |-> n]]
  BY DEF Register
<1>2. /\ n \in Registrations /\ registered' = n
      /\ rpc' = [rpc EXCEPT ![r] = "take"]
      /\ UNCHANGED <<callbacks, revoked>>
  BY DEF Register, Begin, Registrations
<1>3. /\ n \notin revoked
      /\ \A k \in Commands : ~InTable(n, k)
      /\ \A q \in Registrars : op[q].callback # n
  BY <1>2 DEF Known
<1>4. \A q \in Registrars, k \in Registrations :
        op'[q].callback = k <=> IF q = r THEN k = n ELSE op[q].callback = k
  BY <1>1
<1>5. \A k \in Registrations, q \in Registrars :
        Pending(q, k)' => IF q = r THEN k = n ELSE Pending(q, k)
  BY <1>1, <1>2 DEF Pending
<1>6. \A k \in Registrations, c \in Commands : InTable(k, c)' <=> InTable(k, c)
  BY <1>2 DEF InTable
<1>7. Known'
  BY <1>2, <1>4, <1>6 DEF Known, Registrations
<1>8. RevokedGone' /\ OneCommand'
  BY <1>2, <1>6 DEF RevokedGone, OneCommand
<1>9. OneRegistrar'
  BY <1>3, <1>4 DEF OneRegistrar
<1>10. PendingNew'
  BY <1>2, <1>3, <1>5, <1>6 DEF PendingNew
<1> QED BY <1>7, <1>8, <1>9, <1>10

LEMMA UnregisterRegistered ==
  ASSUME IInv, NEW r \in Registrars, Unregister(r)
  PROVE  Registered'
<1> USE DispatcherAssumption DEF IInv, TypeOK, RegistrarTypeOK, Registered
<1>1. PICK m \in Commands : op' = [op EXCEPT ![r] = [command |-> m, callback |-> 0]]
  BY DEF Unregister
<1>2. rpc' = [rpc EXCEPT ![r] = "take"] /\ UNCHANGED <<callbacks, revoked, registered>>
  BY DEF Unregister, Begin
<1>3. \A q \in Registrars, k \in Registrations :
        op'[q].callback = k => op[q].callback = k
  BY <1>1 DEF Registrations
<1>4. \A k \in Registrations, q \in Registrars : Pending(q, k)' => Pending(q, k)
  BY <1>1, <1>2 DEF Pending, Registrations
<1>5. \A k \in Registrations, c \in Commands : InTable(k, c)' <=> InTable(k, c)
  BY <1>2 DEF InTable
<1>6. Known' /\ RevokedGone' /\ OneCommand'
  BY <1>2, <1>3, <1>5 DEF Known, RevokedGone, OneCommand
<1>7. OneRegistrar' /\ PendingNew'
  BY <1>2, <1>3, <1>4, <1>5 DEF OneRegistrar, PendingNew
<1> QED BY <1>6, <1>7

(* The new registration enters the table; the old one is still its ctx. *)
LEMMA WriteCallbackRegistered ==
  ASSUME IInv, NEW r \in Registrars, WriteCallback(r)
  PROVE  Registered'
<1> USE DispatcherAssumption DEF IInv, TypeOK, RegistrarTypeOK, Registered
<1> DEFINE c == op[r].command
           n == op[r].callback
<1>1. /\ c \in Commands /\ n \in 0..MaxRegistrations /\ rpc[r] = "callback"
      /\ callbacks' = [callbacks EXCEPT ![c].callback = n]
      /\ rpc' = [rpc EXCEPT ![r] = "ctx"]
      /\ UNCHANGED <<op, revoked, registered>>
  BY DEF WriteCallback, OpCommand
<1>2. \A k \in Registrations, m \in Commands :
        InTable(k, m)' => InTable(k, m) \/ (m = c /\ k = n)
  <2> SUFFICES ASSUME NEW k \in Registrations, NEW m \in Commands, InTable(k, m)'
               PROVE  InTable(k, m) \/ (m = c /\ k = n)
    OBVIOUS
  <2>0. k = callbacks'[m].callback \/ k = callbacks'[m].ctx
    BY DEF InTable
  <2>1. callbacks'[c] = [callback |-> n, ctx |-> callbacks[c].ctx]
    BY <1>1 DEF Entries
  <2>2. m # c => callbacks'[m] = callbacks[m]
    BY <1>1
  <2>3. CASE m = c
    BY <2>0, <2>1, <2>3 DEF InTable
  <2>4. CASE m # c
    BY <2>0, <2>2, <2>4 DEF InTable
  <2> QED BY <2>3, <2>4
<1>3. n \in Registrations => Pending(r, n) /\ n <= registered
  BY <1>1 DEF Pending, Known
<1>4. n \in Registrations => n \notin revoked /\ \A m \in Commands : ~InTable(n, m)
  BY <1>3 DEF PendingNew
<1>5. Known'
  BY <1>1, <1>2, <1>3 DEF Known
<1>6. RevokedGone' /\ OneCommand'
  BY <1>1, <1>2, <1>4 DEF RevokedGone, OneCommand
<1>7. OneRegistrar'
  BY <1>1 DEF OneRegistrar
<1>8. \A k \in Registrations, q \in Registrars : Pending(q, k)' => q # r /\ Pending(q, k)
  BY <1>1 DEF Pending
<1>9. PendingNew'
  BY <1>1, <1>2, <1>8 DEF PendingNew, OneRegistrar, Pending
<1> QED BY <1>5, <1>6, <1>7, <1>9

(* The old one leaves it, and is revoked. *)
LEMMA WriteCtxRegistered ==
  ASSUME IInv, NEW r \in Registrars, WriteCtx(r)
  PROVE  Registered'
<1> USE DispatcherAssumption DEF IInv, TypeOK, RegistrarTypeOK, Registered
<1> DEFINE c == op[r].command
           n == op[r].callback
           old == callbacks[c].ctx
<1>1. /\ c \in Commands /\ n \in 0..MaxRegistrations /\ rpc[r] = "ctx"
      /\ callbacks' = [callbacks EXCEPT ![c].ctx = n]
      /\ revoked' = revoked \cup ({old} \ {0, n})
      /\ rpc' = [rpc EXCEPT ![r] = "give"]
      /\ UNCHANGED <<op, registered>>
  BY DEF WriteCtx, OpCommand
<1>2. callbacks[c].callback = n
  BY <1>1 DEF TableWhole
<1>3. \A k \in Registrations, m \in Commands :
        InTable(k, m)' => InTable(k, m) /\ (m = c => k = n)
  <2>1. callbacks'[c] = [callback |-> n, ctx |-> n]
    BY <1>1, <1>2 DEF Entries
  <2>2. \A m \in Commands \ {c} : callbacks'[m] = callbacks[m]
    BY <1>1
  <2> QED BY <1>2, <2>1, <2>2 DEF InTable
<1>4. \A k \in Registrations : k \in revoked' => k \in revoked \/ (k = old /\ k # n)
  BY <1>1
<1>5. old \in Registrations => InTable(old, c)
  BY DEF InTable
<1>6. Known'
  BY <1>1, <1>3, <1>4, <1>5 DEF Known
<1>7. RevokedGone'
  <2> SUFFICES ASSUME NEW k \in revoked', NEW m \in Commands, InTable(k, m)'
               PROVE  FALSE
    BY DEF RevokedGone
  <2>1. k \in Registrations
    BY <1>1 DEF Registrations, Entries
  <2>2. InTable(k, m) /\ (m = c => k = n)
    BY <1>3, <2>1
  <2>3. k = old /\ k # n
    BY <1>4, <2>1, <2>2 DEF RevokedGone
  <2> QED BY <1>1, <1>5, <2>1, <2>2, <2>3 DEF OneCommand
<1>8. OneCommand' /\ OneRegistrar'
  BY <1>1, <1>3 DEF OneCommand, OneRegistrar
<1>9. \A k \in Registrations, q \in Registrars : Pending(q, k)' => Pending(q, k)
  BY <1>1 DEF Pending
<1>10. PendingNew'
  BY <1>1, <1>3, <1>4, <1>5, <1>9 DEF PendingNew
<1> QED BY <1>6, <1>7, <1>8, <1>10

LEMMA StepRegistered ==
  ASSUME IInv, Next
  PROVE  Registered'
<1> USE DEF IInv
<1>1. CASE StopDelete
  <2>1. \A r \in Registrars :
           \/ rpc'[r] = rpc[r] /\ op'[r] = op[r]
           \/ rpc'[r] = "idle" /\ op'[r] = NoOp
    BY <1>1 DEF StopDelete, DeleteTask
  <2> QED BY <1>1, <2>1, RegisteredDropped DEF StopDelete
<1>2. CASE StartCreate \/ StartDone \/ StopDone \/ DispatcherStep \/ Finished
  BY <1>2, RegisteredUnchanged DEF StartCreate, StartDone, StopDone, DispatcherStep,
     Receive, Lock, Copy, Unlock, Call, Called, Finished, vars, registrarVars
<1>3. ASSUME NEW p \in Producers, EnqueueCheck(p) \/ EnqueueSend(p) PROVE Registered'
  BY <1>3, RegisteredUnchanged DEF EnqueueCheck, EnqueueSend, registrarVars
<1>4. ASSUME NEW r \in Registrars, Register(r) \/ Unregister(r) PROVE Registered'
  BY <1>4, RegisterRegistered, UnregisterRegistered
<1>5. ASSUME NEW r \in Registrars, RegistrarStep(r) PROVE Registered'
  <2>1. CASE Take(r)
    BY <2>1 DEF Take, TypeOK, RegistrarTypeOK, Registered, Known, RevokedGone, OneCommand,
       OneRegistrar, PendingNew, Pending, InTable
  <2>2. CASE Give(r)
    <3>1. \A q \in Registrars :
             \/ rpc'[q] = rpc[q] /\ op'[q] = op[q]
             \/ rpc'[q] = "idle" /\ op'[q] = NoOp
      BY <2>2 DEF Give, TypeOK, RegistrarTypeOK
    <3> QED BY <2>2, <3>1, RegisteredDropped DEF Give
  <2> QED BY <1>5, <2>1, <2>2, WriteCallbackRegistered, WriteCtxRegistered
      DEF RegistrarStep
<1> QED BY <1>1, <1>2, <1>3, <1>4, <1>5 DEF Next

LEMMA StepLateness ==
  ASSUME IInv, Next
  PROVE  Lateness'
<1> USE DispatcherAssumption
    DEF IInv, TypeOK, TaskTypeOK, Entries, Lateness, AtMostOneLateCall
<1>1. CASE Copy
  <2>1. packet.command \in Commands
    BY <1>1 DEF Copy, PacketInHand, Packets
  <2>2. entry'.callback # 0 =>
           entry'.callback \in Registrations /\ entry'.callback \notin revoked
    BY <1>1, <2>1 DEF Copy, RegistrarTypeOK, Registrations, Registered, RevokedGone, InTable
  <2> QED BY <1>1, <2>2 DEF Copy, registrarVars
<1>2. CASE Call
  <2>1. entry.callback \in revoked => late[entry.callback] = 0
    BY <1>2 DEF Call, RegistrarTypeOK, Registrations
  <2> QED BY <1>2, <2>1 DEF Call, registrarVars, RegistrarTypeOK
<1>3. CASE Receive \/ Lock \/ Unlock \/ Called
  BY <1>3 DEF Receive, Lock, Unlock, Called, registrarVars
<1>4. CASE StartCreate \/ StartDone \/ StopDelete \/ StopDone \/ Finished
  BY <1>4 DEF StartCreate, StartDone, StopDelete, DeleteTask, StopDone, Finished, vars,
     taskVars, registrarVars
<1>5. ASSUME NEW p \in Producers, EnqueueCheck(p) \/ EnqueueSend(p) PROVE Lateness'
  BY <1>5 DEF EnqueueCheck, EnqueueSend, taskVars, registrarVars
<1>6. ASSUME NEW r \in Registrars, Register(r) \/ Unregister(r) \/ RegistrarStep(r)
      PROVE Lateness'
  BY <1>6 DEF Register, Unregister, RegistrarStep, Take, WriteCallback, WriteCtx, Give,
     taskVars
<1> QED BY <1>1, <1>2, <1>3, <1>4, <1>5, <1>6 DEF Next, DispatcherStep
-----------------------------------------------------------------------------
(* The packets accepted, handled, in hand and queued. *)

(* The next packet moves from the queue to the task's hands, ... *)
LEMMA HeadInHand ==
  ASSUME NEW S, NEW h \in Seq(S), NEW q \in Seq(S), q # <<>>
  PROVE  (h \o <<>>) \o q = (h \o <<Head(q)>>) \o Tail(q)
<1>1. Head(q) \in S /\ Tail(q) \in Seq(S) /\ <<Head(q)>> \in Seq(S)
  OBVIOUS
<1>2. q = <<Head(q)>> \o Tail(q)
  OBVIOUS
<1>3. (h \o <<Head(q)>>) \o Tail(q) = h \o (<<Head(q)>> \o Tail(q))
  BY <1>1, ConcatAssociative
<1>4. h \o <<>> = h
  BY ConcatEmptySeq
<1> QED BY <1>2, <1>3, <1>4

(* ... and from there to what was handled. *)
LEMMA HandDone ==
  ASSUME NEW S, NEW h \in Seq(S), NEW q \in Seq(S), NEW x \in S
  PROVE  (h \o <<x>>) \o q = (Append(h, x) \o <<>>) \o q
<1>1. Append(h, x) \in Seq(S) /\ Append(h, x) = h \o <<x>>
  BY AppendIsConcat
<1>2. Append(h, x) \o <<>> = Append(h, x)
  BY <1>1, ConcatEmptySeq
<1> QED BY <1>1, <1>2

LEMMA StepAccepted ==
  ASSUME IInv, Next
  PROVE  AcceptedKept' /\ KilledFinite'
<1> USE DispatcherAssumption
    DEF IInv, TypeOK, LifeTypeOK, TaskTypeOK, ProducerTypeOK, AcceptedKept, KilledFinite
<1>1. CASE Receive
  <2>1. Head(rx_queue) \in Packets /\ None \notin Packets
    <3>1. Head(rx_queue) \in Packets
      BY <1>1 DEF Receive
    <3> QED BY <3>1 DEF Packets
  <2>2. InHand = <<>> /\ InHand' = <<Head(rx_queue)>>
    BY <1>1, <2>1 DEF Receive, PacketInHand, InHand
  <2> QED BY <1>1, <2>2, HeadInHand DEF Receive, lifeVars, producerVars
<1>2. CASE Called
  <2>1. packet # None /\ packet \in Packets
    BY <1>2 DEF Called, PacketInHand
  <2>2. InHand = <<packet>> /\ InHand' = <<>>
    BY <1>2, <2>1 DEF Called, InHand
  <2>3. handled \in Seq(Packets) /\ rx_queue \in Seq(Packets) /\ packet \in Packets
    BY <2>1
  <2>4. (handled \o <<packet>>) \o rx_queue = (Append(handled, packet) \o <<>>) \o rx_queue
    BY ONLY <2>3, HandDone
  <2> QED BY <1>2, <2>2, <2>4 DEF Called, lifeVars, producerVars
<1>3. CASE StopDelete
  <2>1. Cardinality(killed) \in Nat
    BY FS_CardinalityType
  <2>2. stops' = stops + 1 /\ UNCHANGED <<rx_queue, accepted>> /\ InHand' = <<>>
    BY <1>3 DEF StopDelete, DeleteTask, producerVars, InHand
  <2>3. CASE packet = None
    <3>1. InHand = <<>> /\ killed' = killed /\ handled' = handled
      BY <1>3, <2>3 DEF StopDelete, DeleteTask, InHand
    <3> QED BY <2>1, <2>2, <3>1
  <2>4. CASE packet # None
    <3>1. /\ InHand = <<packet>> /\ killed' = killed \cup {packet}
          /\ handled' = Append(handled, packet)
      BY <1>3, <2>4 DEF StopDelete, DeleteTask, InHand
    <3>2. /\ IsFiniteSet(killed \cup {packet})
          /\ \/ Cardinality(killed \cup {packet}) = Cardinality(killed)
             \/ Cardinality(killed \cup {packet}) = Cardinality(killed) + 1
      BY FS_AddElement
    <3>3. KilledFinite' /\ Cardinality(killed') <= stops'
      BY <2>1, <2>2, <3>1, <3>2
    <3>4. handled \in Seq(Packets) /\ rx_queue \in Seq(Packets) /\ packet \in Packets
      BY <2>4
    <3>5. (handled \o <<packet>>) \o rx_queue = (Append(handled, packet) \o <<>>) \o rx_queue
      BY ONLY <3>4, HandDone
    <3> QED BY <2>2, <3>1, <3>3, <3>5
  <2> QED BY <2>3, <2>4
<1>4. ASSUME NEW p \in Producers, EnqueueSend(p) PROVE AcceptedKept' /\ KilledFinite'
  <2>1. CASE Len(rx_queue) < QueueLen
    <3> DEFINE h == handled \o InHand
    <3>1. h \in Seq(Packets) /\ rx_queue \in Seq(Packets)
      BY ConcatProperties DEF InHand
    <3>2. ppc[p] \in Packets
      BY <1>4 DEF EnqueueSend
    <3>3. (h \o rx_queue) \o <<ppc[p]>> = h \o (rx_queue \o <<ppc[p]>>)
      <4> DEFINE new == <<ppc[p]>>
      <4>1. new \in Seq(Packets)
        BY <3>2
      <4> HIDE DEF h, new
      <4>2. (h \o rx_queue) \o new = h \o (rx_queue \o new)
        BY ONLY <3>1, <4>1, ConcatAssociative
      <4> QED BY <4>2 DEF new
    <3>4. /\ Append(h \o rx_queue, ppc[p]) = (h \o rx_queue) \o <<ppc[p]>>
          /\ Append(rx_queue, ppc[p]) = rx_queue \o <<ppc[p]>>
      <4> HIDE DEF h
      <4> QED BY <3>1, <3>2, AppendIsConcat, ConcatProperties
    <3>5. Append(h \o rx_queue, ppc[p]) = h \o Append(rx_queue, ppc[p])
      BY <3>3, <3>4
    <3>6. /\ rx_queue' = Append(rx_queue, ppc[p]) /\ accepted' = Append(accepted, ppc[p])
          /\ UNCHANGED <<handled, packet, killed, stops>>
      BY <1>4, <2>1 DEF EnqueueSend, lifeVars
    <3>7. InHand' = InHand
      BY <3>6 DEF InHand
    <3> QED BY <3>5, <3>6, <3>7
  <2>2. CASE ~(Len(rx_queue) < QueueLen)
    BY <1>4, <2>2 DEF EnqueueSend, lifeVars, InHand
  <2> QED BY <2>1, <2>2
<1>5. CASE Lock \/ Copy \/ Unlock \/ Call
  BY <1>5 DEF Lock, Copy, Unlock, Call, lifeVars, producerVars, InHand
<1>6. CASE StartCreate \/ StartDone \/ StopDone \/ Finished
  BY <1>6 DEF StartCreate, StartDone, StopDone, Finished, vars, lifeVars, taskVars,
     producerVars, InHand
<1>7. ASSUME NEW p \in Producers, EnqueueCheck(p) PROVE AcceptedKept' /\ KilledFinite'
  BY <1>7 DEF EnqueueCheck, lifeVars, taskVars, InHand
<1>8. ASSUME NEW r \in Registrars, Register(r) \/ Unregister(r) \/ RegistrarStep(r)
      PROVE AcceptedKept' /\ KilledFinite'
  BY <1>8 DEF Register, Unregister, RegistrarStep, Take, WriteCallback, WriteCtx, Give,
     lifeVars, taskVars, producerVars, InHand
<1> QED BY <1>1, <1>2, <1>3, <1>4, <1>5, <1>6, <1>7, <1>8 DEF Next, DispatcherStep

-----------------------------------------------------------------------------
LEMMA StepIInv == IInv /\ [Next]_vars => IInv'
<1> SUFFICES ASSUME IInv, [Next]_vars PROVE IInv'
  OBVIOUS
<1>1. CASE Next
  <2>1. TypeOK'
    <3>1. CASE Finished
      BY <3>1 DEF IInv, TypeOK, LifeTypeOK, TaskTypeOK, ProducerTypeOK, RegistrarTypeOK,
         Finished, vars, lifeVars, taskVars, producerVars, registrarVars
    <3> QED BY <1>1, <3>1, LifeTyped, ProducerTyped, DispatcherTyped, BeginTyped,
        RegistrarTyped DEF Next
  <2> QED BY <1>1, <2>1, StepExcluded, StepRegistered, StepLateness, StepAccepted
      DEF IInv, Excluded
<1>2. CASE UNCHANGED vars
  BY <1>2 DEF IInv, TypeOK, LifeTypeOK, TaskTypeOK, ProducerTypeOK, RegistrarTypeOK,
     vars, lifeVars, taskVars, producerVars, registrarVars, TaskExists, PacketInHand,
     OpCommand, MutexHeld, TableWhole, Whole, EntryWhole, Registered, Known, RevokedGone,
     OneCommand, OneRegistrar, PendingNew, Pending, InTable, Lateness, AtMostOneLateCall,
     KilledFinite, AcceptedKept, InHand
<1> QED BY <1>1, <1>2

LEMMA Invariance == Spec => []IInv
BY InitIInv, StepIInv, PTL DEF Spec

(* Every variable keeps its type, and the queue its length, in every       *)
(* behaviour.                                                              *)
THEOREM TypeCorrect == Spec => []TypeOK
<1>1. IInv => TypeOK
  BY DEF IInv
<1> QED BY <1>1, Invariance, PTL

(* No packet that enqueue() accepted is lost, doubled or overtaken, through *)
(* any number of stops and starts; a stop costs at most the one in hand.    *)
THEOREM NothingLost == Spec => []AcceptedKept
<1>1. IInv => AcceptedKept
  BY DEF IInv
<1> QED BY <1>1, Invariance, PTL

(* A callback is called with its own context, however many tasks register  *)
(* and unregister while packets are dispatched and the task is deleted.    *)
THEOREM EntriesWhole == Spec => []WholeEntry
<1>1. IInv => WholeEntry
  BY DEF IInv, EntryWhole, WholeEntry
<1> QED BY <1>1, Invariance, PTL

(* A callback that was replaced or removed is called at most once more. *)
THEOREM OneLateCall == Spec => []AtMostOneLateCall
<1>1. IInv => AtMostOneLateCall
  BY DEF IInv, Lateness
<1> QED BY <1>1, Invariance, PTL
=============================================================================
