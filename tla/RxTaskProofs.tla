---------------------------- MODULE RxTaskProofs ----------------------------
(***************************************************************************)
(* There is at most one RX task, and none once stop() has returned, for    *)
(* any number of starts and any length of the queue; and the addresses     *)
(* that UDPTransport sends to are right, for any number of tasks and peers.*)
(*                                                                         *)
(* Neither is inductive.  That the task which gives rx_done_sem_ is the    *)
(* one stop() waits for follows only because every task before the last    *)
(* one is gone, and because start() empties the semaphore.  That an        *)
(* address is copied whole follows from who holds net_mutex_ and from its  *)
(* being there from init() to deinit().                                    *)
(***************************************************************************)
EXTENDS UdpTransport, TLAPS

(* Only the task created last may run. *)
OnlyLast == \A t \in Tasks : Active(t) => t = starts

(* Tasks not yet created have not run. *)
Unborn == \A t \in Tasks : t > starts => tpc[t] = "none"

(* rx_task_ is that task, until stop() is done with it. *)
Handle ==
  state = "RUNNING" \/ lpc \notin {"idle", "init", "deinit"}
  => starts \in Tasks /\ rx_task = starts

(* rx_done_sem_ is given only by that task, at its end. *)
Done == rx_done_sem => \A t \in Tasks : ~Active(t)

(* No task runs between stop() and start(). *)
Stopped ==
  lpc \in {"idle", "init", "deinit"} /\ state # "RUNNING" => \A t \in Tasks : ~Active(t)

(* What init(), start(), stop() and deinit() have made of state_ *)
Phase ==
  /\ lpc = "init" => state = "UNINITIALIZED"
  /\ lpc = "start" => state \in {"INITIALIZED", "STOPPED"}
  /\ lpc \in {"stop", "delete"} => state = "STOPPED"
  /\ lpc = "deinit" => state # "RUNNING"

IInv == TypeOK /\ OnlyLast /\ Unborn /\ Handle /\ Done /\ Stopped /\ Phase

-----------------------------------------------------------------------------
(* Initially no task has been created. *)
LEMMA InitIInv == Init => IInv
<1>1. 0 \in 0..QueueLen /\ 0 \in 0..MaxStarts
  BY RxTaskAssumption
<1> QED
  BY <1>1 DEF Init, IInv, TypeOK, OnlyLast, Unborn, Handle, Done, Stopped,
     Phase, Active, Tasks, TaskStates

(* Every step keeps the types. *)
LEMMA NextTypeOK == TypeOK /\ Handle /\ [Next]_vars => TypeOK'
<1> SUFFICES ASSUME TypeOK, Handle, [Next]_vars PROVE TypeOK'
  OBVIOUS
<1>0. 0 \in 0..QueueLen /\ 0 \in 0..MaxStarts
  BY RxTaskAssumption
<1> USE DEF TypeOK, Tasks, TaskStates
<1>1. CASE AppStep
  <2>1. CASE InitBegin \/ BindSocket \/ RegisterCallbacks
    BY <1>0, <2>1 DEF InitBegin, BindSocket, RegisterCallbacks
  <2>9. CASE InitFailed \/ InitDone
    BY <1>0, <2>9 DEF InitFailed, InitDone, Cleanup
  <2>2. CASE StartCreate
    <3>1. starts + 1 \in Tasks /\ starts + 1 \in 0..MaxStarts
      BY RxTaskAssumption, <2>2 DEF StartCreate, CanStart
    <3> QED
      BY <3>1, <2>2 DEF StartCreate, CanStart, Create
  <2>3. CASE StartDone
    BY <2>3 DEF StartDone
  <2>4. CASE StopBegin
    BY <2>4 DEF StopBegin
  <2>5. CASE StopTaken
    BY <1>0, <2>5 DEF StopTaken
  <2>6. CASE StopTimeout
    BY <2>6 DEF StopTimeout
  <2>7. CASE StopDelete
    BY <1>0, <2>7 DEF StopDelete, DeleteTask, Handle
  <2>8. CASE Deinit \/ DeinitDone
    BY <1>0, <2>8 DEF Deinit, DeinitDone, Cleanup
  <2> QED
    BY <1>1, <2>1, <2>2, <2>3, <2>4, <2>5, <2>6, <2>7, <2>8, <2>9 DEF AppStep
<1>2. CASE Arrive
  <2>1. frames' \in 0..QueueLen
    BY RxTaskAssumption, <1>2 DEF Arrive
  <2> QED
    BY <2>1, <1>2 DEF Arrive, appVars
<1>3. ASSUME NEW t \in Tasks, TaskStep(t) PROVE TypeOK'
  <2> USE DEF Go, appVars
  <2>1. CASE Begin(t)
    BY <2>1 DEF Begin
  <2>2. CASE Check(t)
    BY <2>2 DEF Check
  <2>3. CASE Receive(t)
    <3>1. frames' \in 0..QueueLen
      BY RxTaskAssumption, <2>3 DEF Receive
    <3> QED
      BY <3>1, <2>3 DEF Receive
  <2>4. CASE ReceiveTimeout(t)
    BY <2>4 DEF ReceiveTimeout
  <2>5. CASE SelectError(t)
    BY <2>5 DEF SelectError
  <2>6. CASE Lock(t)
    BY <2>6 DEF Lock
  <2>7. CASE Process(t)
    BY <1>0, <2>7 DEF Process
  <2>8. CASE Callback(t)
    BY <2>8 DEF Callback
  <2>9. CASE Exit(t)
    BY <2>9 DEF Exit
  <2>10. CASE Leave(t)
    BY <2>10 DEF Leave
  <2> QED
    BY <1>3, <2>1, <2>2, <2>3, <2>4, <2>5, <2>6, <2>7, <2>8, <2>9, <2>10 DEF TaskStep
<1>4. CASE UNCHANGED vars
  BY <1>4 DEF vars, appVars
<1> QED
  BY <1>1, <1>2, <1>3, <1>4 DEF Next

(* What the steps of a task that is running do: the task goes on, or gives *)
(* rx_done_sem_ and is done.                                               *)
LEMMA RunningStep ==
  ASSUME TypeOK, NEW t \in Tasks, TaskStep(t)
  PROVE  /\ UNCHANGED <<state, lpc, rx_task, starts>>
         /\ \A s \in Tasks \ {t} : tpc'[s] = tpc[s]
         /\ tpc[t] # "none"
         /\ \/ Active(t) /\ rx_done_sem' = rx_done_sem
            \/ ~Active(t)' /\ rx_done_sem' = rx_done_sem
            \/ Active(t) /\ ~Active(t)'
<1> USE DEF TypeOK, Tasks, TaskStates, Go, Active, appVars
<1>1. CASE Begin(t)
  BY <1>1 DEF Begin
<1>2. CASE Check(t)
  BY <1>2 DEF Check
<1>3. CASE Receive(t)
  BY <1>3 DEF Receive
<1>4. CASE ReceiveTimeout(t)
  BY <1>4 DEF ReceiveTimeout
<1>5. CASE SelectError(t)
  BY <1>5 DEF SelectError
<1>6. CASE Lock(t)
  BY <1>6 DEF Lock
<1>7. CASE Process(t)
  BY <1>7 DEF Process
<1>8. CASE Callback(t)
  BY <1>8 DEF Callback
<1>9. CASE Exit(t)
  BY <1>9 DEF Exit
<1>10. CASE Leave(t)
  BY <1>10 DEF Leave
<1> QED
  BY <1>1, <1>2, <1>3, <1>4, <1>5, <1>6, <1>7, <1>8, <1>9, <1>10 DEF TaskStep

(* A task that begins nothing new, in a state without a running task,      *)
(* leaves it so; a running task is the last one.                           *)
LEMMA NextIInv == IInv /\ [Next]_vars => IInv'
<1> SUFFICES ASSUME IInv, [Next]_vars PROVE IInv'
  OBVIOUS
<1>0. TypeOK'
  BY NextTypeOK DEF IInv
<1> USE DEF IInv, OnlyLast, Unborn, Handle, Done, Stopped, Phase, Active
<1>1. CASE AppStep
  <2> USE RxTaskAssumption DEF TypeOK, Tasks, TaskStates
  <2>1. CASE InitBegin \/ BindSocket \/ RegisterCallbacks
    BY <1>0, <2>1 DEF InitBegin, BindSocket, RegisterCallbacks
  <2>9. CASE InitFailed \/ InitDone
    BY <1>0, <2>9 DEF InitFailed, InitDone, Cleanup
  <2>2. CASE StartCreate
    BY <1>0, <2>2 DEF StartCreate, CanStart, Create
  <2>3. CASE StartDone
    BY <1>0, <2>3 DEF StartDone
  <2>4. CASE StopBegin
    BY <1>0, <2>4 DEF StopBegin
  <2>5. CASE StopTaken
    BY <1>0, <2>5 DEF StopTaken
  <2>6. CASE StopTimeout
    BY <1>0, <2>6 DEF StopTimeout
  <2>7. CASE StopDelete
    BY <1>0, <2>7 DEF StopDelete, DeleteTask
  <2>8. CASE Deinit \/ DeinitDone
    BY <1>0, <2>8 DEF Deinit, DeinitDone, Cleanup
  <2> QED
    BY <1>1, <2>1, <2>2, <2>3, <2>4, <2>5, <2>6, <2>7, <2>8, <2>9 DEF AppStep
<1>2. CASE Arrive
  BY <1>0, <1>2 DEF Arrive, appVars
<1>3. ASSUME NEW t \in Tasks, TaskStep(t) PROVE IInv'
  BY <1>0, <1>3, RunningStep DEF TypeOK, Tasks
<1>4. CASE UNCHANGED vars
  BY <1>0, <1>4 DEF vars, appVars
<1> QED
  BY <1>1, <1>2, <1>3, <1>4 DEF Next

(* The variables of rx_task_entry(), start() and stop() keep their types,  *)
(* and the queue its bound.                                                *)
THEOREM RxTaskTypeCorrect == Spec => []TypeOK
<1>1. IInv => TypeOK
  BY DEF IInv
<1> QED
  BY InitIInv, NextIInv, <1>1, PTL DEF Spec

(* stop() followed by start() never leaves two tasks in rx_task_entry(),   *)
(* and none is there once stop() has returned.                             *)
THEOREM AtMostOneRxTask == Spec => []OneRxTask
<1>1. IInv => OneRxTask
  BY DEF IInv, OnlyLast, Stopped, OneRxTask
<1> QED
  BY InitIInv, NextIInv, <1>1, PTL DEF Spec

(* A step leaves reassembly_mutex_ with a task that will give it, or with  *)
(* one that stop() has deleted.                                            *)
LEMMA NextMutexReturned ==
  IInv /\ MutexReturned /\ [Next]_vars => MutexReturned'
<1> SUFFICES ASSUME IInv, MutexReturned, [Next]_vars PROVE MutexReturned'
  OBVIOUS
<1> USE DEF IInv, MutexReturned, TypeOK, Tasks
<1>1. CASE AppStep
  <2>1. CASE StartCreate
    <3>1. starts + 1 \in Tasks /\ tpc[starts + 1] = "none"
      BY RxTaskAssumption, <2>1 DEF StartCreate, CanStart, Unborn
    <3>2. /\ tpc' = [tpc EXCEPT ![starts + 1] = "begin"]
          /\ UNCHANGED <<reassembly_mutex, deleted>>
      BY <2>1 DEF StartCreate, Create
    <3> QED
      BY <3>1, <3>2
  <2>2. CASE StopDelete
    <3>1. /\ tpc' = [tpc EXCEPT ![rx_task] = "gone"]
          /\ deleted' = deleted \cup {rx_task}
          /\ reassembly_mutex' = reassembly_mutex
      BY <2>2 DEF StopDelete, DeleteTask
    <3> QED
      BY <3>1
  <2>3. CASE InitFailed \/ Deinit
    BY <2>3 DEF InitFailed, Deinit, Cleanup
  <2>4. CASE \/ InitBegin \/ BindSocket \/ RegisterCallbacks \/ InitDone
             \/ StartDone \/ StopBegin \/ StopTaken \/ StopTimeout \/ DeinitDone
    <3>1. UNCHANGED <<reassembly_mutex, tpc, deleted>>
      BY <2>4 DEF InitBegin, BindSocket, RegisterCallbacks, InitDone, StartDone, StopBegin,
         StopTaken, StopTimeout, DeinitDone
    <3> QED
      BY <3>1
  <2> QED
    BY <1>1, <2>1, <2>2, <2>3, <2>4 DEF AppStep
<1>2. CASE Arrive
  BY <1>2 DEF Arrive, appVars
<1>3. ASSUME NEW t \in Tasks, TaskStep(t) PROVE MutexReturned'
  <2> USE DEF Go, appVars
  <2>1. CASE Lock(t)
    BY <2>1 DEF Lock
  <2>2. CASE Process(t)
    BY <2>2 DEF Process
  <2>3. ASSUME ~Lock(t), ~Process(t)
        PROVE  /\ UNCHANGED <<reassembly_mutex, deleted>>
               /\ tpc[t] # "process"
               /\ \A s \in Tasks \ {t} : tpc'[s] = tpc[s]
    BY <1>3, <2>3 DEF TaskStep, Begin, Check, Receive, ReceiveTimeout, SelectError,
       Callback, Exit, Leave
  <2> QED
    BY <2>1, <2>2, <2>3
<1>4. CASE UNCHANGED vars
  BY <1>4 DEF vars, appVars
<1> QED
  BY <1>1, <1>2, <1>3, <1>4 DEF Next

(* reassembly_mutex_ is given back by the task that holds it, on every way *)
(* out of process_rx_item(), unless stop() had to delete that task.        *)
THEOREM MutexIsReturned == Spec => []MutexReturned
<1>1. Init => MutexReturned
  BY DEF Init, MutexReturned
<1> QED
  BY InitIInv, NextIInv, NextMutexReturned, <1>1, PTL DEF Spec

-----------------------------------------------------------------------------
(* UdpTransport does to the variables of RxTask what RxTask does. *)
LEMMA UdpSteps == [UdpNext]_<<vars, addressVars>> => [Next]_vars
<1> SUFFICES ASSUME [UdpNext]_<<vars, addressVars>> PROVE [Next]_vars
  OBVIOUS
<1>1. CASE MakeMutex \/ SetDefault \/ DeleteMutex \/ Restart
  BY <1>1 DEF MakeMutex, SetDefault, DeleteMutex, Restart, Next, AppStep
<1>2. CASE RxStep
  BY <1>2 DEF RxStep, Next, AppStep
<1>3. ASSUME NEW u \in Users, UserStep(u) PROVE UNCHANGED vars
  BY <1>3 DEF UserStep, SetRemoteIp, SetRemotePort, AddPeer, RemovePeer, PeerCheck,
     WriteCheck, CopyIp, CopyPort, FindPeer, Sendto, CallInDeinit
<1>4. CASE UNCHANGED <<vars, addressVars>>
  BY <1>4
<1> QED
  BY <1>1, <1>2, <1>3, <1>4 DEF UdpNext

(* UDPTransport with its senders is, for its RX task, what RxTask says:    *)
(* what is proved of RxTask holds of it.                                   *)
THEOREM UdpIsRxTask == UdpSpec => Spec
<1>1. UdpInit => Init
  BY DEF UdpInit
<1> QED
  BY <1>1, UdpSteps, PTL DEF UdpSpec, Spec

-----------------------------------------------------------------------------
(* What Take() and Give() do to the mutex and to the task *)
LEMMA TakeGive ==
  ASSUME AddressTypeOK, NEW u \in Users,
         NEW label \in {"idle", "set", "copying", "send", "fault"},
         Take(u, label) \/ Give(u, label)
  PROVE  /\ net_mutex' \in {"gone", "free"} \cup Users
         /\ upc' \in [Users -> {"idle", "set", "copy", "copying", "find", "send", "fault"}]
         /\ upc'[u] \in {label, "fault"}
         /\ \A v \in Users \ {u} : upc'[v] = upc[v]
  BY DEF Take, Give, UserGo, AddressTypeOK

(* Every step keeps the types. *)
LEMMA NextAddressTypeOK ==
  AddressTypeOK /\ [UdpNext]_<<vars, addressVars>> => AddressTypeOK'
<1> SUFFICES ASSUME AddressTypeOK, [UdpNext]_<<vars, addressVars>> PROVE AddressTypeOK'
  OBVIOUS
<1> USE DEF AddressTypeOK, Addresses, Peers
<1>0. Default \in Endpoints
  BY UdpAssumption
<1>1. CASE MakeMutex
  BY <1>1 DEF MakeMutex, callVars
<1>2. CASE SetDefault
  BY <1>0, <1>2 DEF SetDefault, callVars, Address
<1>3. CASE DeleteMutex
  BY <1>3 DEF DeleteMutex, callVars
<1>4. CASE Restart \/ RxStep
  BY <1>4 DEF Restart, RxStep, addressVars, callVars
<1>5. ASSUME NEW u \in Users, UserStep(u) PROVE AddressTypeOK'
  <2>1. ASSUME NEW e \in Endpoints, SetRemoteIp(u, e) PROVE AddressTypeOK'
    BY <2>1, TakeGive DEF SetRemoteIp
  <2>2. CASE SetRemotePort(u)
    <3>1. /\ net_mutex' \in {"gone", "free"} \cup Users
          /\ upc' \in [Users -> {"idle", "set", "copy", "copying", "find", "send", "fault"}]
          /\ upc'[u] \in {"idle", "fault"}
          /\ \A v \in Users \ {u} : upc'[v] = upc[v]
      BY <2>2, TakeGive DEF SetRemotePort
    <3>2. arg[u] \in Endpoints
      BY <2>2 DEF SetRemotePort
    <3>3. \A v \in Users : upc'[v] = "set" => arg'[v] \in Endpoints
      BY <2>2, <3>1 DEF SetRemotePort
    <3> QED
      BY <2>2, <3>1, <3>2, <3>3 DEF SetRemotePort
  <2>3. ASSUME NEW n \in Nodes, NEW e \in Endpoints, AddPeer(u, n, e) PROVE AddressTypeOK'
    BY <2>3 DEF AddPeer, callVars, Address
  <2>4. ASSUME NEW n \in Nodes, RemovePeer(u, n) PROVE AddressTypeOK'
    BY <2>4 DEF RemovePeer, callVars, NoPeer, NoAddress, Address
  <2>5. CASE WriteCheck(u)
    BY <2>5 DEF WriteCheck, UserGo
  <2>6. CASE CopyIp(u)
    BY <2>6, TakeGive DEF CopyIp
  <2>7. CASE CopyPort(u)
    BY <2>7, TakeGive DEF CopyPort
  <2>8. ASSUME NEW n \in Nodes, PeerCheck(u, n) PROVE AddressTypeOK'
    BY <2>8 DEF PeerCheck, UserGo
  <2>9. CASE FindPeer(u)
    BY <2>9 DEF FindPeer, UserGo, IsFirstOf, Named
  <2>10. CASE Sendto(u)
    BY <2>10 DEF Sendto, UserGo, NoAddress, Address
  <2>11. CASE CallInDeinit(u)
    BY <2>11 DEF CallInDeinit, UserGo
  <2> QED
    BY <1>5, <2>1, <2>2, <2>3, <2>4, <2>5, <2>6, <2>7, <2>8, <2>9, <2>10, <2>11
       DEF UserStep
<1>6. CASE UNCHANGED <<vars, addressVars>>
  BY <1>6 DEF addressVars, callVars
<1> QED
  BY <1>1, <1>2, <1>3, <1>4, <1>5, <1>6 DEF UdpNext

-----------------------------------------------------------------------------
(* The entries in use are of different nodes, and their addresses whole. *)
Table == OneSlotEach /\ \A i \in Slots : Whole(peers[i].addr)

(* net_mutex_ exists from init() to deinit(). *)
MutexLive ==
  net_mutex = "gone" <=> lpc = "deinit" \/ (lpc = "idle" /\ state = "UNINITIALIZED")

(* The mutex is held by the task that reads or writes remote_addr_, which  *)
(* is whole but while it is written, and the transport is there as long as *)
(* there are calls.                                                        *)
Calls ==
  /\ NoFault
  /\ \A u \in Users : Calling(u) => state # "UNINITIALIZED" /\ lpc # "deinit"
  /\ \A u \in Users : upc[u] \in {"set", "copying"} <=> net_mutex = u
  /\ \A u \in Users : upc[u] = "set" => remote_addr.ip = arg[u]
  /\ \A u \in Users : upc[u] = "copying" => dest[u].ip = remote_addr.ip
  /\ (\A u \in Users : upc[u] # "set") => Whole(remote_addr)
  /\ SentWhole

AddressInv == AddressTypeOK /\ Table /\ MutexLive /\ (late \/ Calls)

(* add_peer() takes a node that has no slot, so the table stays a table.   *)
LEMMA NextTable ==
  AddressTypeOK /\ Table /\ [UdpNext]_<<vars, addressVars>> => Table'
<1> SUFFICES ASSUME AddressTypeOK, Table, [UdpNext]_<<vars, addressVars>> PROVE Table'
  OBVIOUS
<1> USE DEF Table, OneSlotEach, Whole
<1>1. ASSUME NEW u \in Users, NEW n \in Nodes, NEW e \in Endpoints, AddPeer(u, n, e)
      PROVE  Table'
  BY <1>1 DEF AddPeer, AddressTypeOK, IsFirstOf, Unused, Named, Address
<1>2. ASSUME NEW u \in Users, NEW n \in Nodes, RemovePeer(u, n) PROVE Table'
  BY <1>2 DEF RemovePeer, AddressTypeOK, IsFirstOf, Named, NoPeer, NoAddress, Address
<1>3. ASSUME UNCHANGED peers PROVE Table'
  BY <1>3
<1>4. ASSUME NEW u \in Users, UserStep(u) PROVE Table'
  BY <1>1, <1>2, <1>3, <1>4 DEF UserStep, SetRemoteIp, SetRemotePort, PeerCheck,
     WriteCheck, CopyIp, CopyPort, FindPeer, Sendto, CallInDeinit
<1>5. CASE MakeMutex \/ SetDefault \/ DeleteMutex \/ Restart \/ RxStep
  BY <1>3, <1>5 DEF MakeMutex, SetDefault, DeleteMutex, Restart, RxStep, addressVars
<1>6. CASE UNCHANGED <<vars, addressVars>>
  BY <1>3, <1>6 DEF addressVars
<1> QED
  BY <1>4, <1>5, <1>6 DEF UdpNext

(* The steps of the RX task and the arrival of frames are not those of     *)
(* init(), start(), stop() and deinit().                                   *)
LEMMA RxKeepsLife ==
  ASSUME Phase, RxStep
  PROVE  /\ lpc' = "deinit" \/ (lpc' = "idle" /\ state' = "UNINITIALIZED")
              <=> lpc = "deinit" \/ (lpc = "idle" /\ state = "UNINITIALIZED")
         /\ lpc # "deinit" /\ state # "UNINITIALIZED"
              => lpc' # "deinit" /\ state' # "UNINITIALIZED"
<1> USE DEF Phase
<1>1. CASE BindSocket \/ RegisterCallbacks \/ StartDone \/ StopBegin \/ StopTaken
           \/ StopTimeout \/ StopDelete \/ DeinitDone
  BY <1>1 DEF BindSocket, RegisterCallbacks, StartDone, StopBegin, StopTaken,
     StopTimeout, StopDelete, DeleteTask, DeinitDone
<1>2. CASE Arrive
  BY <1>2 DEF Arrive, appVars
<1>3. ASSUME NEW t \in Tasks, TaskStep(t) PROVE UNCHANGED <<state, lpc>>
  BY <1>3 DEF TaskStep, Begin, Check, Receive, ReceiveTimeout, SelectError, Lock,
     Process, Callback, Exit, Leave, appVars
<1> QED
  BY <1>1, <1>2, <1>3 DEF RxStep

LEMMA NextMutexLive ==
  AddressTypeOK /\ Phase /\ MutexLive /\ [UdpNext]_<<vars, addressVars>> => MutexLive'
<1> SUFFICES ASSUME AddressTypeOK, Phase, MutexLive, [UdpNext]_<<vars, addressVars>>
             PROVE  MutexLive'
  OBVIOUS
<1> USE UdpAssumption DEF MutexLive, Phase
<1>1. CASE MakeMutex
  BY <1>1 DEF MakeMutex, InitBegin
<1>2. CASE SetDefault
  BY <1>2 DEF SetDefault, InitDone
<1>3. CASE DeleteMutex
  BY <1>3 DEF DeleteMutex, InitFailed, Deinit
<1>4. CASE Restart
  BY <1>4 DEF Restart, StartCreate, CanStart, Create, addressVars
<1>5. CASE RxStep
  BY <1>5, RxKeepsLife DEF RxStep, addressVars
<1>6. ASSUME NEW u \in Users, UserStep(u) PROVE MutexLive'
  <2>1. UNCHANGED <<state, lpc>> /\ (net_mutex' = "gone" <=> net_mutex = "gone")
    BY <1>6 DEF UserStep, SetRemoteIp, SetRemotePort, AddPeer, RemovePeer, PeerCheck,
       WriteCheck, CopyIp, CopyPort, FindPeer, Sendto, CallInDeinit, Take, Give, vars, appVars
  <2> QED
    BY <2>1
<1>7. CASE UNCHANGED <<vars, addressVars>>
  BY <1>7 DEF vars, appVars, addressVars
<1> QED
  BY <1>1, <1>2, <1>3, <1>4, <1>5, <1>6, <1>7 DEF UdpNext

(* As long as deinit() has not come under a call, a task that is about to  *)
(* take the mutex finds it, and one that holds it reads or writes          *)
(* remote_addr_ alone.                                                     *)
LEMMA NextCalls ==
  ASSUME AddressTypeOK, Table, Phase, MutexLive, Calls, ~late',
         [UdpNext]_<<vars, addressVars>>
  PROVE  Calls'
<1> USE UdpAssumption DEF Calls, NoFault, SentWhole, Calling, Whole
<1>t. AddressTypeOK'
  BY NextAddressTypeOK
<1>1. CASE MakeMutex
  BY <1>1 DEF MakeMutex, InitBegin, callVars, AddressTypeOK, MutexLive
<1>2. CASE SetDefault
  BY <1>2 DEF SetDefault, InitDone, callVars, AddressTypeOK, Phase, Address
<1>3. CASE DeleteMutex
  BY <1>3 DEF DeleteMutex, callVars, AddressTypeOK
<1>4. CASE Restart
  BY <1>4 DEF Restart, StartCreate, Create, addressVars, callVars
<1>5. CASE RxStep
  BY <1>5, RxKeepsLife DEF RxStep, addressVars, callVars
<1>6. ASSUME NEW u \in Users, UserStep(u) PROVE Calls'
  <2> USE DEF AddressTypeOK, UserGo
  <2>0. UNCHANGED <<state, lpc>>
    BY <1>6 DEF UserStep, SetRemoteIp, SetRemotePort, AddPeer, RemovePeer, PeerCheck,
       WriteCheck, CopyIp, CopyPort, FindPeer, Sendto, CallInDeinit, vars, appVars
  <2>00. Calling(u) \/ Ready => net_mutex # "gone"
    BY DEF MutexLive, Ready
  <2>1. ASSUME NEW e \in Endpoints, SetRemoteIp(u, e) PROVE Calls'
    BY <2>0, <2>00, <2>1 DEF SetRemoteIp, May, Ready, Take
  <2>2. CASE SetRemotePort(u)
    BY <2>0, <2>00, <2>2 DEF SetRemotePort, Give
  <2>3. ASSUME NEW n \in Nodes, NEW e \in Endpoints, AddPeer(u, n, e) PROVE Calls'
    BY <2>0, <2>3 DEF AddPeer, callVars
  <2>4. ASSUME NEW n \in Nodes, RemovePeer(u, n) PROVE Calls'
    BY <2>0, <2>4 DEF RemovePeer, callVars
  <2>5. CASE WriteCheck(u)
    BY <2>0, <2>5 DEF WriteCheck, May, Phase
  <2>6. CASE CopyIp(u)
    BY <2>0, <2>00, <2>6 DEF CopyIp, Take
  <2>7. CASE CopyPort(u)
    BY <2>0, <2>00, <2>7 DEF CopyPort, Give
  <2>8. ASSUME NEW n \in Nodes, PeerCheck(u, n) PROVE Calls'
    BY <2>0, <2>8 DEF PeerCheck, May, Phase
  <2>9. CASE FindPeer(u)
    BY <2>0, <2>00, <2>9 DEF FindPeer, IsFirstOf, Named, Table
  <2>10. CASE Sendto(u)
    BY <2>0, <2>10 DEF Sendto
  <2>11. ~CallInDeinit(u)
    BY DEF CallInDeinit
  <2> QED
    BY <1>6, <2>1, <2>2, <2>3, <2>4, <2>5, <2>6, <2>7, <2>8, <2>9, <2>10, <2>11
       DEF UserStep
<1>7. CASE UNCHANGED <<vars, addressVars>>
  BY <1>7 DEF vars, appVars, addressVars, callVars
<1> QED
  BY <1>1, <1>2, <1>3, <1>4, <1>5, <1>6, <1>7 DEF UdpNext

(* late is never taken back. *)
LEMMA LateStays == [UdpNext]_<<vars, addressVars>> /\ late => late'
  BY DEF UdpNext, MakeMutex, SetDefault, DeleteMutex, Restart, RxStep, UserStep,
     SetRemoteIp, SetRemotePort, AddPeer, RemovePeer, PeerCheck, WriteCheck, CopyIp,
     CopyPort, FindPeer, Sendto, CallInDeinit, addressVars

LEMMA InitAddressInv == UdpInit => AddressInv
<1> SUFFICES ASSUME UdpInit PROVE AddressInv
  OBVIOUS
<1> USE UdpAssumption DEF UdpInit, NoAddress, Address
<1>1. AddressTypeOK
  BY DEF AddressTypeOK, Addresses, Peers, NoPeer
<1>2. Table
  BY DEF Table, OneSlotEach, Whole, NoPeer
<1>3. MutexLive
  BY DEF MutexLive, Init
<1>4. Calls
  BY DEF Calls, NoFault, Calling, SentWhole, Whole
<1> QED
  BY <1>1, <1>2, <1>3, <1>4 DEF AddressInv

(* For any number of tasks, peers and endpoints: a node has one slot, and  *)
(* unless deinit() has come under a call a datagram goes to an address set *)
(* as a whole, and no call meets a mutex that is not there.                *)
THEOREM AddressesHold == UdpSpec => []AddressesRight
<1>1. IInv /\ AddressInv /\ [UdpNext]_<<vars, addressVars>> => AddressInv'
  <2> SUFFICES ASSUME IInv, AddressInv, [UdpNext]_<<vars, addressVars>> PROVE AddressInv'
    OBVIOUS
  <2>1. AddressTypeOK' /\ Table' /\ MutexLive'
    BY NextAddressTypeOK, NextTable, NextMutexLive DEF AddressInv, IInv
  <2>2. late' \/ Calls'
    BY NextCalls, LateStays DEF AddressInv, IInv
  <2> QED
    BY <2>1, <2>2 DEF AddressInv
<1>2. AddressInv => AddressesRight
  BY DEF AddressInv, Calls, Table, AddressesRight
<1>3. Spec => []IInv
  BY InitIInv, NextIInv, PTL DEF Spec
<1> QED
  BY <1>1, <1>2, <1>3, InitAddressInv, UdpIsRxTask, PTL DEF UdpSpec

(* The addresses, the peer table and the tasks that use them keep their    *)
(* types, as the rest of the transport does.                               *)
THEOREM UdpTypeCorrect == UdpSpec => []UdpTypeOK
<1>1. UdpInit => AddressTypeOK
  BY InitAddressInv DEF AddressInv
<1>2. Spec => []TypeOK
  BY RxTaskTypeCorrect
<1> QED
  BY <1>1, <1>2, NextAddressTypeOK, UdpIsRxTask, PTL DEF UdpSpec, UdpTypeOK
=============================================================================
