------------------------------- MODULE RxTask -------------------------------
(***************************************************************************)
(* The RX task of UDPTransport and of ESPNowTransport: start() creates it, *)
(* it receives while state_ is RUNNING, and stop() tells it to leave its   *)
(* loop and waits for rx_done_sem_, or deletes it after a timeout.         *)
(*                                                                         *)
(* The two transports do the same but for two things: the ESP-NOW task     *)
(* takes reassembly_mutex_ for each frame, and the UDP task may end by     *)
(* itself, when malloc() or select() fails.                                *)
(***************************************************************************)
EXTENDS Integers, FiniteSets

CONSTANTS
  QueueLen,   \* frames that rx_queue_, or the socket, holds
  MaxStarts   \* bound: RX tasks created

ASSUME RxTaskAssumption == QueueLen \in Nat /\ MaxStarts \in Nat

VARIABLES
  transport,         \* "udp" or "espnow"
  state,             \* state_
  hooked,            \* the socket is bound, or the callbacks are registered
  lpc,               \* where the application is in one of its calls
  rx_task,           \* rx_task_: the n-th task created, 0 for a null handle
  rx_done_sem,       \* rx_done_sem_
  reassembly_mutex,  \* the task that holds reassembly_mutex_, 0 for none
  frames,            \* frames in the queue
  tpc,               \* tpc[t]: where the t-th RX task is
  starts,            \* history: RX tasks created
  left,              \* history: the task left its loop, not told by stop()
  deleted            \* history: the RX tasks that stop() has deleted

appVars == <<state, hooked, lpc, rx_task, starts, deleted>>
vars == <<transport, appVars, rx_done_sem, reassembly_mutex, frames, tpc, left>>

Tasks == 1..MaxStarts

Init ==
  /\ transport \in {"udp", "espnow"}
  /\ state = "UNINITIALIZED"
  /\ hooked = FALSE
  /\ lpc = "idle"
  /\ rx_task = 0
  /\ rx_done_sem = FALSE
  /\ reassembly_mutex = 0
  /\ frames = 0
  /\ tpc = [t \in Tasks |-> "none"]
  /\ starts = 0
  /\ left = FALSE
  /\ deleted = {}

-----------------------------------------------------------------------------
(* The application: init(), start(), stop() and deinit() *)

(* cleanup_resources(): the queue or the socket is gone, and so are the    *)
(* semaphores, whoever holds them.                                         *)
Cleanup ==
  /\ hooked' = FALSE
  /\ rx_done_sem' = FALSE
  /\ reassembly_mutex' = 0
  /\ frames' = 0

(* init(): the semaphores, the queue and the stream buffer are made, ...   *)
InitBegin ==
  /\ lpc = "idle"
  /\ state = "UNINITIALIZED"
  /\ lpc' = "init"
  /\ UNCHANGED <<transport, state, hooked, rx_task, starts, deleted, rx_done_sem,
                 reassembly_mutex, frames, tpc, left>>

(* ... then frames may come, while state_ is still UNINITIALIZED: from the *)
(* socket once it is bound, ...                                            *)
BindSocket ==
  /\ lpc = "init"
  /\ transport = "udp"
  /\ ~hooked
  /\ hooked' = TRUE
  /\ UNCHANGED <<transport, state, lpc, rx_task, starts, deleted, rx_done_sem,
                 reassembly_mutex, frames, tpc, left>>

(* ... or from recv_cb() once it is registered.                            *)
RegisterCallbacks ==
  /\ lpc = "init"
  /\ transport = "espnow"
  /\ ~hooked
  /\ hooked' = TRUE
  /\ UNCHANGED <<transport, state, lpc, rx_task, starts, deleted, rx_done_sem,
                 reassembly_mutex, frames, tpc, left>>

(* No memory, no socket, a wrong address, or no callback: all is undone.   *)
InitFailed ==
  /\ lpc = "init"
  /\ lpc' = "idle"
  /\ Cleanup
  /\ UNCHANGED <<transport, state, rx_task, starts, deleted, tpc, left>>

InitDone ==
  /\ lpc = "init"
  /\ hooked
  /\ state' = "INITIALIZED"
  /\ lpc' = "idle"
  /\ UNCHANGED <<transport, hooked, rx_task, starts, deleted, rx_done_sem, reassembly_mutex,
                 frames, tpc, left>>

CanStart == lpc = "idle" /\ state \in {"INITIALIZED", "STOPPED"} /\ starts < MaxStarts

Create ==
  /\ starts' = starts + 1
  /\ rx_task' = starts + 1
  /\ tpc' = [tpc EXCEPT ![starts + 1] = "begin"]
  /\ left' = FALSE
  /\ lpc' = "start"

(* Mutant: rx_done_sem_ stays as the task before left it. *)
StartCreate_NoDrain ==
  /\ CanStart
  /\ Create
  /\ UNCHANGED <<transport, hooked, state, deleted, rx_done_sem, reassembly_mutex, frames>>

(* start(): rx_done_sem_ is emptied, the task is created, ... *)
StartCreate ==
  /\ CanStart
  /\ rx_done_sem' = FALSE
  /\ Create
  /\ UNCHANGED <<transport, hooked, state, deleted, reassembly_mutex, frames>>

(* ... and only then state_ is set, which the task may have read before. *)
StartDone ==
  /\ lpc = "start"
  /\ state' = "RUNNING"
  /\ lpc' = "idle"
  /\ UNCHANGED <<transport, hooked, rx_task, starts, deleted, rx_done_sem, reassembly_mutex, frames,
                 tpc, left>>

(* vTaskDelete(rx_task_): nothing gives back what the task holds. *)
DeleteTask ==
  /\ tpc' = [tpc EXCEPT ![rx_task] = "gone"]
  /\ rx_task' = 0
  /\ lpc' = "idle"
  /\ deleted' = deleted \cup {rx_task}

(* Mutant: stop() as it was before it waited for the task. *)
StopBegin_Delete ==
  /\ lpc = "idle"
  /\ state = "RUNNING"
  /\ state' = "STOPPED"
  /\ tpc' = [tpc EXCEPT ![rx_task] = "gone"]
  /\ rx_task' = 0
  /\ UNCHANGED <<transport, hooked, lpc, starts, deleted, rx_done_sem, reassembly_mutex, frames,
                 left>>

StopBegin ==
  /\ lpc = "idle"
  /\ state = "RUNNING"
  /\ state' = "STOPPED"
  /\ lpc' = "stop"
  /\ UNCHANGED <<transport, hooked, rx_task, starts, deleted, rx_done_sem, reassembly_mutex, frames,
                 tpc, left>>

StopTaken ==
  /\ lpc = "stop"
  /\ rx_done_sem
  /\ rx_done_sem' = FALSE
  /\ rx_task' = 0
  /\ lpc' = "idle"
  /\ UNCHANGED <<transport, hooked, state, starts, deleted, reassembly_mutex, frames, tpc, left>>

(* The task has not answered in time: it is busy with a frame, for else it *)
(* reads state_ again within 50 ms.                                        *)
StopTimeout ==
  /\ lpc = "stop"
  /\ ~rx_done_sem
  /\ tpc[rx_task] \in {"lock", "process", "callback"}
  /\ lpc' = "delete"
  /\ UNCHANGED <<transport, hooked, state, rx_task, starts, deleted, rx_done_sem, reassembly_mutex,
                 frames, tpc, left>>

(* By then it may be anywhere, even gone (a handle that is no longer valid *)
(* is taken to have no effect).                                            *)
StopDelete ==
  /\ lpc = "delete"
  /\ DeleteTask
  /\ UNCHANGED <<transport, hooked, state, starts, rx_done_sem, reassembly_mutex, frames, left>>

(* deinit(), after stop(): no callback comes any more, and what init() has *)
(* made is deleted; UDPTransport sets state_ only then.                    *)
Deinit ==
  /\ lpc = "idle"
  /\ state \in {"INITIALIZED", "STOPPED"}
  /\ state' = IF transport = "espnow" THEN "UNINITIALIZED" ELSE state
  /\ lpc' = "deinit"
  /\ Cleanup
  /\ UNCHANGED <<transport, rx_task, starts, deleted, tpc, left>>

DeinitDone ==
  /\ lpc = "deinit"
  /\ state' = "UNINITIALIZED"
  /\ lpc' = "idle"
  /\ UNCHANGED <<transport, hooked, rx_task, starts, deleted, rx_done_sem, reassembly_mutex,
                 frames, tpc, left>>

-----------------------------------------------------------------------------
(* recv_cb(), or the network: a frame for which there is no room is lost.  *)
Arrive ==
  /\ hooked
  /\ frames < QueueLen
  /\ frames' = frames + 1
  /\ UNCHANGED <<transport, appVars, rx_done_sem, reassembly_mutex, tpc, left>>

-----------------------------------------------------------------------------
(* rx_task_entry() *)

Go(t, from, to) == tpc[t] = from /\ tpc' = [tpc EXCEPT ![t] = to]

(* The UDP task may find no memory. *)
Begin(t) ==
  /\ \/ Go(t, "begin", "check") /\ left' = left
     \/ transport = "udp" /\ Go(t, "begin", "exit") /\ left' = TRUE
  /\ UNCHANGED <<transport, appVars, rx_done_sem, reassembly_mutex, frames>>

(* while (state_ == RUNNING) *)
Check(t) ==
  /\ IF state = "RUNNING"
     THEN Go(t, "check", "receive") /\ left' = left
     ELSE Go(t, "check", "exit") /\ left' = (left \/ lpc = "start")
  /\ UNCHANGED <<transport, appVars, rx_done_sem, reassembly_mutex, frames>>

(* xQueueReceive(), or select() and recvfrom() *)
Receive(t) ==
  /\ frames > 0
  /\ frames' = frames - 1
  /\ Go(t, "receive", IF transport = "espnow" THEN "lock" ELSE "callback")
  /\ UNCHANGED <<transport, appVars, rx_done_sem, reassembly_mutex, left>>

ReceiveTimeout(t) ==
  /\ frames = 0
  /\ Go(t, "receive", "check")
  /\ UNCHANGED <<transport, appVars, rx_done_sem, reassembly_mutex, frames, left>>

(* select() fails: the loop ends. *)
SelectError(t) ==
  /\ transport = "udp"
  /\ Go(t, "receive", "exit")
  /\ left' = TRUE
  /\ UNCHANGED <<transport, appVars, rx_done_sem, reassembly_mutex, frames>>

Lock(t) ==
  /\ reassembly_mutex = 0
  /\ reassembly_mutex' = t
  /\ Go(t, "lock", "process")
  /\ UNCHANGED <<transport, appVars, rx_done_sem, frames, left>>

(* Mutant: one of the early returns keeps reassembly_mutex_. *)
Process_KeepsMutex(t) ==
  /\ \/ reassembly_mutex' = 0 /\ Go(t, "process", "callback")
     \/ reassembly_mutex' = reassembly_mutex /\ Go(t, "process", "check")
  /\ UNCHANGED <<transport, appVars, rx_done_sem, frames, left>>

(* The message is complete, or not. *)
Process(t) ==
  /\ reassembly_mutex' = 0
  /\ Go(t, "process", "callback") \/ Go(t, "process", "check")
  /\ UNCHANGED <<transport, appVars, rx_done_sem, frames, left>>

Callback(t) ==
  /\ Go(t, "callback", "check")
  /\ UNCHANGED <<transport, appVars, rx_done_sem, reassembly_mutex, frames, left>>

(* xSemaphoreGive(rx_done_sem_), then vTaskDelete(nullptr) *)
Exit(t) ==
  /\ Go(t, "exit", "leave")
  /\ rx_done_sem' = TRUE
  /\ UNCHANGED <<transport, appVars, reassembly_mutex, frames, left>>

Leave(t) ==
  /\ Go(t, "leave", "gone")
  /\ UNCHANGED <<transport, appVars, rx_done_sem, reassembly_mutex, frames, left>>

TaskStep(t) ==
  \/ Begin(t) \/ Check(t) \/ Receive(t) \/ ReceiveTimeout(t) \/ SelectError(t)
  \/ Lock(t) \/ Process(t) \/ Callback(t) \/ Exit(t) \/ Leave(t)

-----------------------------------------------------------------------------
AppStep ==
  \/ InitBegin \/ BindSocket \/ RegisterCallbacks \/ InitFailed \/ InitDone
  \/ StartCreate \/ StartDone
  \/ StopBegin \/ StopTaken \/ StopTimeout \/ StopDelete
  \/ Deinit \/ DeinitDone

Next == AppStep \/ Arrive \/ \E t \in Tasks : TaskStep(t)

Spec == Init /\ [][Next]_vars

(* The RX tasks are scheduled, and rx_callback_ returns. *)
FairSpec == Spec /\ \A t \in Tasks : WF_vars(TaskStep(t))

-----------------------------------------------------------------------------
TaskStates ==
  {"none", "begin", "check", "receive", "lock", "process", "callback", "exit", "leave",
   "gone"}

(* Every variable has its type, and the queue its bound. *)
TypeOK ==
  /\ transport \in {"udp", "espnow"}
  /\ state \in {"UNINITIALIZED", "INITIALIZED", "RUNNING", "STOPPED"}
  /\ hooked \in BOOLEAN
  /\ lpc \in {"idle", "init", "start", "stop", "delete", "deinit"}
  /\ rx_task \in 0..MaxStarts
  /\ rx_done_sem \in BOOLEAN
  /\ reassembly_mutex \in 0..MaxStarts
  /\ frames \in 0..QueueLen
  /\ tpc \in [Tasks -> TaskStates]
  /\ starts \in 0..MaxStarts
  /\ left \in BOOLEAN
  /\ deleted \subseteq Tasks

(* Two RX tasks never run at once, which the reassembly buffer relies on,  *)
(* and none runs when stop() has returned, however late a stopped task     *)
(* gives rx_done_sem_ and whatever restart follows.                        *)
Active(t) == tpc[t] \notin {"none", "leave", "gone"}
OneRxTask ==
  /\ \A s, t \in Tasks : Active(s) /\ Active(t) => s = t
  /\ lpc = "idle" /\ state # "RUNNING" => \A t \in Tasks : ~Active(t)

(* reassembly_mutex_ is held by a task that will give it, unless stop()    *)
(* had to delete it.                                                       *)
MutexReturned ==
  reassembly_mutex # 0 => tpc[reassembly_mutex] = "process" \/ reassembly_mutex \in deleted

(* While the transport runs, a frame in the queue is taken and handled,    *)
(* unless the task was scheduled before start() set state_, a system call  *)
(* failed, or a deleted task holds reassembly_mutex_.                      *)
Orphaned == reassembly_mutex # 0 /\ tpc[reassembly_mutex] = "gone"
RunningReceives ==
  state = "RUNNING" /\ lpc = "idle" /\ frames > 0
  ~> \/ rx_task # 0 /\ tpc[rx_task] \in {"process", "callback"}
     \/ state # "RUNNING" \/ left \/ Orphaned
=============================================================================
