---------------------------- MODULE Transactions ----------------------------
(***************************************************************************)
(* SerialCommManager::call_service() over SerialCommTransactionManager.    *)
(*                                                                         *)
(* Any number of tasks call services at once.  Each call draws a sequence  *)
(* id, claims a slot of a fixed table, sends its request and blocks on the *)
(* binary semaphore of its slot.  The dispatcher task finds the slot of an *)
(* arriving reply by its sequence id, copies the reply into the slot and   *)
(* gives the semaphore.  Claiming and releasing a slot happen under        *)
(* mutex_; finding a slot and writing or reading its reply do not, so they *)
(* interleave with everything else, and the copy of a reply into its slot  *)
(* is split in two.                                                        *)
(*                                                                         *)
(* The peer and the link are external: a request that was sent may be      *)
(* answered never, once, or more often (MultiTransport sends one request   *)
(* over every transport it holds), at any later time.                      *)
(***************************************************************************)
EXTENDS Integers, Sequences

CONSTANTS
  Callers,     \* tasks that call call_service()
  NumSlots,    \* MAX_TRANSACTIONS
  MaxSeq,      \* largest sequence id, 0xFFFF in the code
  QueueLen,    \* rx_queue_len of the dispatcher
  MaxReplies,  \* most replies the link delivers for one request
  MaxCalls,    \* bound: calls issued in one behaviour
  None         \* no task, no slot

ASSUME ConstantsAssumption ==
  /\ NumSlots \in Nat \ {0}
  /\ MaxSeq \in Nat \ {0}
  /\ QueueLen \in Nat
  /\ MaxReplies \in Nat
  /\ MaxCalls \in Nat
  /\ None \notin Callers
  /\ None \notin Nat

VARIABLES
  next_seq_id,  \* the generator of SerialCommManager
  active,       \* active[i], slot_seq[i], reply[i], semaphore[i]: slot i of
  slot_seq,     \*   transactions_ (completed is written there, never read)
  reply,
  semaphore,
  mutex,        \* the task that holds mutex_ of the transaction manager
  pc,           \* pc[c]: where task c is in call_service()
  seq_id,       \* seq_id[c]: its local of the same name
  slot,         \* slot[c]: the slot claimed, then wait_reply()'s pointer
  out_reply,    \* out_reply[c]: its local reply packet
  rx_queue,     \* replies in the queue of the dispatcher
  rpc,          \* where the dispatcher task is in resolve_transaction()
  packet,       \* the reply it is resolving
  rslot,        \* the slot pointer it holds
  callback,     \* the caller that is a user callback on the dispatcher task
  wire,         \* wire[n]: the id call n was sent with, the replies it may yet get
  timely,       \* the link is so quick that no call times out while its reply can
                \*   still come, and answers each request at most once
  issued,       \* history: calls issued
  call,         \* history: call[c] is the call c is in, 0 outside
  answer,       \* history: how the last call of c ended
  leaked,       \* history: ids whose slot a failed send left behind
  debt          \* history: calls that woke for a reply that is not theirs, less
                \*   the semaphore gives that no call was waiting for

tableVars == <<active, slot_seq, reply, semaphore>>
callerVars == <<pc, seq_id, slot, out_reply>>
routerVars == <<rx_queue, rpc, packet, rslot, callback>>
historyVars == <<issued, call, answer, leaked, debt>>
vars == <<next_seq_id, tableVars, mutex, callerVars, routerVars, wire, timely,
          historyVars>>

Slots == 1..NumSlots
SeqIds == 1..MaxSeq
Calls == 1..MaxCalls

(* A reply packet: the id in its header and the call whose answer its      *)
(* payload is.  A cleared packet has id 0 and no payload.                  *)
Packets == [seq_id : 0..MaxSeq, call : 0..MaxCalls]
Cleared == [seq_id |-> 0, call |-> 0]

NoAnswer == [call |-> 0, reply |-> 0]

-----------------------------------------------------------------------------
(* The table is scanned from slot 1 up and the first match is taken. *)
IsFirst(i, S) == i \in S /\ \A j \in S : i <= j

Free == {i \in Slots : ~active[i]}

(* Mutant: the comparison of the id is missing. *)
Matching_AnyActive(s) == {i \in Slots : active[i]}

(* find_transaction(): the slots that match id s. *)
Matching(s) == {i \in Slots : active[i] /\ slot_seq[i] = s}

(* Mutant: packets are received while a callback runs. *)
RouterFree_Reentrant == rpc = "receive"

(* While a user callback runs on it, the dispatcher task receives nothing. *)
RouterFree == rpc = "receive" /\ callback = None

(* What call_service() makes of the reply it got: an empty one does not    *)
(* deserialize (ERR_FAIL, here 0), one whose header was copied before its  *)
(* payload deserializes to garbage.                                        *)
Garbage == MaxCalls + 1
Deserialize(p) == IF p.call = 0 /\ p.seq_id # 0 THEN Garbage ELSE p.call

Goto(c, label) == pc' = [pc EXCEPT ![c] = label]

(* call_service() returns to its caller, with reply r or with an error, and *)
(* its locals are gone.                                                    *)
Return(c, r) ==
  /\ Goto(c, "idle")
  /\ seq_id' = [seq_id EXCEPT ![c] = 0]
  /\ out_reply' = [out_reply EXCEPT ![c] = Cleared]
  /\ slot' = [slot EXCEPT ![c] = None]
  /\ callback' = IF callback = c THEN None ELSE callback
  /\ call' = [call EXCEPT ![c] = 0]
  /\ answer' = [answer EXCEPT ![c] = [call |-> call[c], reply |-> r]]

Init ==
  /\ next_seq_id = 1
  /\ active = [i \in Slots |-> FALSE]
  /\ slot_seq = [i \in Slots |-> 0]
  /\ reply = [i \in Slots |-> Cleared]
  /\ semaphore = [i \in Slots |-> FALSE]
  /\ mutex = None
  /\ pc = [c \in Callers |-> "idle"]
  /\ seq_id = [c \in Callers |-> 0]
  /\ slot = [c \in Callers |-> None]
  /\ out_reply = [c \in Callers |-> Cleared]
  /\ rx_queue = <<>>
  /\ rpc = "receive"
  /\ packet = Cleared
  /\ rslot = None
  /\ callback = None
  /\ wire = [n \in Calls |-> [seq_id |-> 0, left |-> 0]]
  /\ timely \in BOOLEAN
  /\ issued = 0
  /\ call = [c \in Callers |-> 0]
  /\ answer = [c \in Callers |-> NoAnswer]
  /\ leaked = {}
  /\ debt = 0

-----------------------------------------------------------------------------
(* call_service(), step by step. *)

(* Mutant: 0 is not skipped. *)
NextSeq_Zero(s) == (s + 1) % (MaxSeq + 1)

(* The id after s: uint16_t arithmetic, and 0 is skipped. *)
NextSeq(s) == IF (s + 1) % (MaxSeq + 1) = 0 THEN 1 ELSE (s + 1) % (MaxSeq + 1)

(* Workload bound: no call stays in flight for a whole turn of the 16-bit  *)
(* counter, so the id about to be drawn is not in use by another call.     *)
NoLap == \A d \in Callers : pc[d] # "idle" => seq_id[d] # next_seq_id

AllocateSeqId(c) ==
  /\ pc[c] = "idle"
  /\ issued < MaxCalls
  /\ NoLap
  /\ \/ UNCHANGED callback
     \/ RouterFree /\ callback' = c
  /\ seq_id' = [seq_id EXCEPT ![c] = next_seq_id]
  /\ next_seq_id' = NextSeq(next_seq_id)
  /\ Goto(c, "create")
  /\ issued' = issued + 1
  /\ call' = [call EXCEPT ![c] = issued + 1]
  /\ answer' = [answer EXCEPT ![c] = NoAnswer]
  /\ UNCHANGED <<tableVars, mutex, slot, out_reply, rx_queue, rpc, packet,
                 rslot, wire, timely, leaked, debt>>

(* create_transaction(): mutex_ taken, the first free slot marked active.  *)
(* Neither its reply nor its semaphore is reset.                           *)
CreateClaim(c) ==
  /\ pc[c] = "create"
  /\ mutex = None
  /\ \E i \in Slots :
       /\ IsFirst(i, Free)
       /\ active' = [active EXCEPT ![i] = TRUE]
       /\ slot' = [slot EXCEPT ![c] = i]
  /\ mutex' = c
  /\ Goto(c, "stamp")
  /\ UNCHANGED <<next_seq_id, slot_seq, reply, semaphore, seq_id, out_reply,
                 routerVars, wire, timely, historyVars>>

(* ... and only then given its id; mutex_ released. *)
CreateStamp(c) ==
  /\ pc[c] = "stamp"
  /\ slot_seq' = [slot_seq EXCEPT ![slot[c]] = seq_id[c]]
  /\ mutex' = None
  /\ Goto(c, "send")
  /\ UNCHANGED <<next_seq_id, active, reply, semaphore, seq_id, slot,
                 out_reply, routerVars, wire, timely, historyVars>>

(* Mutant: the error path does not give mutex_ back. *)
CreateFull_KeepsMutex(c) ==
  /\ pc[c] = "create"
  /\ mutex = None
  /\ Free = {}
  /\ mutex' = c
  /\ Return(c, 0)
  /\ UNCHANGED <<next_seq_id, tableVars, rx_queue, rpc, packet, rslot, wire,
                 timely, issued, leaked, debt>>

(* No free slot: ERR_NO_MEMORY. *)
CreateFull(c) ==
  /\ pc[c] = "create"
  /\ mutex = None
  /\ Free = {}
  /\ Return(c, 0)
  /\ UNCHANGED <<next_seq_id, tableVars, mutex, rx_queue, rpc, packet, rslot, wire,
                 timely, issued, leaked, debt>>

(* The most replies that come to one request. *)
MostReplies == IF timely /\ MaxReplies > 1 THEN 1 ELSE MaxReplies

SendOk(c) ==
  /\ pc[c] = "send"
  /\ wire' = [wire EXCEPT ![call[c]] = [seq_id |-> seq_id[c], left |-> MostReplies]]
  /\ Goto(c, "find")
  /\ UNCHANGED <<next_seq_id, tableVars, mutex, seq_id, slot, out_reply,
                 routerVars, timely, historyVars>>

(* send() reports an error and call_service() returns it at once: the slot *)
(* stays active.  A request reported as failed may still reach the peer.   *)
SendFail(c) ==
  /\ pc[c] = "send"
  /\ \E n \in {0, MostReplies} :
       wire' = [wire EXCEPT ![call[c]] = [seq_id |-> seq_id[c], left |-> n]]
  /\ Return(c, 0)
  /\ leaked' = leaked \cup {seq_id[c]}
  /\ UNCHANGED <<next_seq_id, tableVars, mutex, rx_queue, rpc, packet, rslot, timely,
                 issued, debt>>

(* wait_reply(): find the slot, without mutex_; ERR_EMPTY when none has the *)
(* id.                                                                     *)
WaitFind(c) ==
  /\ pc[c] = "find"
  /\ IF Matching(seq_id[c]) = {}
     THEN Return(c, 0)
     ELSE /\ \E i \in Slots :
               /\ IsFirst(i, Matching(seq_id[c]))
               /\ slot' = [slot EXCEPT ![c] = i]
          /\ Goto(c, "wait")
          /\ UNCHANGED <<seq_id, out_reply, callback, call, answer>>
  /\ UNCHANGED <<next_seq_id, tableVars, mutex, rx_queue, rpc, packet, rslot, wire,
                 timely, issued, leaked, debt>>

(* Mutant: the wait does not consume the token. *)
WaitTake_Peek(c) ==
  /\ pc[c] = "wait"
  /\ semaphore[slot[c]]
  /\ Goto(c, "copy")
  /\ UNCHANGED <<next_seq_id, tableVars, mutex, seq_id, slot, out_reply,
                 routerVars, wire, timely, historyVars>>

(* The semaphore is available: take it. *)
WaitTake(c) ==
  /\ pc[c] = "wait"
  /\ semaphore[slot[c]]
  /\ semaphore' = [semaphore EXCEPT ![slot[c]] = FALSE]
  /\ Goto(c, "copy")
  /\ UNCHANGED <<next_seq_id, active, slot_seq, reply, mutex, seq_id, slot,
                 out_reply, routerVars, wire, timely, historyVars>>

(* Call n can still be answered: its reply is on the link, in the queue or *)
(* being resolved.                                                         *)
Answerable(n) ==
  \/ wire[n].left > 0
  \/ \E k \in DOMAIN rx_queue : rx_queue[k].call = n
  \/ rpc # "receive" /\ packet.call = n

(* Mutant: ERR_TIMEOUT is returned without destroy_transaction(). *)
WaitTimeout_NoDestroy(c) ==
  /\ pc[c] = "wait"
  /\ ~semaphore[slot[c]]
  /\ timely => callback = c \/ ~Answerable(call[c])
  /\ Return(c, 0)
  /\ UNCHANGED <<next_seq_id, tableVars, mutex, rx_queue, rpc, packet, rslot,
                 wire, timely, issued, leaked, debt>>

(* xSemaphoreTake() gives up after timeout_ms. *)
WaitTimeout(c) ==
  /\ pc[c] = "wait"
  /\ ~semaphore[slot[c]]
  /\ timely => callback = c \/ ~Answerable(call[c])
  /\ Goto(c, "destroy")
  /\ UNCHANGED <<next_seq_id, tableVars, mutex, seq_id, slot, out_reply,
                 routerVars, wire, timely, historyVars>>

(* out_reply = transaction->reply, without mutex_. *)
WaitCopy(c) ==
  /\ pc[c] = "copy"
  /\ out_reply' = [out_reply EXCEPT ![c] = reply[slot[c]]]
  /\ debt' = IF reply[slot[c]].call = call[c] THEN debt ELSE debt + 1
  /\ Goto(c, "destroy")
  /\ UNCHANGED <<next_seq_id, tableVars, mutex, seq_id, slot, routerVars, wire, timely,
                 issued, call, answer, leaked>>

(* destroy_transaction(): mutex_ taken, the first slot with the id freed   *)
(* (nothing is done when none has it).                                     *)
DestroyFree(c) ==
  /\ pc[c] = "destroy"
  /\ mutex = None
  /\ IF Matching(seq_id[c]) = {}
     THEN /\ Return(c, Deserialize(out_reply[c]))
          /\ UNCHANGED <<active, slot_seq, mutex>>
     ELSE /\ \E i \in Slots :
               /\ IsFirst(i, Matching(seq_id[c]))
               /\ active' = [active EXCEPT ![i] = FALSE]
               /\ slot_seq' = [slot_seq EXCEPT ![i] = 0]
               /\ slot' = [slot EXCEPT ![c] = i]
          /\ mutex' = c
          /\ Goto(c, "clear")
          /\ UNCHANGED <<seq_id, out_reply, callback, call, answer>>
  /\ UNCHANGED <<next_seq_id, reply, semaphore, rx_queue, rpc, packet,
                 rslot, wire, timely, issued, leaked, debt>>

(* ... its reply zeroed (the semaphore is left as it is), mutex_ released. *)
DestroyClear(c) ==
  /\ pc[c] = "clear"
  /\ reply' = [reply EXCEPT ![slot[c]] = Cleared]
  /\ mutex' = None
  /\ Return(c, Deserialize(out_reply[c]))
  /\ UNCHANGED <<next_seq_id, active, slot_seq, semaphore, rx_queue, rpc, packet,
                 rslot, wire, timely, issued, leaked, debt>>

-----------------------------------------------------------------------------
(* The dispatcher task: route_packet(), handle_reply(),                    *)
(* resolve_transaction().                                                  *)

(* The next packet is received and its slot looked up, without mutex_; a   *)
(* reply that matches no slot is dropped.                                  *)
ResolveFind ==
  /\ RouterFree
  /\ rx_queue # <<>>
  /\ rx_queue' = Tail(rx_queue)
  /\ LET p == Head(rx_queue)
     IN  \/ /\ Matching(p.seq_id) = {}
            /\ UNCHANGED <<rpc, packet, rslot>>
         \/ \E i \in Slots :
              /\ IsFirst(i, Matching(p.seq_id))
              /\ rslot' = i
              /\ packet' = p
              /\ rpc' = "header"
  /\ UNCHANGED <<next_seq_id, tableVars, mutex, callerVars, callback, wire, timely,
                 historyVars>>

(* Mutant: the semaphore is given before the reply is written. *)
ResolveHeader_GiveFirst ==
  /\ rpc = "header"
  /\ reply' = [reply EXCEPT ![rslot] = [@ EXCEPT !.seq_id = packet.seq_id]]
  /\ semaphore' = [semaphore EXCEPT ![rslot] = TRUE]
  /\ rpc' = "payload"
  /\ UNCHANGED <<next_seq_id, active, slot_seq, mutex, callerVars, rx_queue,
                 packet, rslot, callback, wire, timely, historyVars>>

(* transaction->reply = packet, the header first ... *)
ResolveHeader ==
  /\ rpc = "header"
  /\ reply' = [reply EXCEPT ![rslot] = [@ EXCEPT !.seq_id = packet.seq_id]]
  /\ rpc' = "payload"
  /\ UNCHANGED <<next_seq_id, active, slot_seq, semaphore, mutex, callerVars,
                 rx_queue, packet, rslot, callback, wire, timely, historyVars>>

(* ... then the payload. *)
ResolvePayload ==
  /\ rpc = "payload"
  /\ reply' = [reply EXCEPT ![rslot] = [@ EXCEPT !.call = packet.call]]
  /\ rpc' = "give"
  /\ UNCHANGED <<next_seq_id, active, slot_seq, semaphore, mutex, callerVars,
                 rx_queue, packet, rslot, callback, wire, timely, historyVars>>

(* Some caller is blocked, or about to block, on slot i for the packet.    *)
Awaited(i) ==
  /\ ~semaphore[i]
  /\ \E c \in Callers :
       /\ call[c] = packet.call
       /\ \/ pc[c] = "find" /\ IsFirst(i, Matching(seq_id[c]))
          \/ pc[c] = "wait" /\ slot[c] = i

ResolveGive ==
  /\ rpc = "give"
  /\ semaphore' = [semaphore EXCEPT ![rslot] = TRUE]
  /\ debt' = IF Awaited(rslot) THEN debt ELSE debt - 1
  /\ rpc' = "receive"
  /\ packet' = Cleared
  /\ rslot' = None
  /\ UNCHANGED <<next_seq_id, active, slot_seq, reply, mutex, callerVars,
                 rx_queue, callback, wire, timely, issued, call, answer, leaked>>

-----------------------------------------------------------------------------
(* The peer and the link (external). *)

(* A reply to call n arrives; a full dispatcher queue drops it. *)
ReplyArrives(n) ==
  /\ wire[n].left > 0
  /\ wire' = [wire EXCEPT ![n].left = @ - 1]
  /\ rx_queue' = IF Len(rx_queue) < QueueLen
                 THEN Append(rx_queue, [seq_id |-> wire[n].seq_id, call |-> n])
                 ELSE rx_queue
  /\ UNCHANGED <<next_seq_id, tableVars, mutex, callerVars, rpc, packet, rslot,
                 callback, timely, historyVars>>

(* The request, or every reply still to come, is lost. *)
ReplyLost(n) ==
  /\ wire[n].left > 0
  /\ wire' = [wire EXCEPT ![n].left = 0]
  /\ UNCHANGED <<next_seq_id, tableVars, mutex, callerVars, routerVars,
                 timely, historyVars>>

-----------------------------------------------------------------------------
CallStep(c) ==
  \/ CreateClaim(c) \/ CreateStamp(c) \/ CreateFull(c)
  \/ SendOk(c) \/ SendFail(c)
  \/ WaitFind(c) \/ WaitTake(c) \/ WaitTimeout(c) \/ WaitCopy(c)
  \/ DestroyFree(c) \/ DestroyClear(c)

Resolve == ResolveFind \/ ResolveHeader \/ ResolvePayload \/ ResolveGive

Link == \E n \in Calls : ReplyArrives(n) \/ ReplyLost(n)

(* Every issued call has returned and the link is silent: nothing is left  *)
(* to happen within the bound MaxCalls.                                    *)
Finished ==
  /\ issued = MaxCalls
  /\ \A c \in Callers : pc[c] = "idle"
  /\ RouterFree /\ rx_queue = <<>>
  /\ \A n \in Calls : wire[n].left = 0
  /\ UNCHANGED vars

Next ==
  \/ \E c \in Callers : AllocateSeqId(c) \/ CallStep(c)
  \/ Resolve
  \/ Link
  \/ Finished

Spec == Init /\ [][Next]_vars

(* A task inside call_service() is scheduled again and again: FreeRTOS     *)
(* hands mutex_ to its waiters in order, and xSemaphoreTake() returns      *)
(* after timeout_ms at the latest.  Nothing is assumed of the link: what a *)
(* timely one does, one that is not may do too.                            *)
FairInit == Init /\ ~timely
FairSpec == FairInit /\ [][Next]_vars /\ \A c \in Callers : WF_vars(CallStep(c))

-----------------------------------------------------------------------------
TableTypeOK ==
  /\ next_seq_id \in SeqIds
  /\ active \in [Slots -> BOOLEAN]
  /\ slot_seq \in [Slots -> 0..MaxSeq]
  /\ reply \in [Slots -> Packets]
  /\ semaphore \in [Slots -> BOOLEAN]
  /\ mutex \in Callers \cup {None}

CallerTypeOK ==
  /\ pc \in [Callers -> {"idle", "create", "stamp", "send", "find", "wait",
                          "copy", "destroy", "clear"}]
  /\ seq_id \in [Callers -> 0..MaxSeq]
  /\ slot \in [Callers -> Slots \cup {None}]
  /\ out_reply \in [Callers -> Packets]
  /\ callback \in Callers \cup {None}
  /\ call \in [Callers -> 0..MaxCalls]
  /\ answer \in [Callers -> [call : 0..MaxCalls, reply : 0..Garbage]]

RouterTypeOK ==
  /\ rx_queue \in Seq(Packets)
  /\ Len(rx_queue) <= QueueLen
  /\ rpc \in {"receive", "header", "payload", "give"}
  /\ packet \in Packets
  /\ rslot \in Slots \cup {None}

LinkTypeOK ==
  /\ wire \in [Calls -> [seq_id : 0..MaxSeq, left : 0..MaxReplies]]
  /\ timely \in BOOLEAN
  /\ issued \in 0..MaxCalls
  /\ leaked \subseteq SeqIds
  /\ debt \in Int

(* Every variable has the type its declaration in the code gives it. *)
TypeOK == TableTypeOK /\ CallerTypeOK /\ RouterTypeOK /\ LinkTypeOK

(* Where call_service() is bound to a slot by its sequence id. *)
Holding == {"send", "find", "wait", "copy", "destroy"}

(* The slot pointer that wait_reply() reads once and uses without mutex_   *)
(* stays good until its own destroy_transaction(): whatever other calls    *)
(* and late replies do meanwhile, the slot is active under the caller's    *)
(* id, and no two callers ever wait on the same slot.                      *)
OwnSlot ==
  /\ \A c \in Callers : pc[c] \in Holding => Matching(seq_id[c]) # {}
  /\ \A c \in Callers :
       pc[c] \in {"wait", "copy", "destroy"} => slot[c] \in Matching(seq_id[c])
  /\ \A c, d \in Callers :
       /\ pc[c] \in {"wait", "copy"} /\ pc[d] \in {"wait", "copy"}
       /\ slot[c] = slot[d]
       => c = d

(* Call c keeps slot i: by its id, or before the id is stamped. *)
Keeps(c, i) ==
  \/ pc[c] \in Holding /\ slot_seq[i] = seq_id[c]
  \/ pc[c] = "stamp" /\ slot[c] = i

(* A slot is active only for a call in flight or because the send of its   *)
(* request failed: timeouts, late and duplicated replies never leak one.   *)
NoOrphanSlot ==
  \A i \in Slots :
    active[i] => slot_seq[i] \in leaked \/ \E c \in Callers : Keeps(c, i)

(* A late or duplicated reply spoils at most one call, until the id        *)
(* counter has turned around: every call that wakes for a reply that is    *)
(* not its own is paid for by one give of a semaphore, before it, that no  *)
(* call was waiting for.                                                   *)
DamageBounded == issued <= MaxSeq => debt <= 0

(* A call made by a callback of the dispatcher task never gets its reply:  *)
(* the task that would resolve it is the one that is blocked.              *)
NestedNeverAnswered ==
  [][\A c \in Callers :
       callback = c /\ callback' # c => answer'[c].reply # call[c]]_vars

(* Every call returns, whatever the link loses and whoever holds mutex_:   *)
(* call_service() "blocks until reply or timeout" and no longer.           *)
CallsReturn == \A c \in Callers : pc[c] # "idle" ~> pc[c] = "idle"

(* "seq_id matches requests to replies": the reply handed to a caller is   *)
(* the reply to its own request.                                           *)
ReplyMatchesRequest ==
  \A c \in Callers : answer[c].reply \in {0, answer[c].call}

(* call_service() implements its promise when the link is timely; of a     *)
(* link that is not, nothing is shown.                                     *)
Promise == INSTANCE RequestReply WITH
  issued <- IF timely THEN issued ELSE 0,
  call <- IF timely THEN call ELSE [c \in Callers |-> 0],
  answer <- IF timely THEN answer ELSE [c \in Callers |-> NoAnswer]
PromiseKept == Promise!Spec
=============================================================================
