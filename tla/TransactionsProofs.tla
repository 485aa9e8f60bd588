------------------------- MODULE TransactionsProofs -------------------------
(***************************************************************************)
(* Theorems about module Transactions, for any number of callers, slots,   *)
(* sequence ids and replies, and with no assumption on the link.           *)
(***************************************************************************)
EXTENDS Transactions, FiniteSetTheorems, TLAPS

-----------------------------------------------------------------------------
(* The inductive invariant. *)

(* A free slot carries id 0, which no call ever draws. *)
FreeSlotsUnnamed == \A i \in Slots : ~active[i] => slot_seq[i] = 0

(* Calls in flight carry distinct ids other than 0. *)
DistinctIds ==
  /\ \A c \in Callers : pc[c] # "idle" => seq_id[c] \in SeqIds
  /\ \A c, d \in Callers :
       pc[c] # "idle" /\ pc[d] # "idle" /\ seq_id[c] = seq_id[d] => c = d

(* Only the task that holds mutex_ is inside create or destroy. *)
MutexHeld == \A c \in Callers : pc[c] \in {"stamp", "clear"} => mutex = c

(* A claimed slot that has no id yet is active under id 0. *)
ClaimedSlot ==
  \A c \in Callers : pc[c] = "stamp" =>
    slot[c] \in Slots /\ active[slot[c]] /\ slot_seq[slot[c]] = 0

(* Slot i is active under the id of call c. *)
Names(c, i) == active[i] /\ slot_seq[i] = seq_id[c]

(* Callers bound to an id have an active slot under it, and wait_reply()'s *)
(* pointer is such a slot.                                                 *)
BoundSlot ==
  \A c \in Callers :
    /\ pc[c] \in Holding => \E i \in Slots : Names(c, i)
    /\ pc[c] \in {"wait", "copy", "destroy"} =>
         slot[c] \in Slots /\ Names(c, slot[c])

(* Two slots share an id only when a failed send left one of them behind. *)
OnlyLeakedShared ==
  \A i, j \in Slots :
    active[i] /\ active[j] /\ slot_seq[i] = slot_seq[j] /\ slot_seq[i] # 0
    => i = j \/ slot_seq[i] \in leaked

(* The dispatcher task writes to a slot of the table. *)
RouterSlot == rpc # "receive" => rslot \in Slots

(* The parts about the table and the callers bound to it. *)
Binding ==
  /\ FreeSlotsUnnamed
  /\ DistinctIds
  /\ MutexHeld
  /\ ClaimedSlot
  /\ BoundSlot
  /\ OnlyLeakedShared
  /\ NoOrphanSlot

IInv == TypeOK /\ Binding /\ RouterSlot

-----------------------------------------------------------------------------
(* The id generator stays within 1..MaxSeq: 0 is never handed out. *)
LEMMA NextSeqInRange == \A s \in SeqIds : NextSeq(s) \in SeqIds
<1> TAKE s \in SeqIds
<1>1. MaxSeq \in Nat \ {0} /\ s \in Nat /\ 1 <= s /\ s <= MaxSeq
  BY ConstantsAssumption DEF SeqIds
<1>2. (s + 1) % (MaxSeq + 1) \in 0..MaxSeq
  BY <1>1
<1> QED BY <1>1, <1>2 DEF NextSeq, SeqIds

(* No request is answered more than MaxReplies times. *)
LEMMA MostRepliesTyped == MostReplies \in 0..MaxReplies
BY ConstantsAssumption DEF MostReplies

LEMMA InitIInv == Init => IInv
<1> SUFFICES ASSUME Init PROVE IInv
  OBVIOUS
<1>1. TypeOK
  BY ConstantsAssumption DEF Init, TypeOK, TableTypeOK, CallerTypeOK,
     RouterTypeOK, LinkTypeOK, SeqIds, Packets, Cleared, NoAnswer, Garbage
<1>2. Binding
  BY DEF Init, Binding, FreeSlotsUnnamed, DistinctIds, MutexHeld, ClaimedSlot,
     BoundSlot, Holding, OnlyLeakedShared, NoOrphanSlot
<1>3. RouterSlot
  BY DEF Init, RouterSlot
<1> QED BY <1>1, <1>2, <1>3 DEF IInv

-----------------------------------------------------------------------------
(* Type correctness. *)

(* A return leaves the caller's state well typed. *)
LEMMA ReturnTyped ==
  ASSUME NEW c \in Callers, NEW r \in 0..Garbage, CallerTypeOK, Return(c, r)
  PROVE  CallerTypeOK'
<1>1. 0 \in 0..MaxSeq /\ 0 \in 0..MaxCalls /\ Cleared \in Packets
  BY ConstantsAssumption DEF Packets, Cleared
<1>2. [call |-> call[c], reply |-> r] \in [call : 0..MaxCalls, reply : 0..Garbage]
  BY DEF CallerTypeOK
<1>3. pc' = [pc EXCEPT ![c] = "idle"] /\ seq_id' = [seq_id EXCEPT ![c] = 0]
      /\ slot' = [slot EXCEPT ![c] = None] /\ out_reply' = [out_reply EXCEPT ![c] = Cleared]
      /\ callback' = (IF callback = c THEN None ELSE callback)
      /\ call' = [call EXCEPT ![c] = 0]
      /\ answer' = [answer EXCEPT ![c] = [call |-> call[c], reply |-> r]]
  BY DEF Return, Goto
<1>4. /\ pc' \in [Callers -> {"idle", "create", "stamp", "send", "find", "wait",
                             "copy", "destroy", "clear"}]
      /\ seq_id' \in [Callers -> 0..MaxSeq]
      /\ slot' \in [Callers -> Slots \cup {None}]
  BY <1>1, <1>3 DEF CallerTypeOK
<1>5. /\ out_reply' \in [Callers -> Packets]
      /\ callback' \in Callers \cup {None}
  BY <1>1, <1>3 DEF CallerTypeOK
<1>6. /\ call' \in [Callers -> 0..MaxCalls]
      /\ answer' \in [Callers -> [call : 0..MaxCalls, reply : 0..Garbage]]
  BY <1>1, <1>2, <1>3 DEF CallerTypeOK
<1> QED BY <1>4, <1>5, <1>6 DEF CallerTypeOK

LEMMA CallStepTyped ==
  ASSUME IInv, NEW c \in Callers, CallStep(c)
  PROVE  TypeOK'
<1> USE ConstantsAssumption DEF IInv, TypeOK
<1>0. 0 \in 0..Garbage
  BY DEF Garbage
<1>1. CASE CreateClaim(c)
  <2>1. CallerTypeOK'
    BY <1>1 DEF CreateClaim, CallerTypeOK, Goto, routerVars, historyVars
  <2>2. TableTypeOK'
    BY <1>1 DEF CreateClaim, TableTypeOK
  <2>3. RouterTypeOK' /\ LinkTypeOK'
    BY <1>1 DEF CreateClaim, RouterTypeOK, LinkTypeOK, routerVars, historyVars
  <2> QED BY <2>1, <2>2, <2>3
<1>2. CASE CreateStamp(c)
  <2>1. CallerTypeOK'
    BY <1>2 DEF CreateStamp, CallerTypeOK, Goto, routerVars, historyVars
  <2>2. TableTypeOK'
    BY <1>2 DEF CreateStamp, TableTypeOK, CallerTypeOK
  <2>3. RouterTypeOK' /\ LinkTypeOK'
    BY <1>2 DEF CreateStamp, RouterTypeOK, LinkTypeOK, routerVars, historyVars
  <2> QED BY <2>1, <2>2, <2>3
<1>3. CASE CreateFull(c)
  <2>1. CallerTypeOK'
    BY <1>0, <1>3, ReturnTyped DEF CreateFull
  <2> QED BY <1>3, <2>1 DEF CreateFull, TableTypeOK, RouterTypeOK, LinkTypeOK, tableVars
<1>4. CASE SendOk(c)
  <2>1. [seq_id |-> seq_id[c], left |-> MostReplies]
          \in [seq_id : 0..MaxSeq, left : 0..MaxReplies]
    BY MostRepliesTyped DEF CallerTypeOK
  <2> QED BY <1>4, <2>1 DEF SendOk, TableTypeOK, CallerTypeOK, RouterTypeOK,
      LinkTypeOK, Goto, tableVars, routerVars, historyVars
<1>5. CASE SendFail(c)
  <2>1. CallerTypeOK'
    BY <1>0, <1>5, ReturnTyped DEF SendFail
  <2>2. seq_id[c] \in SeqIds
    BY <1>5 DEF SendFail, Binding, DistinctIds
  <2>3. \A n \in {0, MostReplies} : [seq_id |-> seq_id[c], left |-> n]
          \in [seq_id : 0..MaxSeq, left : 0..MaxReplies]
    BY MostRepliesTyped DEF CallerTypeOK
  <2>4. wire' \in [Calls -> [seq_id : 0..MaxSeq, left : 0..MaxReplies]]
    BY <1>5, <2>3 DEF SendFail, LinkTypeOK
  <2>5. LinkTypeOK'
    BY <1>5, <2>2, <2>4 DEF SendFail, LinkTypeOK
  <2> QED BY <1>5, <2>1, <2>5 DEF SendFail, TableTypeOK, RouterTypeOK, tableVars
<1>6. CASE WaitFind(c)
  <2>1. CallerTypeOK'
    <3>1. CASE Matching(seq_id[c]) = {}
      BY <1>0, <1>6, <3>1, ReturnTyped DEF WaitFind
    <3>2. CASE Matching(seq_id[c]) # {}
      BY <1>6, <3>2 DEF WaitFind, CallerTypeOK, Goto
    <3> QED BY <3>1, <3>2
  <2> QED BY <1>6, <2>1 DEF WaitFind, TableTypeOK, RouterTypeOK, LinkTypeOK, tableVars
<1>7. CASE WaitTake(c)
  <2>1. CallerTypeOK'
    BY <1>7 DEF WaitTake, CallerTypeOK, Goto, routerVars, historyVars
  <2>2. TableTypeOK'
    BY <1>7 DEF WaitTake, TableTypeOK
  <2>3. RouterTypeOK' /\ LinkTypeOK'
    BY <1>7 DEF WaitTake, RouterTypeOK, LinkTypeOK, routerVars, historyVars
  <2> QED BY <2>1, <2>2, <2>3
<1>8. CASE WaitTimeout(c)
  <2>1. CallerTypeOK'
    BY <1>8 DEF WaitTimeout, CallerTypeOK, Goto, routerVars, historyVars
  <2>2. TableTypeOK'
    BY <1>8 DEF WaitTimeout, TableTypeOK, tableVars
  <2>3. RouterTypeOK' /\ LinkTypeOK'
    BY <1>8 DEF WaitTimeout, RouterTypeOK, LinkTypeOK, routerVars, historyVars
  <2> QED BY <2>1, <2>2, <2>3
<1>9. CASE WaitCopy(c)
  <2>1. slot[c] \in Slots
    BY <1>9 DEF WaitCopy, Binding, BoundSlot
  <2>2. reply[slot[c]] \in Packets
    BY <2>1 DEF TableTypeOK
  <2>3. debt' \in Int
    BY <1>9 DEF WaitCopy, LinkTypeOK
  <2> QED BY <1>9, <2>2, <2>3 DEF WaitCopy, TableTypeOK, CallerTypeOK, RouterTypeOK,
      LinkTypeOK, Goto, tableVars, routerVars
<1>10. CASE DestroyFree(c)
  <2>1. Deserialize(out_reply[c]) \in 0..Garbage
    BY DEF CallerTypeOK, Packets, Deserialize, Garbage
  <2>2. CallerTypeOK'
    <3>1. CASE Matching(seq_id[c]) = {}
      BY <1>10, <2>1, <3>1, ReturnTyped DEF DestroyFree
    <3>2. CASE Matching(seq_id[c]) # {}
      BY <1>10, <3>2 DEF DestroyFree, CallerTypeOK, Goto
    <3> QED BY <3>1, <3>2
  <2>3. TableTypeOK'
    <3>1. CASE Matching(seq_id[c]) = {}
      BY <1>10, <3>1 DEF DestroyFree, TableTypeOK
    <3>2. CASE Matching(seq_id[c]) # {}
      <4>1. PICK i \in Slots : /\ active' = [active EXCEPT ![i] = FALSE]
                               /\ slot_seq' = [slot_seq EXCEPT ![i] = 0]
        BY <1>10, <3>2 DEF DestroyFree
      <4>2. mutex' = c /\ UNCHANGED <<next_seq_id, reply, semaphore>>
        BY <1>10, <3>2 DEF DestroyFree
      <4> QED BY <4>1, <4>2 DEF TableTypeOK
    <3> QED BY <3>1, <3>2
  <2> QED BY <1>10, <2>2, <2>3 DEF DestroyFree, RouterTypeOK, LinkTypeOK
<1>11. CASE DestroyClear(c)
  <2>1. Deserialize(out_reply[c]) \in 0..Garbage
    BY DEF CallerTypeOK, Packets, Deserialize, Garbage
  <2>2. CallerTypeOK'
    BY <1>11, <2>1, ReturnTyped DEF DestroyClear
  <2>3. Cleared \in Packets
    BY DEF Packets, Cleared
  <2> QED BY <1>11, <2>2, <2>3 DEF DestroyClear, TableTypeOK, RouterTypeOK, LinkTypeOK
<1> QED BY <1>1, <1>2, <1>3, <1>4, <1>5, <1>6, <1>7, <1>8, <1>9, <1>10, <1>11
    DEF CallStep

LEMMA AllocateTyped ==
  ASSUME IInv, NEW c \in Callers, AllocateSeqId(c)
  PROVE  TypeOK'
<1> USE ConstantsAssumption DEF IInv, TypeOK, AllocateSeqId
<1>1. next_seq_id' \in SeqIds
  BY NextSeqInRange DEF TableTypeOK
<1>2. next_seq_id \in 0..MaxSeq
  BY DEF TableTypeOK, SeqIds
<1>3. issued + 1 \in 0..MaxCalls
  BY DEF LinkTypeOK
<1>4. NoAnswer \in [call : 0..MaxCalls, reply : 0..Garbage]
  BY DEF NoAnswer, Garbage
<1>5. CallerTypeOK'
  BY <1>2, <1>3, <1>4 DEF CallerTypeOK, Goto
<1>6. TableTypeOK'
  BY <1>1 DEF TableTypeOK, tableVars
<1>7. RouterTypeOK' /\ LinkTypeOK'
  BY <1>3 DEF RouterTypeOK, LinkTypeOK
<1> QED BY <1>5, <1>6, <1>7

LEMMA ResolveTyped ==
  ASSUME IInv, Resolve
  PROVE  TypeOK' /\ RouterSlot'
<1> USE ConstantsAssumption DEF IInv, TypeOK
<1>1. CASE ResolveFind
  <2>1. /\ Head(rx_queue) \in Packets
        /\ Tail(rx_queue) \in Seq(Packets)
        /\ Len(Tail(rx_queue)) <= QueueLen
    BY <1>1 DEF ResolveFind, RouterTypeOK
  <2>2. RouterTypeOK' /\ RouterSlot'
    BY <1>1, <2>1 DEF ResolveFind, RouterTypeOK, RouterSlot, RouterFree
  <2> QED BY <1>1, <2>2 DEF ResolveFind, TableTypeOK, CallerTypeOK, LinkTypeOK,
      tableVars, callerVars, historyVars
<1>2. CASE ResolveHeader
  <2>1. reply' \in [Slots -> Packets]
    BY <1>2 DEF ResolveHeader, TableTypeOK, RouterTypeOK, RouterSlot, Packets
  <2> QED BY <1>2, <2>1 DEF ResolveHeader, RouterSlot, TableTypeOK, CallerTypeOK,
      RouterTypeOK, LinkTypeOK, callerVars, historyVars
<1>3. CASE ResolvePayload
  <2>1. reply' \in [Slots -> Packets]
    BY <1>3 DEF ResolvePayload, TableTypeOK, RouterTypeOK, RouterSlot, Packets
  <2> QED BY <1>3, <2>1 DEF ResolvePayload, RouterSlot, TableTypeOK, CallerTypeOK,
      RouterTypeOK, LinkTypeOK, callerVars, historyVars
<1>4. CASE ResolveGive
  <2>1. Cleared \in Packets
    BY DEF Cleared, Packets
  <2> QED BY <1>4, <2>1 DEF ResolveGive, RouterSlot, TableTypeOK, CallerTypeOK,
      RouterTypeOK, LinkTypeOK, callerVars
<1> QED BY <1>1, <1>2, <1>3, <1>4 DEF Resolve

LEMMA LinkTyped ==
  ASSUME IInv, Link
  PROVE  TypeOK'
<1> USE ConstantsAssumption DEF IInv, TypeOK
<1>1. PICK n \in Calls : ReplyArrives(n) \/ ReplyLost(n)
  BY DEF Link
<1>2. wire[n] \in [seq_id : 0..MaxSeq, left : 0..MaxReplies]
  BY DEF LinkTypeOK
<1>3. wire' \in [Calls -> [seq_id : 0..MaxSeq, left : 0..MaxReplies]]
  <2>1. CASE ReplyArrives(n)
    <3>1. [wire[n] EXCEPT !.left = @ - 1] \in [seq_id : 0..MaxSeq, left : 0..MaxReplies]
      BY <1>2, <2>1 DEF ReplyArrives
    <3>2. wire' = [wire EXCEPT ![n] = [wire[n] EXCEPT !.left = @ - 1]]
      BY <1>2, <2>1 DEF ReplyArrives, LinkTypeOK
    <3> QED BY <3>1, <3>2 DEF LinkTypeOK
  <2>2. CASE ReplyLost(n)
    BY <1>2, <2>2 DEF ReplyLost, LinkTypeOK
  <2> QED BY <1>1, <2>1, <2>2
<1>4. [seq_id |-> wire[n].seq_id, call |-> n] \in Packets
  BY <1>2 DEF Packets, Calls
<1>5. RouterTypeOK'
  <2>1. CASE ReplyArrives(n)
    <3> DEFINE p == [seq_id |-> wire[n].seq_id, call |-> n]
    <3>1. Append(rx_queue, p) \in Seq(Packets) /\ Len(Append(rx_queue, p)) = Len(rx_queue) + 1
      BY <1>4 DEF RouterTypeOK
    <3>2. rx_queue' \in Seq(Packets) /\ Len(rx_queue') <= QueueLen
      BY <2>1, <3>1 DEF ReplyArrives, RouterTypeOK
    <3> QED BY <2>1, <3>2 DEF ReplyArrives, RouterTypeOK
  <2>2. CASE ReplyLost(n)
    BY <2>2 DEF ReplyLost, RouterTypeOK, routerVars
  <2> QED BY <1>1, <2>1, <2>2
<1> QED BY <1>1, <1>3, <1>5 DEF ReplyArrives, ReplyLost, TableTypeOK, CallerTypeOK,
    LinkTypeOK, tableVars, callerVars, routerVars, historyVars

-----------------------------------------------------------------------------
(* The binding of callers to slots. *)

(* What the dispatcher task and the link change does not concern it. *)
LEMMA BindingUnchanged ==
  ASSUME Binding, UNCHANGED <<active, slot_seq, mutex, pc, seq_id, slot, leaked>>
  PROVE  Binding'
BY DEF Binding, FreeSlotsUnnamed, DistinctIds, MutexHeld, ClaimedSlot, BoundSlot,
   Names, OnlyLeakedShared, NoOrphanSlot, Keeps

(* A caller that holds its slot goes on holding it. *)
LEMMA HoldingMoves ==
  ASSUME TypeOK, Binding, NEW c \in Callers, NEW label \in Holding, Goto(c, label),
         pc[c] \in Holding,
         label \in {"wait", "copy", "destroy"} => pc[c] \in {"wait", "copy", "destroy"},
         UNCHANGED <<active, slot_seq, mutex, seq_id, slot, leaked>>
  PROVE  Binding'
<1> USE DEF TypeOK, CallerTypeOK, Binding, Goto, Holding
<1>1. FreeSlotsUnnamed' /\ OnlyLeakedShared'
  BY DEF FreeSlotsUnnamed, OnlyLeakedShared
<1>2. DistinctIds' /\ MutexHeld' /\ ClaimedSlot'
  BY DEF DistinctIds, MutexHeld, ClaimedSlot
<1>3. BoundSlot'
  BY DEF BoundSlot, Names
<1>4. \A d \in Callers, i \in Slots : Keeps(d, i) => Keeps(d, i)'
  BY DEF Keeps
<1>5. NoOrphanSlot'
  BY <1>4 DEF NoOrphanSlot
<1> QED BY <1>1, <1>2, <1>3, <1>5

(* A caller returns; the slots it kept, if any, are accounted as leaked. *)
LEMMA ReturnBinding ==
  ASSUME TypeOK, Binding, NEW c \in Callers, NEW r, Return(c, r),
         UNCHANGED <<active, slot_seq>>,
         mutex' = mutex \/ mutex = c,
         leaked \subseteq leaked',
         \A i \in Slots : active[i] /\ Keeps(c, i) => slot_seq[i] \in leaked'
  PROVE  Binding'
<1> USE DEF TypeOK, CallerTypeOK, Binding, Return, Goto
<1>1. \A d \in Callers : d # c =>
        pc'[d] = pc[d] /\ seq_id'[d] = seq_id[d] /\ slot'[d] = slot[d]
  OBVIOUS
<1>2. pc'[c] = "idle"
  OBVIOUS
<1>3. FreeSlotsUnnamed' /\ OnlyLeakedShared'
  BY DEF FreeSlotsUnnamed, OnlyLeakedShared
<1>4. DistinctIds' /\ MutexHeld' /\ ClaimedSlot'
  BY <1>1, <1>2 DEF DistinctIds, MutexHeld, ClaimedSlot
<1>5. BoundSlot'
  BY <1>1, <1>2 DEF BoundSlot, Names, Holding
<1>6. \A d \in Callers, i \in Slots : d # c /\ Keeps(d, i) => Keeps(d, i)'
  BY <1>1 DEF Keeps
<1>7. NoOrphanSlot'
  BY <1>6 DEF NoOrphanSlot
<1> QED BY <1>3, <1>4, <1>5, <1>7

LEMMA AllocateBinding ==
  ASSUME IInv, NEW c \in Callers, AllocateSeqId(c)
  PROVE  Binding'
<1> USE DEF IInv, TypeOK, TableTypeOK, CallerTypeOK, Binding, AllocateSeqId, Goto
<1>1. /\ pc' = [pc EXCEPT ![c] = "create"] /\ seq_id' = [seq_id EXCEPT ![c] = next_seq_id]
      /\ UNCHANGED <<active, slot_seq, mutex, slot, leaked>>
  BY DEF tableVars
<1>2. FreeSlotsUnnamed' /\ OnlyLeakedShared'
  BY <1>1 DEF FreeSlotsUnnamed, OnlyLeakedShared
<1>3. MutexHeld' /\ ClaimedSlot'
  BY <1>1 DEF MutexHeld, ClaimedSlot
<1>4. DistinctIds'
  BY <1>1 DEF DistinctIds, NoLap
<1>5. BoundSlot'
  BY <1>1 DEF BoundSlot, Names, Holding
<1>6. \A d \in Callers, i \in Slots : Keeps(d, i) => Keeps(d, i)'
  BY <1>1 DEF Keeps, Holding
<1>7. NoOrphanSlot'
  BY <1>1, <1>6 DEF NoOrphanSlot
<1> QED BY <1>2, <1>3, <1>4, <1>5, <1>7

LEMMA ClaimBinding ==
  ASSUME IInv, NEW c \in Callers, CreateClaim(c)
  PROVE  Binding'
<1> USE DEF IInv, TypeOK, TableTypeOK, CallerTypeOK, Binding
<1>1. PICK i \in Slots :
        /\ i \in Free
        /\ active' = [active EXCEPT ![i] = TRUE]
        /\ slot' = [slot EXCEPT ![c] = i]
  BY DEF CreateClaim, IsFirst
<1>2. /\ pc[c] = "create" /\ pc' = [pc EXCEPT ![c] = "stamp"]
      /\ mutex = None /\ mutex' = c
      /\ UNCHANGED <<slot_seq, seq_id, leaked>>
  BY DEF CreateClaim, Goto, historyVars
<1>3. ~active[i] /\ slot_seq[i] = 0
  BY <1>1 DEF Free, FreeSlotsUnnamed
<1>4. FreeSlotsUnnamed'
  BY <1>1, <1>2, <1>3 DEF FreeSlotsUnnamed
<1>5. OnlyLeakedShared'
  BY <1>1, <1>2, <1>3 DEF OnlyLeakedShared
<1>6. DistinctIds'
  BY <1>2 DEF DistinctIds
<1>7. MutexHeld'
  BY <1>2, ConstantsAssumption DEF MutexHeld
<1>8. ClaimedSlot'
  BY <1>1, <1>2, <1>3 DEF ClaimedSlot
<1>9. BoundSlot'
  BY <1>1, <1>2, <1>3 DEF BoundSlot, Names, Holding
<1>10. NoOrphanSlot'
  <2>1. \A d \in Callers, j \in Slots : Keeps(d, j) => Keeps(d, j)'
    BY <1>1, <1>2 DEF Keeps, Holding
  <2>2. Keeps(c, i)'
    BY <1>1, <1>2 DEF Keeps
  <2> QED BY <1>1, <1>2, <2>1, <2>2 DEF NoOrphanSlot
<1> QED BY <1>4, <1>5, <1>6, <1>7, <1>8, <1>9, <1>10

LEMMA StampBinding ==
  ASSUME IInv, NEW c \in Callers, CreateStamp(c)
  PROVE  Binding'
<1> USE DEF IInv, TypeOK, TableTypeOK, CallerTypeOK, Binding
<1> DEFINE i == slot[c]
<1>1. /\ pc[c] = "stamp" /\ pc' = [pc EXCEPT ![c] = "send"]
      /\ slot_seq' = [slot_seq EXCEPT ![i] = seq_id[c]]
      /\ mutex = c /\ mutex' = None
      /\ UNCHANGED <<active, seq_id, slot, leaked>>
  BY DEF CreateStamp, Goto, historyVars, MutexHeld
<1>2. i \in Slots /\ active[i] /\ slot_seq[i] = 0
  BY <1>1 DEF ClaimedSlot
<1>3. seq_id[c] \in SeqIds /\ seq_id[c] # 0
  BY <1>1 DEF DistinctIds, SeqIds
<1>4. \A j \in Slots : j # i => slot_seq'[j] = slot_seq[j]
  BY <1>1
<1>5. slot_seq'[i] = seq_id[c]
  BY <1>1, <1>2
<1>6. \A d \in Callers : d # c => pc'[d] = pc[d] /\ pc[d] \notin {"stamp", "clear"}
  BY <1>1 DEF MutexHeld
<1>7. FreeSlotsUnnamed'
  BY <1>1, <1>2, <1>4 DEF FreeSlotsUnnamed
<1>8. DistinctIds' /\ MutexHeld' /\ ClaimedSlot'
  BY <1>1, <1>6 DEF DistinctIds, MutexHeld, ClaimedSlot
<1>9. OnlyLeakedShared'
  <2>1. \A j \in Slots : j # i /\ active[j] /\ slot_seq[j] = seq_id[c]
                          => slot_seq[j] \in leaked
    <3> SUFFICES ASSUME NEW j \in Slots, j # i, active[j], slot_seq[j] = seq_id[c],
                        NEW d \in Callers, Keeps(d, j)
                 PROVE  FALSE
      BY DEF NoOrphanSlot
    <3>1. CASE pc[d] \in Holding /\ slot_seq[j] = seq_id[d]
      BY <1>1, <3>1 DEF DistinctIds, Holding
    <3>2. CASE pc[d] = "stamp" /\ slot[d] = j
      BY <1>1, <1>6, <3>2
    <3> QED BY <3>1, <3>2 DEF Keeps
  <2> QED BY <1>1, <1>4, <1>5, <2>1 DEF OnlyLeakedShared
<1>10. BoundSlot'
  <2> SUFFICES ASSUME NEW d \in Callers
               PROVE  /\ pc'[d] \in Holding => \E j \in Slots : Names(d, j)'
                      /\ pc'[d] \in {"wait", "copy", "destroy"} =>
                           slot'[d] \in Slots /\ Names(d, slot[d])'
    BY <1>1 DEF BoundSlot
  <2>1. CASE d = c
    BY <1>1, <1>2, <1>5, <2>1 DEF Names
  <2>2. CASE d # c
    <3>1. pc[d] \in Holding => seq_id[d] # 0
      BY DEF DistinctIds, Holding, SeqIds
    <3>2. \A j \in Slots : pc[d] \in Holding /\ Names(d, j) => Names(d, j)'
      BY <1>1, <1>2, <1>4, <3>1 DEF Names
    <3> QED BY <1>1, <1>6, <2>2, <3>2 DEF BoundSlot, Holding
  <2> QED BY <2>1, <2>2
<1>11. NoOrphanSlot'
  <2>1. Keeps(c, i)'
    BY <1>1, <1>5 DEF Keeps, Holding
  <2>2. \A d \in Callers, j \in Slots : j # i /\ Keeps(d, j) => Keeps(d, j)'
    BY <1>1, <1>4, <1>6 DEF Keeps, Holding
  <2> QED BY <1>1, <1>4, <2>1, <2>2 DEF NoOrphanSlot
<1> QED BY <1>7, <1>8, <1>9, <1>10, <1>11

LEMMA FindBinding ==
  ASSUME IInv, NEW c \in Callers, WaitFind(c)
  PROVE  Binding'
<1> USE DEF IInv, TypeOK, CallerTypeOK, Binding
<1>1. pc[c] = "find" /\ \E i \in Slots : Names(c, i)
  BY DEF WaitFind, BoundSlot, Holding
<1>2. Matching(seq_id[c]) # {}
  BY <1>1 DEF Matching, Names
<1>3. PICK i \in Slots : /\ i \in Matching(seq_id[c])
                         /\ slot' = [slot EXCEPT ![c] = i]
  BY <1>2 DEF WaitFind, IsFirst
<1>4. /\ pc' = [pc EXCEPT ![c] = "wait"]
      /\ UNCHANGED <<active, slot_seq, mutex, seq_id, leaked>>
  BY <1>2 DEF WaitFind, Goto, tableVars
<1>5. Names(c, i)
  BY <1>3 DEF Matching, Names
<1>6. FreeSlotsUnnamed' /\ OnlyLeakedShared'
  BY <1>4 DEF FreeSlotsUnnamed, OnlyLeakedShared
<1>7. DistinctIds' /\ MutexHeld' /\ ClaimedSlot'
  BY <1>1, <1>3, <1>4 DEF DistinctIds, MutexHeld, ClaimedSlot
<1>8. BoundSlot'
  BY <1>3, <1>4, <1>5 DEF BoundSlot, Names, Holding
<1>9. \A d \in Callers, j \in Slots : Keeps(d, j) => Keeps(d, j)'
  BY <1>1, <1>3, <1>4 DEF Keeps, Holding
<1>10. NoOrphanSlot'
  BY <1>4, <1>9 DEF NoOrphanSlot
<1> QED BY <1>6, <1>7, <1>8, <1>10

(* The slot that destroy_transaction() frees is the only one its caller    *)
(* kept: another one under the same id was left behind by a failed send.   *)
LEMMA DestroyBinding ==
  ASSUME IInv, NEW c \in Callers, DestroyFree(c)
  PROVE  Binding'
<1> USE DEF IInv, TypeOK, TableTypeOK, CallerTypeOK, Binding
<1>1. pc[c] = "destroy" /\ mutex = None /\ \E i \in Slots : Names(c, i)
  BY DEF DestroyFree, BoundSlot, Holding
<1>2. Matching(seq_id[c]) # {}
  BY <1>1 DEF Matching, Names
<1>3. PICK i \in Slots : /\ i \in Matching(seq_id[c])
                         /\ active' = [active EXCEPT ![i] = FALSE]
                         /\ slot_seq' = [slot_seq EXCEPT ![i] = 0]
                         /\ slot' = [slot EXCEPT ![c] = i]
  BY <1>2 DEF DestroyFree, IsFirst
<1>4. pc' = [pc EXCEPT ![c] = "clear"] /\ mutex' = c /\ UNCHANGED <<seq_id, leaked>>
  BY <1>2 DEF DestroyFree, Goto
<1>5. active[i] /\ slot_seq[i] = seq_id[c] /\ seq_id[c] # 0
  BY <1>1, <1>3 DEF Matching, DistinctIds, SeqIds
<1>6. \A j \in Slots : j # i => active'[j] = active[j] /\ slot_seq'[j] = slot_seq[j]
  BY <1>3
<1>7. ~active'[i] /\ slot_seq'[i] = 0
  BY <1>3
<1>8. \A d \in Callers : d # c =>
        /\ pc'[d] = pc[d] /\ slot'[d] = slot[d]
        /\ pc[d] \notin {"stamp", "clear"}
        /\ pc[d] # "idle" => seq_id[d] # seq_id[c]
  BY <1>1, <1>3, <1>4, ConstantsAssumption DEF MutexHeld, DistinctIds
<1>9. FreeSlotsUnnamed'
  BY <1>6, <1>7 DEF FreeSlotsUnnamed
<1>10. OnlyLeakedShared'
  BY <1>4, <1>6, <1>7 DEF OnlyLeakedShared
<1>11. DistinctIds' /\ MutexHeld' /\ ClaimedSlot'
  BY <1>1, <1>4, <1>8 DEF DistinctIds, MutexHeld, ClaimedSlot
<1>12. BoundSlot'
  <2> SUFFICES ASSUME NEW d \in Callers
               PROVE  /\ pc'[d] \in Holding => \E j \in Slots : Names(d, j)'
                      /\ pc'[d] \in {"wait", "copy", "destroy"} =>
                           slot'[d] \in Slots /\ Names(d, slot[d])'
    BY <1>3 DEF BoundSlot
  <2>1. CASE d = c
    BY <1>4, <2>1 DEF Holding
  <2>2. CASE d # c
    <3>1. pc[d] \in Holding => seq_id[d] # seq_id[c]
      BY <1>8, <2>2 DEF Holding
    <3>2. \A j \in Slots : pc[d] \in Holding /\ Names(d, j) => j # i /\ Names(d, j)'
      BY <1>4, <1>5, <1>6, <3>1 DEF Names
    <3> QED BY <1>8, <2>2, <3>2 DEF BoundSlot, Holding
  <2> QED BY <2>1, <2>2
<1>13. NoOrphanSlot'
  <2>1. SUFFICES ASSUME NEW j \in Slots, active'[j]
                 PROVE  slot_seq'[j] \in leaked' \/ \E d \in Callers : Keeps(d, j)'
    BY DEF NoOrphanSlot
  <2>2. j # i /\ active[j] /\ slot_seq'[j] = slot_seq[j]
    BY <1>6, <1>7, <2>1
  <2>3. CASE slot_seq[j] \in leaked
    BY <1>4, <2>2, <2>3
  <2>4. ASSUME NEW d \in Callers, Keeps(d, j) PROVE Keeps(d, j)' \/ slot_seq[j] \in leaked
    <3>1. CASE d = c
      <4>1. slot_seq[j] = slot_seq[i]
        BY <1>1, <1>5, <2>4, <3>1 DEF Keeps
      <4> QED BY <1>5, <2>2, <4>1 DEF OnlyLeakedShared
    <3>2. CASE d # c
      BY <1>4, <1>8, <2>2, <2>4, <3>2 DEF Keeps
    <3> QED BY <3>1, <3>2
  <2>5. slot_seq[j] \in leaked \/ \E d \in Callers : Keeps(d, j)
    BY <2>2 DEF NoOrphanSlot
  <2> QED BY <1>4, <2>2, <2>3, <2>4, <2>5
<1> QED BY <1>9, <1>10, <1>11, <1>12, <1>13

LEMMA CallStepBinding ==
  ASSUME IInv, NEW c \in Callers, CallStep(c)
  PROVE  Binding'
<1> USE DEF IInv
<1>1. CASE CreateClaim(c)
  BY <1>1, ClaimBinding
<1>2. CASE CreateStamp(c)
  BY <1>2, StampBinding
<1>3. CASE CreateFull(c)
  <2>1. \A i \in Slots : ~active[i]  \/ ~Keeps(c, i)
    BY <1>3 DEF CreateFull, Keeps, Holding
  <2> QED BY <1>3, <2>1, ReturnBinding DEF CreateFull, tableVars
<1>4. CASE SendOk(c)
  <2>1. "find" \in Holding /\ pc[c] \in Holding /\ Goto(c, "find")
    BY <1>4 DEF SendOk, Holding
  <2> QED BY <1>4, <2>1, HoldingMoves DEF SendOk, tableVars, historyVars
<1>5. CASE SendFail(c)
  <2>1. \A i \in Slots : Keeps(c, i) => slot_seq[i] \in leaked'
    BY <1>5 DEF SendFail, Keeps
  <2> QED BY <1>5, <2>1, ReturnBinding DEF SendFail, tableVars
<1>6. CASE WaitFind(c)
  BY <1>6, FindBinding
<1>7. CASE WaitTake(c)
  <2>1. "copy" \in Holding /\ pc[c] \in Holding /\ pc[c] = "wait" /\ Goto(c, "copy")
    BY <1>7 DEF WaitTake, Holding
  <2> QED BY <1>7, <2>1, HoldingMoves DEF WaitTake, historyVars
<1>8. CASE WaitTimeout(c)
  <2>1. "destroy" \in Holding /\ pc[c] \in Holding /\ pc[c] = "wait" /\ Goto(c, "destroy")
    BY <1>8 DEF WaitTimeout, Holding
  <2> QED BY <1>8, <2>1, HoldingMoves DEF WaitTimeout, tableVars, historyVars
<1>9. CASE WaitCopy(c)
  <2>1. "destroy" \in Holding /\ pc[c] \in Holding /\ pc[c] = "copy" /\ Goto(c, "destroy")
    BY <1>9 DEF WaitCopy, Holding
  <2> QED BY <1>9, <2>1, HoldingMoves DEF WaitCopy, tableVars
<1>10. CASE DestroyFree(c)
  BY <1>10, DestroyBinding
<1>11. CASE DestroyClear(c)
  <2>1. mutex = c
    BY <1>11 DEF DestroyClear, Binding, MutexHeld
  <2>2. \A i \in Slots : ~Keeps(c, i)
    BY <1>11 DEF DestroyClear, Keeps, Holding
  <2> QED BY <1>11, <2>1, <2>2, ReturnBinding DEF DestroyClear
<1> QED BY <1>1, <1>2, <1>3, <1>4, <1>5, <1>6, <1>7, <1>8, <1>9, <1>10, <1>11
    DEF CallStep

-----------------------------------------------------------------------------
LEMMA StepIInv == IInv /\ [Next]_vars => IInv'
<1> SUFFICES ASSUME IInv, [Next]_vars PROVE IInv'
  OBVIOUS
<1>1. ASSUME NEW c \in Callers, AllocateSeqId(c) PROVE IInv'
  BY <1>1, AllocateTyped, AllocateBinding DEF IInv, AllocateSeqId, RouterSlot
<1>2. ASSUME NEW c \in Callers, CallStep(c) PROVE IInv'
  <2>1. UNCHANGED <<rpc, rslot>>
    BY <1>2 DEF CallStep, CreateClaim, CreateStamp, CreateFull, SendOk, SendFail,
       WaitFind, WaitTake, WaitTimeout, WaitCopy, DestroyFree, DestroyClear, routerVars
  <2> QED BY <1>2, <2>1, CallStepTyped, CallStepBinding DEF IInv, RouterSlot
<1>3. CASE Resolve
  <2>1. UNCHANGED <<active, slot_seq, mutex, pc, seq_id, slot, leaked>>
    BY <1>3 DEF Resolve, ResolveFind, ResolveHeader, ResolvePayload, ResolveGive,
       tableVars, callerVars, historyVars
  <2> QED BY <1>3, <2>1, ResolveTyped, BindingUnchanged DEF IInv
<1>4. CASE Link
  <2>1. UNCHANGED <<active, slot_seq, mutex, pc, seq_id, slot, leaked, rpc, rslot>>
    BY <1>4 DEF Link, ReplyArrives, ReplyLost, tableVars, callerVars, routerVars,
       historyVars
  <2> QED BY <1>4, <2>1, LinkTyped, BindingUnchanged DEF IInv, RouterSlot
<1>5. CASE UNCHANGED vars
  <2>1. UNCHANGED <<active, slot_seq, mutex, pc, seq_id, slot, leaked, rpc, rslot>>
    BY <1>5 DEF vars, tableVars, callerVars, routerVars, historyVars
  <2>2. TypeOK'
    BY <1>5 DEF IInv, TypeOK, TableTypeOK, CallerTypeOK, RouterTypeOK, LinkTypeOK,
       vars, tableVars, callerVars, routerVars, historyVars
  <2> QED BY <2>1, <2>2, BindingUnchanged DEF IInv, RouterSlot
<1> QED BY <1>1, <1>2, <1>3, <1>4, <1>5 DEF Next, Finished

LEMMA Invariance == Spec => []IInv
BY InitIInv, StepIInv, PTL DEF Spec

(* Every variable keeps its type in every behaviour. *)
THEOREM TypeCorrect == Spec => []TypeOK
<1>1. IInv => TypeOK
  BY DEF IInv
<1> QED BY <1>1, Invariance, PTL

(* The pointer that wait_reply() reads without mutex_ stays the caller's   *)
(* own slot until its own destroy_transaction(), for any number of tasks,  *)
(* slots, ids and replies.                                                 *)
THEOREM SlotOwnership == Spec => []OwnSlot
<1>1. IInv => OwnSlot
  <2> SUFFICES ASSUME IInv PROVE OwnSlot
    OBVIOUS
  <2>1. \A c \in Callers : pc[c] \in Holding => Matching(seq_id[c]) # {}
    BY DEF IInv, Binding, BoundSlot, Names, Matching
  <2>2. \A c \in Callers :
          pc[c] \in {"wait", "copy", "destroy"} => slot[c] \in Matching(seq_id[c])
    BY DEF IInv, Binding, BoundSlot, Names, Matching
  <2>3. \A c, d \in Callers :
          /\ pc[c] \in {"wait", "copy"} /\ pc[d] \in {"wait", "copy"}
          /\ slot[c] = slot[d]
          => c = d
    BY <2>2 DEF IInv, Binding, DistinctIds, Matching
  <2> QED BY <2>1, <2>2, <2>3 DEF OwnSlot
<1> QED BY <1>1, Invariance, PTL

(* Nothing but a failed send leaves a slot of the table active behind it.  *)
THEOREM OnlyFailedSendsLeak == Spec => []NoOrphanSlot
<1>1. IInv => NoOrphanSlot
  BY DEF IInv, Binding
<1> QED BY <1>1, Invariance, PTL

-----------------------------------------------------------------------------
(* Calls and their numbers, however many turns the id counter makes. *)

CallNumbers ==
  /\ \A c \in Callers : IF pc[c] = "idle" THEN call[c] = 0 ELSE call[c] \in 1..issued
  /\ \A c, d \in Callers : call[c] = call[d] /\ call[c] # 0 => c = d
  /\ callback # None => pc[callback] # "idle" /\ rpc = "receive"

(* A reply to call n is on its way or in the table. *)
Carried(n) ==
  \/ wire[n].left > 0
  \/ \E k \in 1..Len(rx_queue) : rx_queue[k].call = n
  \/ packet.call = n
  \/ \E i \in Slots : reply[i].call = n

Unsent == {"create", "stamp", "send"}

(* Replies are only to calls that were sent. *)
RepliesToSent ==
  \A n \in Calls : Carried(n) =>
    n <= issued /\ \A c \in Callers : call[c] = n => pc[c] \notin Unsent

(* The local reply packet is cleared until it is copied. *)
ClearedUntilCopied ==
  \A c \in Callers : pc[c] \notin {"destroy", "clear"} => out_reply[c] = Cleared

(* No reply to a call of a callback gets to the table. *)
NestedUnanswered ==
  \A c \in Callers : callback = c =>
    /\ \A i \in Slots : reply[i].call # call[c]
    /\ out_reply[c].call # call[c]

(* A slot whose reply is being zeroed is free. *)
ClearedSlotFree ==
  \A c \in Callers : pc[c] = "clear" => slot[c] \in Slots /\ ~active[slot[c]]

Calling ==
  CallNumbers /\ RepliesToSent /\ ClearedUntilCopied /\ NestedUnanswered /\ ClearedSlotFree

LEMMA InitCalling == Init => Calling
<1> SUFFICES ASSUME Init PROVE Calling
  OBVIOUS
<1>1. \A n \in Calls : ~Carried(n)
  BY ConstantsAssumption DEF Init, Carried, Calls, Cleared
<1> QED BY <1>1, ConstantsAssumption DEF Init, Calling, CallNumbers, RepliesToSent,
    ClearedUntilCopied, NestedUnanswered, ClearedSlotFree

(* A caller bound to a slot finds it again, whoever else uses the table. *)
LEMMA BoundFound ==
  ASSUME IInv, NEW c \in Callers, pc[c] \in Holding
  PROVE  Matching(seq_id[c]) # {}
BY DEF IInv, Binding, BoundSlot, Names, Matching

(* What stands in a queue after an element was appended. *)
LEMMA AppendIndex ==
  ASSUME NEW S, NEW s \in Seq(S), NEW x \in S, NEW k \in 1..Len(Append(s, x))
  PROVE  \/ k = Len(s) + 1 /\ Append(s, x)[k] = x
         \/ k \in 1..Len(s) /\ Append(s, x)[k] = s[k]
OBVIOUS

(* A reply appears nowhere but from a request that is sent. *)
LEMMA CarriedStep ==
  ASSUME IInv, Next, NEW n \in Calls, Carried(n)'
  PROVE  \/ Carried(n)
         \/ \E c \in Callers : call[c] = n /\ pc[c] = "send" /\ pc'[c] \notin Unsent
<1> USE ConstantsAssumption DEF IInv, TypeOK, TableTypeOK, RouterTypeOK, Packets
<1>0. n # 0
  BY DEF Calls
<1>1. CASE UNCHANGED <<wire, rx_queue, packet, reply>>
  BY <1>1 DEF Carried
<1>2. ASSUME NEW c \in Callers, SendOk(c) \/ SendFail(c)
      PROVE  \/ Carried(n)
             \/ \E d \in Callers : call[d] = n /\ pc[d] = "send" /\ pc'[d] \notin Unsent
  <2>1. /\ pc[c] = "send" /\ pc'[c] \notin Unsent /\ UNCHANGED <<rx_queue, packet, reply>>
        /\ \A m \in Calls \ {call[c]} : wire'[m] = wire[m]
    BY <1>2 DEF SendOk, SendFail, Return, Goto, Unsent, CallerTypeOK, LinkTypeOK, tableVars,
       routerVars
  <2> QED BY <2>1 DEF Carried
<1>3. ASSUME NEW c \in Callers, DestroyClear(c) PROVE Carried(n)
  <2>1. \A i \in Slots : reply'[i] = reply[i] \/ reply'[i].call = 0
    BY <1>3 DEF DestroyClear, Cleared
  <2> QED BY <1>0, <1>3, <2>1 DEF DestroyClear, Carried
<1>4. CASE ResolveFind
  <2>1. /\ rx_queue # <<>> /\ rx_queue' = Tail(rx_queue)
        /\ packet' = packet \/ packet' = Head(rx_queue)
        /\ UNCHANGED <<wire, reply>>
    BY <1>4 DEF ResolveFind, tableVars
  <2>2. \A k \in 1..Len(rx_queue') : rx_queue'[k] = rx_queue[k + 1] /\ k + 1 \in 1..Len(rx_queue)
    BY <2>1
  <2>3. Head(rx_queue) = rx_queue[1] /\ 1 \in 1..Len(rx_queue)
    BY <2>1
  <2> QED BY <2>1, <2>2, <2>3 DEF Carried
<1>5. CASE ResolveHeader \/ ResolvePayload
  <2>1. /\ UNCHANGED <<wire, rx_queue, packet>>
        /\ \A i \in Slots : reply'[i].call = reply[i].call \/ reply'[i].call = packet.call
    <3>1. CASE ResolveHeader
      BY <3>1 DEF ResolveHeader
    <3>2. CASE ResolvePayload
      BY <3>2 DEF ResolvePayload
    <3> QED BY <1>5, <3>1, <3>2
  <2> QED BY <2>1 DEF Carried
<1>6. CASE ResolveGive
  BY <1>0, <1>6 DEF ResolveGive, Carried, Cleared
<1>7. ASSUME NEW m \in Calls, ReplyArrives(m) \/ ReplyLost(m) PROVE Carried(n)
  <2>1. wire'[n].left > 0 => wire[n].left > 0
    BY <1>7 DEF ReplyArrives, ReplyLost, LinkTypeOK
  <2>2. ASSUME NEW k \in 1..Len(rx_queue'), rx_queue'[k].call = n
        PROVE  Carried(n)
    <3>1. CASE rx_queue' = rx_queue
      BY <2>2, <3>1 DEF Carried
    <3>2. CASE rx_queue' # rx_queue
      <4> DEFINE p == [seq_id |-> wire[m].seq_id, call |-> m]
      <4>1. rx_queue' = Append(rx_queue, p) /\ wire[m].left > 0
        BY <1>7, <3>2 DEF ReplyArrives, ReplyLost, routerVars
      <4>2. p \in Packets
        BY DEF Calls, LinkTypeOK
      <4>3. \/ rx_queue'[k] = p
            \/ k \in 1..Len(rx_queue) /\ rx_queue'[k] = rx_queue[k]
        BY <4>1, <4>2, AppendIndex
      <4> QED BY <2>2, <4>1, <4>3 DEF Carried
    <3> QED BY <3>1, <3>2
  <2>3. UNCHANGED <<packet, reply>>
    BY <1>7 DEF ReplyArrives, ReplyLost, tableVars, routerVars
  <2> QED BY <2>1, <2>2, <2>3 DEF Carried
<1>8. ASSUME NEW c \in Callers,
             \/ AllocateSeqId(c) \/ CreateClaim(c) \/ CreateStamp(c) \/ CreateFull(c)
             \/ WaitFind(c) \/ WaitTake(c) \/ WaitTimeout(c) \/ WaitCopy(c)
             \/ DestroyFree(c)
      PROVE  UNCHANGED <<wire, rx_queue, packet, reply>>
  BY <1>8 DEF AllocateSeqId, CreateClaim, CreateStamp, CreateFull, WaitFind, WaitTake,
     WaitTimeout, WaitCopy, DestroyFree, tableVars, routerVars
<1>9. CASE Finished
  BY <1>1, <1>9 DEF Finished, vars, tableVars, routerVars
<1> QED BY <1>1, <1>2, <1>3, <1>4, <1>5, <1>6, <1>7, <1>8, <1>9
    DEF Next, CallStep, Resolve, Link

LEMMA StepCallNumbers ==
  ASSUME IInv, CallNumbers, Next
  PROVE  CallNumbers'
<1> USE ConstantsAssumption
    DEF IInv, TypeOK, CallerTypeOK, LinkTypeOK, CallNumbers
<1>1. ASSUME NEW c \in Callers, AllocateSeqId(c) PROVE CallNumbers'
  BY <1>1 DEF AllocateSeqId, Goto, RouterFree
<1>2. ASSUME NEW c \in Callers, NEW r, Return(c, r), UNCHANGED <<issued, rpc>>
      PROVE  CallNumbers'
  BY <1>2 DEF Return, Goto
<1>3. ASSUME NEW c \in Callers, NEW label \in {"stamp", "send", "find", "wait", "copy",
                                               "destroy", "clear"},
             Goto(c, label), pc[c] # "idle", UNCHANGED <<issued, call, callback, rpc>>
      PROVE  CallNumbers'
  BY <1>3 DEF Goto
<1>4. ASSUME NEW c \in Callers, CallStep(c) PROVE CallNumbers'
  <2>1. CASE CreateFull(c) \/ SendFail(c) \/ DestroyClear(c)
    BY <1>2, <2>1 DEF CreateFull, SendFail, DestroyClear
  <2>2. CASE \/ CreateClaim(c) \/ CreateStamp(c) \/ SendOk(c) \/ WaitTake(c)
             \/ WaitTimeout(c) \/ WaitCopy(c)
    BY <1>3, <2>2 DEF CreateClaim, CreateStamp, SendOk, WaitTake, WaitTimeout, WaitCopy,
       routerVars, historyVars
  <2>3. CASE WaitFind(c) \/ DestroyFree(c)
    BY <1>2, <1>3, <2>3 DEF WaitFind, DestroyFree
  <2> QED BY <1>4, <2>1, <2>2, <2>3 DEF CallStep
<1>5. CASE Resolve
  BY <1>5 DEF Resolve, ResolveFind, ResolveHeader, ResolvePayload, ResolveGive,
     RouterFree, callerVars, historyVars
<1>6. CASE Link \/ Finished
  BY <1>6 DEF Link, ReplyArrives, ReplyLost, Finished, vars, callerVars, routerVars,
     historyVars
<1> QED BY <1>1, <1>4, <1>5, <1>6 DEF Next

(* A call not yet sent was not sent before, and a new one is new. *)
LEMMA UnsentStep ==
  ASSUME IInv, Next, NEW d \in Callers, pc'[d] \in Unsent
  PROVE  \/ pc[d] \in Unsent /\ call'[d] = call[d]
         \/ call'[d] = issued + 1
<1> USE DEF IInv, TypeOK, CallerTypeOK, Unsent
<1>1. ASSUME NEW c \in Callers, AllocateSeqId(c)
      PROVE  (pc[d] \in Unsent /\ call'[d] = call[d]) \/ call'[d] = issued + 1
  BY <1>1 DEF AllocateSeqId, Goto
<1>2. ASSUME NEW c \in Callers, NEW r, Return(c, r)
      PROVE  pc[d] \in Unsent /\ call'[d] = call[d]
  BY <1>2 DEF Return, Goto
<1>3. ASSUME NEW c \in Callers, CallStep(c) PROVE pc[d] \in Unsent /\ call'[d] = call[d]
  <2>1. CASE CreateFull(c) \/ SendFail(c) \/ DestroyClear(c)
    BY <1>2, <2>1 DEF CreateFull, SendFail, DestroyClear
  <2>2. CASE \/ CreateClaim(c) \/ CreateStamp(c) \/ SendOk(c) \/ WaitTake(c)
             \/ WaitTimeout(c) \/ WaitCopy(c)
    BY <2>2 DEF CreateClaim, CreateStamp, SendOk, WaitTake, WaitTimeout, WaitCopy, Goto,
       historyVars
  <2>3. CASE WaitFind(c) \/ DestroyFree(c)
    BY <1>2, <2>3 DEF WaitFind, DestroyFree, Goto
  <2> QED BY <1>3, <2>1, <2>2, <2>3 DEF CallStep
<1>4. CASE Resolve \/ Link \/ Finished
  BY <1>4 DEF Resolve, ResolveFind, ResolveHeader, ResolvePayload, ResolveGive, Link,
     ReplyArrives, ReplyLost, Finished, vars, callerVars, historyVars
<1> QED BY <1>1, <1>3, <1>4 DEF Next

LEMMA IssuedGrows ==
  ASSUME IInv, Next
  PROVE  /\ issued' = issued \/ issued' = issued + 1
         /\ issued \in 0..MaxCalls
         /\ \A d \in Callers : pc[d] = "send" => issued' = issued \/ pc'[d] = "send"
<1> USE DEF IInv, TypeOK, LinkTypeOK, CallerTypeOK
<1>1. ASSUME NEW c \in Callers, AllocateSeqId(c)
      PROVE  /\ issued' = issued + 1
             /\ \A d \in Callers : pc[d] = "send" => pc'[d] = "send"
  BY <1>1 DEF AllocateSeqId, Goto
<1>2. ASSUME NEW c \in Callers, CallStep(c) PROVE issued' = issued
  BY <1>2 DEF CallStep, CreateClaim, CreateStamp, CreateFull, SendOk, SendFail,
     WaitFind, WaitTake, WaitTimeout, WaitCopy, DestroyFree, DestroyClear, historyVars
<1>3. CASE Resolve \/ Link \/ Finished
  BY <1>3 DEF Resolve, ResolveFind, ResolveHeader, ResolvePayload, ResolveGive, Link,
     ReplyArrives, ReplyLost, Finished, vars, historyVars
<1> QED BY <1>1, <1>2, <1>3 DEF Next

LEMMA StepRepliesToSent ==
  ASSUME IInv, CallNumbers, RepliesToSent, Next
  PROVE  RepliesToSent'
<1> SUFFICES ASSUME NEW n \in Calls, Carried(n)'
             PROVE  /\ n <= issued'
                    /\ \A d \in Callers : call'[d] = n => pc'[d] \notin Unsent
  BY DEF RepliesToSent
<1> USE DEF Calls
<1>1. CASE Carried(n)
  <2>1. n <= issued /\ \A d \in Callers : call[d] = n => pc[d] \notin Unsent
    BY <1>1 DEF RepliesToSent
  <2> QED BY <2>1, UnsentStep, IssuedGrows, ConstantsAssumption
<1>2. ASSUME NEW c \in Callers, call[c] = n, pc[c] = "send", pc'[c] \notin Unsent
      PROVE  n <= issued' /\ \A d \in Callers : call'[d] = n => pc'[d] \notin Unsent
  <2>1. n <= issued /\ issued' = issued
    BY <1>2, IssuedGrows, ConstantsAssumption DEF CallNumbers, Unsent
  <2>2. ASSUME NEW d \in Callers, call'[d] = n, pc'[d] \in Unsent PROVE FALSE
    <3>1. pc[d] \in Unsent /\ call[d] = n
      BY <2>1, <2>2, UnsentStep, IssuedGrows, ConstantsAssumption
    <3> QED BY <1>2, <2>2, <3>1 DEF CallNumbers
  <2> QED BY <2>1, <2>2
<1> QED BY <1>1, <1>2, CarriedStep

LEMMA StepClearedUntilCopied ==
  ASSUME IInv, ClearedUntilCopied, Next
  PROVE  ClearedUntilCopied'
<1> USE DEF IInv, TypeOK, CallerTypeOK, ClearedUntilCopied
<1>1. ASSUME NEW c \in Callers, NEW r, Return(c, r) PROVE ClearedUntilCopied'
  BY <1>1 DEF Return, Goto
<1>2. ASSUME NEW c \in Callers, NEW label \in {"create", "stamp", "send", "find", "wait",
                                               "copy", "destroy", "clear"},
             Goto(c, label), pc[c] \in {"destroy", "clear"} => label \in {"destroy", "clear"},
             UNCHANGED out_reply
      PROVE  ClearedUntilCopied'
  BY <1>2 DEF Goto
<1>3. ASSUME NEW c \in Callers, AllocateSeqId(c) PROVE ClearedUntilCopied'
  BY <1>2, <1>3 DEF AllocateSeqId
<1>4. ASSUME NEW c \in Callers, CallStep(c) PROVE ClearedUntilCopied'
  <2>1. CASE CreateFull(c) \/ SendFail(c) \/ DestroyClear(c)
    BY <1>1, <2>1 DEF CreateFull, SendFail, DestroyClear
  <2>2. CASE CreateClaim(c) \/ CreateStamp(c) \/ SendOk(c) \/ WaitTake(c) \/ WaitTimeout(c)
    BY <1>2, <2>2 DEF CreateClaim, CreateStamp, SendOk, WaitTake, WaitTimeout
  <2>3. CASE WaitCopy(c)
    BY <2>3 DEF WaitCopy, Goto
  <2>4. CASE WaitFind(c) \/ DestroyFree(c)
    BY <1>1, <1>2, <2>4 DEF WaitFind, DestroyFree
  <2> QED BY <1>4, <2>1, <2>2, <2>3, <2>4 DEF CallStep
<1>5. CASE Resolve \/ Link \/ Finished
  BY <1>5 DEF Resolve, ResolveFind, ResolveHeader, ResolvePayload, ResolveGive, Link,
     ReplyArrives, ReplyLost, Finished, vars, callerVars
<1> QED BY <1>3, <1>4, <1>5 DEF Next

LEMMA StepNestedUnanswered ==
  ASSUME IInv, Calling, Next
  PROVE  NestedUnanswered'
<1> USE ConstantsAssumption
    DEF IInv, TypeOK, TableTypeOK, CallerTypeOK, Calling, NestedUnanswered
<1>1. ASSUME NEW c \in Callers, AllocateSeqId(c) PROVE NestedUnanswered'
  <2>1. /\ pc[c] = "idle" /\ callback' \in {callback, c} /\ UNCHANGED <<reply, out_reply>>
        /\ call' = [call EXCEPT ![c] = issued + 1]
    BY <1>1 DEF AllocateSeqId, tableVars
  <2>2. callback # c
    BY <2>1 DEF CallNumbers
  <2>3. issued + 1 \in Calls /\ issued \in Nat
    BY <1>1 DEF AllocateSeqId, LinkTypeOK, Calls
  <2>4. ~Carried(issued + 1)
    BY <2>3 DEF RepliesToSent
  <2>5. \A i \in Slots : reply[i].call # issued + 1
    BY <2>4 DEF Carried
  <2>6. out_reply[c].call # issued + 1
    BY <2>1, <2>3 DEF ClearedUntilCopied, Cleared
  <2> QED BY <2>1, <2>2, <2>5, <2>6
<1>2. ASSUME NEW c \in Callers, NEW r, Return(c, r), UNCHANGED reply
      PROVE  NestedUnanswered'
  BY <1>2 DEF Return
<1>3. ASSUME NEW c \in Callers, CallStep(c) PROVE NestedUnanswered'
  <2>1. CASE CreateFull(c) \/ SendFail(c)
    BY <1>2, <2>1 DEF CreateFull, SendFail, tableVars
  <2>2. CASE CreateClaim(c) \/ CreateStamp(c) \/ SendOk(c) \/ WaitTake(c) \/ WaitTimeout(c)
    BY <2>2 DEF CreateClaim, CreateStamp, SendOk, WaitTake, WaitTimeout, tableVars,
       routerVars, historyVars
  <2>3. CASE WaitFind(c)
    <3>1. Matching(seq_id[c]) # {}
      BY <2>3, BoundFound DEF WaitFind, Holding
    <3> QED BY <2>3, <3>1 DEF WaitFind, tableVars
  <2>4. CASE WaitCopy(c)
    <3>1. slot[c] \in Slots
      BY <2>4 DEF WaitCopy, Binding, BoundSlot
    <3> QED BY <2>4, <3>1 DEF WaitCopy, tableVars, routerVars
  <2>5. CASE DestroyFree(c)
    <3>1. Matching(seq_id[c]) # {}
      BY <2>5, BoundFound DEF DestroyFree, Holding
    <3> QED BY <2>5, <3>1 DEF DestroyFree
  <2>6. CASE DestroyClear(c)
    <3>1. \A i \in Slots : reply'[i] = reply[i] \/ reply'[i].call = 0
      BY <2>6 DEF DestroyClear, Cleared
    <3>2. \A d \in Callers : callback' = d =>
             callback = d /\ call'[d] = call[d] /\ out_reply'[d] = out_reply[d]
      BY <2>6 DEF DestroyClear, Return
    <3>3. \A d \in Callers : callback = d => call[d] # 0
      BY DEF CallNumbers
    <3> QED BY <3>1, <3>2, <3>3
  <2> QED BY <1>3, <2>1, <2>2, <2>3, <2>4, <2>5, <2>6 DEF CallStep
<1>4. CASE ResolveHeader \/ ResolvePayload
  BY <1>4 DEF ResolveHeader, ResolvePayload, CallNumbers
<1>5. CASE ResolveFind \/ ResolveGive \/ Link \/ Finished
  BY <1>5 DEF ResolveFind, ResolveGive, Link, ReplyArrives, ReplyLost, Finished, vars,
     tableVars, callerVars, routerVars, historyVars
<1> QED BY <1>1, <1>3, <1>4, <1>5 DEF Next, Resolve

LEMMA StepClearedSlotFree ==
  ASSUME IInv, ClearedSlotFree, Next
  PROVE  ClearedSlotFree'
<1> USE ConstantsAssumption
    DEF IInv, TypeOK, TableTypeOK, CallerTypeOK, ClearedSlotFree
<1>1. ASSUME NEW c \in Callers, NEW r, Return(c, r), UNCHANGED active
      PROVE  ClearedSlotFree'
  BY <1>1 DEF Return, Goto
<1>2. ASSUME NEW c \in Callers, AllocateSeqId(c) PROVE ClearedSlotFree'
  BY <1>2 DEF AllocateSeqId, Goto, tableVars
<1>3. ASSUME NEW c \in Callers, CallStep(c) PROVE ClearedSlotFree'
  <2>1. CASE CreateFull(c) \/ SendFail(c) \/ DestroyClear(c)
    BY <1>1, <2>1 DEF CreateFull, SendFail, DestroyClear, tableVars
  <2>2. CASE CreateClaim(c)
    BY <2>2 DEF CreateClaim, Goto, Binding, MutexHeld
  <2>3. CASE CreateStamp(c) \/ SendOk(c) \/ WaitTake(c) \/ WaitTimeout(c) \/ WaitCopy(c)
    BY <2>3 DEF CreateStamp, SendOk, WaitTake, WaitTimeout, WaitCopy, Goto, tableVars
  <2>4. CASE WaitFind(c)
    <3>1. Matching(seq_id[c]) # {}
      BY <2>4, BoundFound DEF WaitFind, Holding
    <3> QED BY <2>4, <3>1 DEF WaitFind, Goto, tableVars
  <2>5. CASE DestroyFree(c)
    <3>1. Matching(seq_id[c]) # {}
      BY <2>5, BoundFound DEF DestroyFree, Holding
    <3> QED BY <2>5, <3>1 DEF DestroyFree, Goto
  <2> QED BY <1>3, <2>1, <2>2, <2>3, <2>4, <2>5 DEF CallStep
<1>4. CASE Resolve \/ Link \/ Finished
  BY <1>4 DEF Resolve, ResolveFind, ResolveHeader, ResolvePayload, ResolveGive, Link,
     ReplyArrives, ReplyLost, Finished, vars, tableVars, callerVars
<1> QED BY <1>2, <1>3, <1>4 DEF Next

LEMMA StepCalling == IInv /\ Calling /\ [Next]_vars => Calling'
<1> SUFFICES ASSUME IInv, Calling, [Next]_vars PROVE Calling'
  OBVIOUS
<1>1. CASE Next
  BY <1>1, StepCallNumbers, StepRepliesToSent, StepClearedUntilCopied,
     StepNestedUnanswered, StepClearedSlotFree DEF Calling
<1>2. CASE UNCHANGED vars
  BY <1>2 DEF Calling, CallNumbers, RepliesToSent, Carried, ClearedUntilCopied,
     NestedUnanswered, ClearedSlotFree, vars, tableVars, callerVars, routerVars, historyVars
<1> QED BY <1>1, <1>2

LEMMA CallingInvariance == Spec => []Calling
BY InitCalling, StepCalling, Invariance, PTL DEF Spec

(* A call that a callback makes is answered by nobody, and ends with an    *)
(* error or with another call's reply.                                     *)
THEOREM NestedCalls == Spec => NestedNeverAnswered
<1>1. IInv /\ Calling /\ [Next]_vars =>
        [\A c \in Callers : callback = c /\ callback' # c => answer'[c].reply # call[c]]_vars
  <2> SUFFICES ASSUME IInv, Calling, Next, NEW c \in Callers, callback = c, callback' # c
               PROVE  answer'[c].reply # call[c]
    OBVIOUS
  <2> USE ConstantsAssumption DEF IInv, TypeOK, CallerTypeOK
  <2>1. call[c] \in 1..MaxCalls
    BY DEF Calling, CallNumbers, LinkTypeOK
  <2>2. Deserialize(out_reply[c]) # call[c]
    BY <2>1 DEF Calling, NestedUnanswered, Deserialize, Garbage
  <2>3. ASSUME NEW d \in Callers, NEW r, Return(d, r)
        PROVE  d = c /\ answer'[c].reply = r
    BY <2>3 DEF Return
  <2>4. ASSUME NEW d \in Callers, CallStep(d) PROVE answer'[c].reply # call[c]
    <3>1. CASE CreateFull(d) \/ SendFail(d)
      BY <2>1, <2>3, <3>1 DEF CreateFull, SendFail
    <3>2. CASE CreateClaim(d) \/ CreateStamp(d) \/ SendOk(d) \/ WaitTake(d)
               \/ WaitTimeout(d) \/ WaitCopy(d)
      BY <3>2 DEF CreateClaim, CreateStamp, SendOk, WaitTake, WaitTimeout, WaitCopy,
         routerVars
    <3>3. CASE WaitFind(d)
      BY <2>1, <2>3, <3>3 DEF WaitFind
    <3>4. CASE DestroyFree(d) \/ DestroyClear(d)
      BY <2>2, <2>3, <3>4 DEF DestroyFree, DestroyClear
    <3> QED BY <2>4, <3>1, <3>2, <3>3, <3>4 DEF CallStep
  <2>5. ASSUME NEW d \in Callers, AllocateSeqId(d) PROVE FALSE
    BY <2>5 DEF AllocateSeqId, RouterFree
  <2>6. CASE Resolve \/ Link \/ Finished
    BY <2>6 DEF Resolve, ResolveFind, ResolveHeader, ResolvePayload, ResolveGive, Link,
       ReplyArrives, ReplyLost, Finished, vars, routerVars
  <2> QED BY <2>4, <2>5, <2>6 DEF Next
<1> QED BY <1>1, Invariance, CallingInvariance, PTL DEF Spec, NestedNeverAnswered

-----------------------------------------------------------------------------
(* Before the id counter has turned round, the id of a call is its number. *)

FirstLap == issued <= MaxSeq

NumbersAreIds ==
  /\ issued < MaxSeq => next_seq_id = issued + 1
  /\ \A c \in Callers : pc[c] # "idle" => seq_id[c] = call[c]

PacketIds ==
  /\ \A n \in Calls : wire[n].left > 0 => wire[n].seq_id = n
  /\ \A k \in 1..Len(rx_queue) : rx_queue[k].seq_id = rx_queue[k].call
  /\ rpc # "receive" => packet.seq_id = packet.call

(* The ids of leaked slots are not in use. *)
LeakedPast ==
  \A s \in leaked : s <= issued /\ \A c \in Callers : pc[c] # "idle" => seq_id[c] # s

OneSlotPerId ==
  \A i, j \in Slots :
    active[i] /\ active[j] /\ slot_seq[i] = slot_seq[j] /\ slot_seq[i] # 0 => i = j

(* What the dispatcher task writes, or has written, to the slot of a call  *)
(* that is not the one it found it for.                                    *)
Writer ==
  \A c \in Callers : rpc # "receive" /\ pc[c] \in Holding /\ Names(c, rslot) =>
    /\ rpc \in {"header", "payload"} /\ call[c] # packet.call => reply[rslot].call # call[c]
    /\ rpc = "give" /\ call[c] = packet.call => reply[rslot].call = packet.call

Lap == NumbersAreIds /\ PacketIds /\ LeakedPast /\ OneSlotPerId /\ Writer

LEMMA NextSeqSucc ==
  ASSUME NEW s \in Nat, s < MaxSeq
  PROVE  NextSeq(s) = s + 1
<1>1. MaxSeq \in Nat /\ s + 1 \in 0..MaxSeq
  BY ConstantsAssumption
<1>2. (s + 1) % (MaxSeq + 1) = s + 1
  BY <1>1
<1> QED BY <1>2 DEF NextSeq

LEMMA InitLap == Init => Lap
BY ConstantsAssumption DEF Init, Lap, NumbersAreIds, PacketIds, LeakedPast, OneSlotPerId,
   Writer, Calls

LEMMA StepNumbersAreIds ==
  ASSUME IInv, Calling, NumbersAreIds, Next, FirstLap'
  PROVE  NumbersAreIds'
<1> USE ConstantsAssumption
    DEF IInv, TypeOK, TableTypeOK, CallerTypeOK, LinkTypeOK, NumbersAreIds, FirstLap
<1>1. ASSUME NEW c \in Callers, AllocateSeqId(c) PROVE NumbersAreIds'
  <2>1. issued < MaxSeq /\ next_seq_id = issued + 1 /\ issued' = issued + 1
    BY <1>1 DEF AllocateSeqId
  <2>2. issued' < MaxSeq => next_seq_id' = issued' + 1
    BY <1>1, <2>1, NextSeqSucc DEF AllocateSeqId
  <2> QED BY <1>1, <2>1, <2>2 DEF AllocateSeqId, Goto
<1>2. ASSUME NEW c \in Callers, NEW r, Return(c, r), UNCHANGED <<issued, next_seq_id>>
      PROVE  NumbersAreIds'
  BY <1>2 DEF Return, Goto
<1>3. ASSUME NEW c \in Callers, CallStep(c) PROVE NumbersAreIds'
  <2>1. CASE CreateFull(c) \/ SendFail(c) \/ DestroyClear(c)
    BY <1>2, <2>1 DEF CreateFull, SendFail, DestroyClear
  <2>2. CASE \/ CreateClaim(c) \/ CreateStamp(c) \/ SendOk(c) \/ WaitTake(c)
             \/ WaitTimeout(c) \/ WaitCopy(c)
    BY <2>2 DEF CreateClaim, CreateStamp, SendOk, WaitTake, WaitTimeout, WaitCopy, Goto,
       historyVars
  <2>3. CASE WaitFind(c) \/ DestroyFree(c)
    <3>1. Matching(seq_id[c]) # {}
      BY <2>3, BoundFound DEF WaitFind, DestroyFree, Holding
    <3> QED BY <2>3, <3>1 DEF WaitFind, DestroyFree, Goto
  <2> QED BY <1>3, <2>1, <2>2, <2>3 DEF CallStep
<1>4. CASE Resolve \/ Link \/ Finished
  BY <1>4 DEF Resolve, ResolveFind, ResolveHeader, ResolvePayload, ResolveGive, Link,
     ReplyArrives, ReplyLost, Finished, vars, callerVars, historyVars
<1> QED BY <1>1, <1>3, <1>4 DEF Next

LEMMA StepPacketIds ==
  ASSUME IInv, NumbersAreIds, PacketIds, Next
  PROVE  PacketIds'
<1> USE ConstantsAssumption
    DEF IInv, TypeOK, CallerTypeOK, RouterTypeOK, LinkTypeOK, PacketIds
<1>1. ASSUME NEW c \in Callers, SendOk(c) \/ SendFail(c) PROVE PacketIds'
  <2>1. pc[c] = "send" /\ seq_id[c] = call[c]
    BY <1>1 DEF SendOk, SendFail, NumbersAreIds
  <2>2. PICK n \in {0, MostReplies} :
          wire' = [wire EXCEPT ![call[c]] = [seq_id |-> seq_id[c], left |-> n]]
    BY <1>1 DEF SendOk, SendFail
  <2>3. \A m \in Calls : wire'[m].left > 0 => wire'[m].seq_id = m
    BY <2>1, <2>2
  <2> QED BY <1>1, <2>3 DEF SendOk, SendFail, routerVars
<1>2. CASE ResolveFind
  <2>1. rx_queue # <<>> /\ rx_queue' = Tail(rx_queue) /\ wire' = wire
    BY <1>2 DEF ResolveFind
  <2>2. \A k \in 1..Len(rx_queue') : rx_queue'[k] = rx_queue[k + 1] /\ k + 1 \in 1..Len(rx_queue)
    BY <2>1
  <2>3. Head(rx_queue) = rx_queue[1] /\ 1 \in 1..Len(rx_queue)
    BY <2>1
  <2>4. rpc' # "receive" => packet' = Head(rx_queue)
    BY <1>2 DEF ResolveFind, RouterFree
  <2> QED BY <2>1, <2>2, <2>3, <2>4
<1>3. CASE ResolveHeader \/ ResolvePayload \/ ResolveGive
  BY <1>3 DEF ResolveHeader, ResolvePayload, ResolveGive
<1>4. ASSUME NEW n \in Calls, ReplyArrives(n) PROVE PacketIds'
  <2> DEFINE p == [seq_id |-> wire[n].seq_id, call |-> n]
  <2>1. p \in Packets /\ p.seq_id = p.call
    BY <1>4 DEF ReplyArrives, Calls, Packets
  <2>2. rx_queue' = Append(rx_queue, p) \/ rx_queue' = rx_queue
    BY <1>4 DEF ReplyArrives
  <2>3. \A k \in 1..Len(rx_queue') :
           rx_queue'[k] = p \/ (k \in 1..Len(rx_queue) /\ rx_queue'[k] = rx_queue[k])
    BY <2>1, <2>2, AppendIndex
  <2>4. \A m \in Calls : wire'[m].left > 0 => wire'[m].seq_id = m
    BY <1>4 DEF ReplyArrives
  <2> QED BY <1>4, <2>1, <2>3, <2>4 DEF ReplyArrives
<1>5. ASSUME NEW n \in Calls, ReplyLost(n) PROVE PacketIds'
  BY <1>5 DEF ReplyLost, routerVars
<1>6. ASSUME NEW c \in Callers,
             \/ AllocateSeqId(c) \/ CreateClaim(c) \/ CreateStamp(c) \/ CreateFull(c)
             \/ WaitFind(c) \/ WaitTake(c) \/ WaitTimeout(c) \/ WaitCopy(c)
             \/ DestroyFree(c) \/ DestroyClear(c)
      PROVE  UNCHANGED <<wire, rx_queue, rpc, packet>>
  BY <1>6 DEF AllocateSeqId, CreateClaim, CreateStamp, CreateFull, WaitFind, WaitTake,
     WaitTimeout, WaitCopy, DestroyFree, DestroyClear, routerVars
<1>7. CASE UNCHANGED <<wire, rx_queue, rpc, packet>>
  BY <1>7
<1>8. CASE Finished
  BY <1>8 DEF Finished, vars, routerVars
<1> QED BY <1>1, <1>2, <1>3, <1>4, <1>5, <1>6, <1>7, <1>8 DEF Next, CallStep, Resolve, Link

LEMMA StepLeakedPast ==
  ASSUME IInv, Calling, NumbersAreIds, LeakedPast, Next, FirstLap'
  PROVE  LeakedPast'
<1> USE ConstantsAssumption
    DEF IInv, TypeOK, TableTypeOK, CallerTypeOK, LinkTypeOK, LeakedPast, SeqIds
<1>1. ASSUME NEW c \in Callers, AllocateSeqId(c) PROVE LeakedPast'
  <2>1. next_seq_id = issued + 1 /\ issued' = issued + 1
    BY <1>1 DEF AllocateSeqId, NumbersAreIds, FirstLap
  <2> QED BY <1>1, <2>1 DEF AllocateSeqId, Goto
<1>2. ASSUME NEW c \in Callers, NEW r, Return(c, r), UNCHANGED <<issued, leaked>>
      PROVE  LeakedPast'
  BY <1>2 DEF Return, Goto
<1>3. ASSUME NEW c \in Callers, CallStep(c) PROVE LeakedPast'
  <2>1. CASE CreateFull(c) \/ DestroyClear(c)
    BY <1>2, <2>1 DEF CreateFull, DestroyClear
  <2>2. CASE SendFail(c)
    <3>1. seq_id[c] <= issued
      BY <2>2 DEF SendFail, NumbersAreIds, Calling, CallNumbers
    <3>2. \A d \in Callers : d # c /\ pc[d] # "idle" => seq_id[d] # seq_id[c]
      BY <2>2 DEF SendFail, Binding, DistinctIds
    <3> QED BY <2>2, <3>1, <3>2 DEF SendFail, Return, Goto
  <2>3. CASE \/ CreateClaim(c) \/ CreateStamp(c) \/ SendOk(c) \/ WaitTake(c)
             \/ WaitTimeout(c) \/ WaitCopy(c)
    BY <2>3 DEF CreateClaim, CreateStamp, SendOk, WaitTake, WaitTimeout, WaitCopy, Goto,
       historyVars
  <2>4. CASE WaitFind(c) \/ DestroyFree(c)
    <3>1. Matching(seq_id[c]) # {}
      BY <2>4, BoundFound DEF WaitFind, DestroyFree, Holding
    <3> QED BY <2>4, <3>1 DEF WaitFind, DestroyFree, Goto
  <2> QED BY <1>3, <2>1, <2>2, <2>3, <2>4 DEF CallStep
<1>4. CASE Resolve \/ Link \/ Finished
  <2>1. UNCHANGED <<issued, leaked, pc, seq_id>>
    BY <1>4 DEF Resolve, ResolveFind, ResolveHeader, ResolvePayload, ResolveGive, Link,
       ReplyArrives, ReplyLost, Finished, vars, callerVars, historyVars
  <2> QED BY <2>1
<1> QED BY <1>1, <1>3, <1>4 DEF Next

(* The id a caller is about to stamp on its slot stands on no other slot. *)
LEMMA StampFresh ==
  ASSUME IInv, LeakedPast, NEW c \in Callers, pc[c] = "stamp",
         NEW j \in Slots, active[j]
  PROVE  slot_seq[j] # seq_id[c]
<1> USE DEF IInv, TypeOK, TableTypeOK, CallerTypeOK, Binding
<1> SUFFICES ASSUME slot_seq[j] = seq_id[c] PROVE FALSE
  OBVIOUS
<1>1. slot_seq[j] \notin leaked
  BY DEF LeakedPast
<1>2. PICK d \in Callers : Keeps(d, j)
  BY <1>1 DEF NoOrphanSlot
<1>3. seq_id[c] # 0
  BY DEF DistinctIds, SeqIds
<1>4. CASE pc[d] \in Holding /\ slot_seq[j] = seq_id[d]
  BY <1>4 DEF DistinctIds, Holding
<1>5. CASE pc[d] = "stamp" /\ slot[d] = j
  BY <1>3, <1>5 DEF ClaimedSlot
<1> QED BY <1>2, <1>4, <1>5 DEF Keeps

LEMMA StepOneSlotPerId ==
  ASSUME IInv, LeakedPast, OneSlotPerId, Next
  PROVE  OneSlotPerId'
<1> USE ConstantsAssumption
    DEF IInv, TypeOK, TableTypeOK, CallerTypeOK, OneSlotPerId
<1>1. ASSUME NEW c \in Callers, CreateClaim(c) PROVE OneSlotPerId'
  <2>1. PICK i \in Free : active' = [active EXCEPT ![i] = TRUE] /\ slot_seq' = slot_seq
    BY <1>1 DEF CreateClaim, IsFirst
  <2>2. i \in Slots /\ slot_seq[i] = 0
    BY <2>1 DEF Free, Binding, FreeSlotsUnnamed
  <2> QED BY <2>1, <2>2
<1>2. ASSUME NEW c \in Callers, CreateStamp(c) PROVE OneSlotPerId'
  <2>1. pc[c] = "stamp" /\ active' = active /\ slot_seq' = [slot_seq EXCEPT ![slot[c]] = seq_id[c]]
    BY <1>2 DEF CreateStamp
  <2>2. \A j \in Slots : active[j] => slot_seq[j] # seq_id[c]
    BY <2>1, StampFresh
  <2> QED BY <2>1, <2>2
<1>3. ASSUME NEW c \in Callers, DestroyFree(c) PROVE OneSlotPerId'
  <2>1. Matching(seq_id[c]) # {}
    BY <1>3, BoundFound DEF DestroyFree, Holding
  <2>2. PICK i \in Slots : active' = [active EXCEPT ![i] = FALSE]
                           /\ slot_seq' = [slot_seq EXCEPT ![i] = 0]
    BY <1>3, <2>1 DEF DestroyFree
  <2> QED BY <2>2
<1>4. ASSUME NEW c \in Callers,
             \/ AllocateSeqId(c) \/ CreateFull(c) \/ SendOk(c) \/ SendFail(c)
             \/ WaitFind(c) \/ WaitTake(c) \/ WaitTimeout(c) \/ WaitCopy(c)
             \/ DestroyClear(c)
      PROVE  UNCHANGED <<active, slot_seq>>
  BY <1>4 DEF AllocateSeqId, CreateFull, SendOk, SendFail, WaitFind, WaitTake,
     WaitTimeout, WaitCopy, DestroyClear, tableVars
<1>5. CASE Resolve \/ Link \/ Finished
  BY <1>5 DEF Resolve, ResolveFind, ResolveHeader, ResolvePayload, ResolveGive, Link,
     ReplyArrives, ReplyLost, Finished, vars, tableVars
<1> QED BY <1>1, <1>2, <1>3, <1>4, <1>5 DEF Next, CallStep

LEMMA StepWriter ==
  ASSUME IInv, Calling, Lap, Next
  PROVE  Writer'
<1> SUFFICES ASSUME NEW c \in Callers, rpc' # "receive", pc'[c] \in Holding, Names(c, rslot)'
             PROVE  /\ rpc' \in {"header", "payload"} /\ call'[c] # packet'.call
                         => reply'[rslot'].call # call'[c]
                    /\ rpc' = "give" /\ call'[c] = packet'.call
                         => reply'[rslot'].call = packet'.call
  BY DEF Writer
<1> DEFINE Good == /\ rpc' \in {"header", "payload"} /\ call'[c] # packet'.call
                        => reply'[rslot'].call # call'[c]
                   /\ rpc' = "give" /\ call'[c] = packet'.call
                        => reply'[rslot'].call = packet'.call
<1> USE ConstantsAssumption
    DEF IInv, TypeOK, TableTypeOK, CallerTypeOK, RouterTypeOK, Names
(* Nothing that matters has changed. *)
<1>1. ASSUME UNCHANGED <<rpc, packet, rslot>>, call'[c] = call[c], pc[c] \in Holding,
             Names(c, rslot), reply'[rslot] = reply[rslot]
      PROVE  Good
  BY <1>1 DEF Writer, Lap
<1>2. rpc # "receive" => rslot \in Slots
  BY DEF RouterSlot
<1>3. ASSUME NEW d \in Callers, AllocateSeqId(d) PROVE Good
  <2>1. c # d
    BY <1>3 DEF AllocateSeqId, Goto, Holding
  <2> QED BY <1>1, <1>3, <2>1 DEF AllocateSeqId, Goto, tableVars
<1>4. ASSUME NEW d \in Callers, CreateClaim(d) PROVE Good
  <2>1. PICK i \in Slots : i \in Free /\ active' = [active EXCEPT ![i] = TRUE]
    BY <1>4 DEF CreateClaim, IsFirst
  <2>2. c # d /\ pc'[c] = pc[c]
    BY <1>4 DEF CreateClaim, Goto, Holding
  <2>3. slot_seq[i] = 0 /\ seq_id[c] # 0
    <3>1. slot_seq[i] = 0
      BY <2>1 DEF Free, Binding, FreeSlotsUnnamed
    <3>2. pc[c] # "idle"
      BY <2>2 DEF Holding
    <3>3. seq_id[c] \in SeqIds
      BY <3>2 DEF Binding, DistinctIds
    <3> QED BY <3>1, <3>3 DEF SeqIds
  <2>4. UNCHANGED <<rpc, packet, rslot, call, reply, slot_seq, seq_id>>
    BY <1>4 DEF CreateClaim, routerVars, historyVars
  <2>5. Names(c, rslot)
    BY <1>2, <2>1, <2>3, <2>4
  <2> QED BY <1>1, <2>2, <2>4, <2>5
<1>5. ASSUME NEW d \in Callers, CreateStamp(d) PROVE Good
  <2>1. /\ pc[d] = "stamp" /\ slot_seq' = [slot_seq EXCEPT ![slot[d]] = seq_id[d]]
        /\ UNCHANGED <<rpc, packet, rslot, call, reply, active, seq_id>>
        /\ pc' = [pc EXCEPT ![d] = "send"]
    BY <1>5 DEF CreateStamp, Goto, routerVars, historyVars
  <2>2. CASE c = d
    <3>1. call[c] \in Calls
      BY <2>1, <2>2 DEF Calling, CallNumbers, Calls, LinkTypeOK
    <3>2. ~Carried(call[c])
      BY <2>1, <2>2, <3>1 DEF Calling, RepliesToSent, Unsent
    <3> QED BY <1>2, <2>1, <3>2 DEF Carried
  <2>3. CASE c # d
    <3>1. seq_id[c] # seq_id[d]
      BY <2>1, <2>3 DEF Binding, DistinctIds, Holding
    <3>2. slot_seq[rslot] = seq_id[c]
      BY <1>2, <2>1, <2>3, <3>1
    <3> QED BY <1>1, <2>1, <2>3, <3>2
  <2> QED BY <2>2, <2>3
<1>6. ASSUME NEW d \in Callers, NEW r, Return(d, r),
             UNCHANGED <<rpc, packet, rslot, active, slot_seq>>,
             reply'[rslot] = reply[rslot]
      PROVE  Good
  <2>1. c # d
    BY <1>6 DEF Return, Goto, Holding
  <2> QED BY <1>1, <1>6, <2>1 DEF Return, Goto
<1>7. ASSUME NEW d \in Callers,
             SendOk(d) \/ WaitTake(d) \/ WaitTimeout(d) \/ WaitCopy(d)
      PROVE  Good
  BY <1>1, <1>7 DEF SendOk, WaitTake, WaitTimeout, WaitCopy, Goto, Holding, tableVars,
     routerVars, historyVars
<1>8. ASSUME NEW d \in Callers, WaitFind(d) PROVE Good
  <2>1. Matching(seq_id[d]) # {}
    BY <1>8, BoundFound DEF WaitFind, Holding
  <2> QED BY <1>1, <1>8, <2>1 DEF WaitFind, Goto, Holding, tableVars
<1>9. ASSUME NEW d \in Callers, DestroyFree(d) PROVE Good
  <2>1. Matching(seq_id[d]) # {}
    BY <1>9, BoundFound DEF DestroyFree, Holding
  <2>2. PICK i \in Slots : active' = [active EXCEPT ![i] = FALSE]
                           /\ slot_seq' = [slot_seq EXCEPT ![i] = 0]
    BY <1>9, <2>1 DEF DestroyFree
  <2>3. /\ UNCHANGED <<rpc, packet, rslot, call, reply, seq_id>>
        /\ pc' = [pc EXCEPT ![d] = "clear"]
    BY <1>9, <2>1 DEF DestroyFree, Goto
  <2>4. c # d /\ pc[c] = pc'[c]
    BY <2>3 DEF Holding
  <2>5. Names(c, rslot)
    BY <1>2, <2>2, <2>3
  <2> QED BY <1>1, <2>3, <2>4, <2>5
<1>10. ASSUME NEW d \in Callers, DestroyClear(d) PROVE Good
  <2>1. rslot # slot[d]
    BY <1>10 DEF DestroyClear, Calling, ClearedSlotFree
  <2> QED BY <1>2, <1>6, <1>10, <2>1 DEF DestroyClear
<1>11. CASE ResolveFind
  <2>1. rx_queue # <<>> /\ Head(rx_queue).seq_id = Head(rx_queue).call
    <3>1. rx_queue # <<>> /\ Head(rx_queue) = rx_queue[1] /\ 1 \in 1..Len(rx_queue)
      BY <1>11 DEF ResolveFind
    <3> QED BY <3>1 DEF Lap, PacketIds
  <2>2. /\ rslot' \in Matching(packet'.seq_id) /\ packet' = Head(rx_queue) /\ rpc' = "header"
        /\ UNCHANGED <<active, slot_seq, pc, seq_id, call>>
    BY <1>11 DEF ResolveFind, RouterFree, IsFirst, tableVars, callerVars, historyVars
  <2>3. seq_id[c] = packet'.call
    BY <2>1, <2>2 DEF Matching
  <2> QED BY <2>2, <2>3 DEF Lap, NumbersAreIds, Holding
<1>12. CASE ResolveHeader \/ ResolvePayload
  <2>1. UNCHANGED <<active, slot_seq, pc, seq_id, call, packet, rslot>> /\ rslot \in Slots
    BY <1>2, <1>12 DEF ResolveHeader, ResolvePayload, callerVars, historyVars
  <2>2. CASE ResolveHeader
    BY <2>1, <2>2 DEF ResolveHeader, Lap, Writer
  <2>3. CASE ResolvePayload
    BY <2>1, <2>3 DEF ResolvePayload
  <2> QED BY <1>12, <2>2, <2>3
<1>13. CASE ResolveGive
  BY <1>13 DEF ResolveGive
<1>14. CASE Link \/ Finished
  <2>1. UNCHANGED <<active, slot_seq, pc, seq_id, call, packet, rslot, rpc, reply>>
    BY <1>14 DEF Link, ReplyArrives, ReplyLost, Finished, vars, tableVars, callerVars,
       routerVars, historyVars
  <2> QED BY <1>1, <2>1
<1>15. ASSUME NEW d \in Callers, CreateFull(d) \/ SendFail(d) PROVE Good
  BY <1>6, <1>15 DEF CreateFull, SendFail, tableVars
<1> QED BY <1>3, <1>4, <1>5, <1>7, <1>8, <1>9, <1>10, <1>11, <1>12, <1>13, <1>14, <1>15
    DEF Next, CallStep, Resolve

LEMMA StepLap ==
  ASSUME IInv, Calling, FirstLap => Lap, [Next]_vars
  PROVE  (FirstLap => Lap)'
<1> SUFFICES ASSUME FirstLap' PROVE Lap'
  OBVIOUS
<1>1. CASE Next
  <2>1. FirstLap
    BY <1>1, IssuedGrows, ConstantsAssumption DEF FirstLap
  <2> QED BY <1>1, <2>1, StepNumbersAreIds, StepPacketIds, StepLeakedPast,
      StepOneSlotPerId, StepWriter DEF Lap
<1>2. CASE UNCHANGED vars
  BY <1>2 DEF FirstLap, Lap, NumbersAreIds, PacketIds, LeakedPast, OneSlotPerId, Writer,
     Names, vars, tableVars, callerVars, routerVars, historyVars
<1> QED BY <1>1, <1>2

-----------------------------------------------------------------------------
(* What stray replies cost, before the id counter has turned round. *)

(* Call c is blocked, or about to block, on slot i. *)
Awaiting(c, i) == pc[c] \in {"find", "wait"} /\ Names(c, i)

(* Semaphores that are given, and not for a reply that a call waits for. *)
Stale ==
  {i \in Slots :
     /\ semaphore[i]
     /\ ~(\E c \in Callers : Awaiting(c, i) /\ reply[i].call = call[c])}

(* Slots from which a call that has woken is to copy another one's reply. *)
Misled ==
  {i \in Slots :
     \E c \in Callers : pc[c] = "copy" /\ slot[c] = i /\ reply[i].call # call[c]}

(* Every stale semaphore and every misled call is paid for. *)
Paid == debt + Cardinality(Stale) + Cardinality(Misled) <= 0

LEMMA SlotsFinite == IsFiniteSet(Slots)
BY FS_Interval, ConstantsAssumption DEF Slots

LEMMA CountSubset ==
  ASSUME NEW A \in SUBSET Slots, NEW B \in SUBSET A
  PROVE  Cardinality(A) \in Nat /\ Cardinality(B) \in Nat /\ Cardinality(B) <= Cardinality(A)
<1>1. IsFiniteSet(A)
  BY SlotsFinite, FS_Subset
<1>2. IsFiniteSet(B) /\ Cardinality(B) <= Cardinality(A)
  BY <1>1, FS_Subset
<1> QED BY <1>1, <1>2, FS_CardinalityType

LEMMA CountAdd ==
  ASSUME NEW A \in SUBSET Slots, NEW i \in Slots
  PROVE  Cardinality(A \cup {i}) <= Cardinality(A) + 1
<1>1. IsFiniteSet(A)
  BY SlotsFinite, FS_Subset
<1>2. Cardinality(A) \in Nat
  BY <1>1, FS_CardinalityType
<1>3. \/ Cardinality(A \cup {i}) = Cardinality(A)
      \/ Cardinality(A \cup {i}) = Cardinality(A) + 1
  BY <1>1, FS_AddElement
<1> QED BY <1>2, <1>3

LEMMA CountRemove ==
  ASSUME NEW A \in SUBSET Slots, NEW i \in A
  PROVE  Cardinality(A \ {i}) = Cardinality(A) - 1
<1>1. IsFiniteSet(A)
  BY SlotsFinite, FS_Subset
<1> QED BY <1>1, FS_RemoveElement

(* The four ways in which a step can move the account. *)
LEMMA PaidKept ==
  ASSUME Paid, debt \in Int, debt' = debt, Stale' \subseteq Stale, Misled' \subseteq Misled
  PROVE  Paid'
<1>1. Stale \in SUBSET Slots /\ Misled \in SUBSET Slots
  BY DEF Stale, Misled
<1> QED BY <1>1, CountSubset DEF Paid

LEMMA PaidByGive ==
  ASSUME Paid, debt \in Int, debt' = debt - 1, NEW i \in Slots,
         Stale' \subseteq Stale \cup {i}, Misled' \subseteq Misled
  PROVE  Paid'
<1>1. Stale \in SUBSET Slots /\ Misled \in SUBSET Slots /\ Stale \cup {i} \in SUBSET Slots
  BY DEF Stale, Misled
<1>2. Cardinality(Stale \cup {i}) <= Cardinality(Stale) + 1
  BY <1>1, CountAdd
<1>3. /\ Cardinality(Stale') <= Cardinality(Stale \cup {i})
      /\ Cardinality(Misled') <= Cardinality(Misled)
      /\ Cardinality(Stale') \in Nat /\ Cardinality(Stale \cup {i}) \in Nat
      /\ Cardinality(Misled') \in Nat /\ Cardinality(Misled) \in Nat
      /\ Cardinality(Stale) \in Nat
  BY <1>1, CountSubset
<1> QED BY <1>2, <1>3 DEF Paid

LEMMA PaidByStale ==
  ASSUME Paid, debt \in Int, debt' = debt, NEW i \in Stale,
         Stale' \subseteq Stale \ {i}, Misled' \subseteq Misled \cup {i}
  PROVE  Paid'
<1>1. /\ Stale \in SUBSET Slots /\ Misled \in SUBSET Slots /\ i \in Slots
      /\ Stale \ {i} \in SUBSET Slots /\ Misled \cup {i} \in SUBSET Slots
  BY DEF Stale, Misled
<1>2. /\ Cardinality(Stale \ {i}) = Cardinality(Stale) - 1
      /\ Cardinality(Misled \cup {i}) <= Cardinality(Misled) + 1
  BY <1>1, CountAdd, CountRemove
<1>3. /\ Cardinality(Stale') <= Cardinality(Stale \ {i})
      /\ Cardinality(Misled') <= Cardinality(Misled \cup {i})
      /\ Cardinality(Stale') \in Nat /\ Cardinality(Stale \ {i}) \in Nat
      /\ Cardinality(Misled') \in Nat /\ Cardinality(Misled \cup {i}) \in Nat
      /\ Cardinality(Stale) \in Nat /\ Cardinality(Misled) \in Nat
  BY <1>1, CountSubset
<1> QED BY <1>2, <1>3 DEF Paid

LEMMA PaidByMisled ==
  ASSUME Paid, debt \in Int, debt' = debt + 1, NEW i \in Misled,
         Stale' \subseteq Stale, Misled' \subseteq Misled \ {i}
  PROVE  Paid'
<1>1. /\ Stale \in SUBSET Slots /\ Misled \in SUBSET Slots
      /\ Misled \ {i} \in SUBSET Slots
  BY DEF Stale, Misled
<1>2. Cardinality(Misled \ {i}) = Cardinality(Misled) - 1
  BY <1>1, CountRemove
<1>3. /\ Cardinality(Stale') <= Cardinality(Stale)
      /\ Cardinality(Misled') <= Cardinality(Misled \ {i})
      /\ Cardinality(Stale') \in Nat /\ Cardinality(Stale) \in Nat
      /\ Cardinality(Misled') \in Nat /\ Cardinality(Misled \ {i}) \in Nat
      /\ Cardinality(Misled) \in Nat
  BY <1>1, CountSubset
<1> QED BY <1>2, <1>3 DEF Paid

LEMMA InitPaid == Init => Paid
<1> SUFFICES ASSUME Init PROVE Paid
  OBVIOUS
<1>1. Stale = {} /\ Misled = {}
  BY DEF Init, Stale, Misled
<1>2. debt = 0 /\ Cardinality({}) = 0
  BY FS_EmptySet DEF Init
<1> QED BY <1>1, <1>2 DEF Paid

(* A step that leaves every semaphore and every reply alone, and every call *)
(* that waits for what it will get.                                        *)
LEMMA PaidMoves ==
  ASSUME Paid, debt \in Int, UNCHANGED <<semaphore, debt>>,
         \A i \in Slots : \A c \in Callers :
           Awaiting(c, i) /\ semaphore[i] /\ reply[i].call = call[c]
           => Awaiting(c, i)' /\ call'[c] = call[c] /\ reply'[i].call = reply[i].call,
         \A c \in Callers : pc'[c] = "copy" /\ slot'[c] \in Slots =>
           /\ pc[c] = "copy" /\ slot'[c] = slot[c] /\ call'[c] = call[c]
           /\ reply[slot[c]].call = call[c] => reply'[slot[c]].call = call[c]
  PROVE  Paid'
<1>1. Stale' \subseteq Stale
  BY DEF Stale
<1>2. Misled' \subseteq Misled
  BY DEF Misled
<1> QED BY <1>1, <1>2, PaidKept

(* A call waits for a slot under its own id, and alone. *)
LEMMA AwaitingAlone ==
  ASSUME IInv, NEW c \in Callers, NEW d \in Callers, NEW i \in Slots,
         pc[c] \in Holding, pc[d] \in Holding, Names(c, i), Names(d, i)
  PROVE  c = d
BY DEF IInv, Binding, DistinctIds, Names, Holding

LEMMA CallPaid ==
  ASSUME IInv, Calling, Lap, Paid, NEW d \in Callers, CallStep(d)
  PROVE  Paid'
<1> USE ConstantsAssumption
    DEF IInv, TypeOK, TableTypeOK, CallerTypeOK, LinkTypeOK, Names, Awaiting
<1>1. \A c \in Callers : pc[c] \in {"wait", "copy", "destroy"} =>
        slot[c] \in Slots /\ Names(c, slot[c])
  BY DEF Binding, BoundSlot
<1>2. \A c \in Callers : pc[c] # "idle" => seq_id[c] # 0
  BY DEF Binding, DistinctIds, SeqIds
<1>3. ASSUME NEW r, Return(d, r), UNCHANGED <<tableVars, debt>>, pc[d] \notin {"find", "wait"}
      PROVE  Paid'
  BY <1>3, PaidMoves DEF Return, Goto, tableVars
<1>4. CASE CreateClaim(d)
  <2>1. PICK i \in Slots : active' = [active EXCEPT ![i] = TRUE]
    BY <1>4 DEF CreateClaim, IsFirst
  <2>2. /\ UNCHANGED <<slot_seq, seq_id, call, reply, semaphore, debt>>
        /\ pc[d] = "create" /\ pc' = [pc EXCEPT ![d] = "stamp"]
        /\ \A c \in Callers : c # d => slot'[c] = slot[c]
    BY <1>4 DEF CreateClaim, Goto, historyVars
  <2> QED BY <2>1, <2>2, PaidMoves
<1>5. CASE CreateStamp(d)
  <2>1. /\ UNCHANGED <<active, seq_id, call, reply, semaphore, debt, slot>>
        /\ slot_seq' = [slot_seq EXCEPT ![slot[d]] = seq_id[d]]
        /\ pc[d] = "stamp" /\ pc' = [pc EXCEPT ![d] = "send"]
    BY <1>5 DEF CreateStamp, Goto, historyVars
  <2>2. slot[d] \in Slots /\ slot_seq[slot[d]] = 0
    BY <2>1 DEF Binding, ClaimedSlot
  <2> QED BY <1>2, <2>1, <2>2, PaidMoves
<1>6. CASE CreateFull(d) \/ SendFail(d)
  BY <1>3, <1>6 DEF CreateFull, SendFail
<1>7. CASE SendOk(d)
  BY <1>7, PaidMoves DEF SendOk, Goto, tableVars, historyVars
<1>8. CASE WaitFind(d)
  <2>1. Matching(seq_id[d]) # {}
    BY <1>8, BoundFound DEF WaitFind, Holding
  <2>2. /\ UNCHANGED <<tableVars, seq_id, call, debt>>
        /\ pc[d] = "find" /\ pc' = [pc EXCEPT ![d] = "wait"]
        /\ \A c \in Callers : c # d => slot'[c] = slot[c]
    BY <1>8, <2>1 DEF WaitFind, Goto
  <2> QED BY <2>2, PaidMoves DEF tableVars
<1>9. CASE WaitTake(d)
  <2> DEFINE s == slot[d]
  <2>1. /\ UNCHANGED <<active, slot_seq, reply, seq_id, slot, call, debt>>
        /\ pc[d] = "wait" /\ pc' = [pc EXCEPT ![d] = "copy"]
        /\ semaphore[s] /\ semaphore' = [semaphore EXCEPT ![s] = FALSE]
    BY <1>9 DEF WaitTake, Goto, historyVars
  <2>2. s \in Slots /\ Names(d, s)
    BY <1>1, <2>1
  <2>3. \A i \in Slots : Names(d, i) => i = s
    BY <1>2, <2>1, <2>2 DEF Lap, OneSlotPerId
  <2> HIDE DEF s
  <2>4. Stale' \subseteq Stale \ {s}
    <3>1. \A i \in Slots : semaphore'[i] => semaphore[i] /\ i # s
      BY <2>1, <2>2
    <3>2. \A i \in Slots : \A c \in Callers :
            i # s /\ Awaiting(c, i) => Awaiting(c, i)' /\ call'[c] = call[c]
      BY <2>1, <2>3
    <3> QED BY <2>1, <3>1, <3>2 DEF Stale
  <2>5. CASE s \in Stale
    <3>1. Misled' \subseteq Misled \cup {s}
      BY <2>1 DEF Misled, s
    <3> QED BY <2>1, <2>4, <2>5, <3>1, PaidByStale
  <2>6. CASE s \notin Stale
    <3>1. PICK c \in Callers : Awaiting(c, s) /\ reply[s].call = call[c]
      BY <2>1, <2>2, <2>6 DEF Stale
    <3>2. c = d
      BY <2>1, <2>2, <3>1, AwaitingAlone DEF Holding
    <3>3. Misled' \subseteq Misled
      BY <2>1, <3>1, <3>2 DEF Misled, s
    <3> QED BY <2>1, <2>4, <3>3, PaidKept
  <2> QED BY <2>5, <2>6
<1>10. CASE WaitTimeout(d)
  <2>1. /\ UNCHANGED <<tableVars, seq_id, slot, call, debt>>
        /\ pc[d] = "wait" /\ pc' = [pc EXCEPT ![d] = "destroy"] /\ ~semaphore[slot[d]]
    BY <1>10 DEF WaitTimeout, Goto, historyVars
  <2>2. \A i \in Slots : Names(d, i) => i = slot[d]
    BY <1>1, <1>2, <2>1 DEF Lap, OneSlotPerId
  <2> QED BY <2>1, <2>2, PaidMoves DEF tableVars
<1>11. CASE WaitCopy(d)
  <2> DEFINE s == slot[d]
  <2>1. /\ UNCHANGED <<tableVars, seq_id, slot, call>>
        /\ pc[d] = "copy" /\ pc' = [pc EXCEPT ![d] = "destroy"]
        /\ debt' = IF reply[s].call = call[d] THEN debt ELSE debt + 1
    BY <1>11 DEF WaitCopy, Goto
  <2>2. s \in Slots /\ Names(d, s)
    BY <1>1, <2>1
  <2>3. CASE reply[s].call = call[d]
    BY <2>1, <2>3, PaidMoves DEF tableVars
  <2>4. CASE reply[s].call # call[d]
    <3>1. s \in Misled
      BY <2>1, <2>2, <2>4 DEF Misled
    <3>2. Stale' \subseteq Stale
      BY <2>1 DEF Stale, tableVars
    <3>3. \A c \in Callers : pc[c] = "copy" /\ slot[c] = s => c = d
      BY <1>1, <2>1, <2>2, AwaitingAlone DEF Holding
    <3>4. Misled' \subseteq Misled \ {s}
      BY <2>1, <3>3 DEF Misled, tableVars
    <3>5. debt' = debt + 1
      BY <2>1, <2>4
    <3> HIDE DEF s
    <3> QED BY <3>1, <3>2, <3>4, <3>5, PaidByMisled
  <2> QED BY <2>3, <2>4
<1>12. CASE DestroyFree(d)
  <2>1. Matching(seq_id[d]) # {}
    BY <1>12, BoundFound DEF DestroyFree, Holding
  <2>2. PICK i \in Matching(seq_id[d]) :
           /\ active' = [active EXCEPT ![i] = FALSE]
           /\ slot_seq' = [slot_seq EXCEPT ![i] = 0]
           /\ slot' = [slot EXCEPT ![d] = i]
    BY <1>12, <2>1 DEF DestroyFree, IsFirst
  <2>3. /\ UNCHANGED <<semaphore, reply, seq_id, call, debt>>
        /\ pc[d] = "destroy" /\ pc' = [pc EXCEPT ![d] = "clear"]
    BY <1>12, <2>1 DEF DestroyFree, Goto
  <2>4. i \in Slots /\ Names(d, i)
    BY <2>2 DEF Matching
  <2>5. \A c \in Callers : Awaiting(c, i) => c = d
    BY <2>3, <2>4, AwaitingAlone DEF Holding
  <2> QED BY <2>2, <2>3, <2>4, <2>5, PaidMoves
<1>13. CASE DestroyClear(d)
  <2>1. slot[d] \in Slots /\ ~active[slot[d]]
    BY <1>13 DEF DestroyClear, Calling, ClearedSlotFree
  <2>2. /\ UNCHANGED <<active, slot_seq, semaphore, debt>>
        /\ reply' = [reply EXCEPT ![slot[d]] = Cleared]
        /\ pc[d] = "clear" /\ pc' = [pc EXCEPT ![d] = "idle"]
        /\ \A c \in Callers : c # d =>
             slot'[c] = slot[c] /\ call'[c] = call[c] /\ seq_id'[c] = seq_id[c]
    BY <1>13 DEF DestroyClear, Return, Goto
  <2> QED BY <1>1, <2>1, <2>2, PaidMoves
<1> QED BY <1>4, <1>5, <1>6, <1>7, <1>8, <1>9, <1>10, <1>11, <1>12, <1>13 DEF CallStep

LEMMA StepPaid ==
  ASSUME IInv, Calling, Lap, Paid, Next
  PROVE  Paid'
<1> USE ConstantsAssumption
    DEF IInv, TypeOK, TableTypeOK, CallerTypeOK, LinkTypeOK, Names, Awaiting
<1>1. ASSUME NEW d \in Callers, AllocateSeqId(d) PROVE Paid'
  BY <1>1, PaidMoves DEF AllocateSeqId, Goto, tableVars
<1>2. CASE Link \/ Finished \/ ResolveFind
  <2>1. UNCHANGED <<tableVars, callerVars, call, debt>>
    BY <1>2 DEF Link, ReplyArrives, ReplyLost, Finished, ResolveFind, vars, historyVars
  <2> QED BY <2>1, PaidMoves DEF tableVars, callerVars
<1>3. CASE ResolveHeader \/ ResolvePayload
  <2>1. /\ UNCHANGED <<active, slot_seq, semaphore, callerVars, call, debt>>
        /\ rpc \in {"header", "payload"} /\ rslot \in Slots
    BY <1>3 DEF ResolveHeader, ResolvePayload, historyVars, RouterSlot
  <2>2. \A c \in Callers : pc[c] \in Holding /\ Names(c, rslot) /\ reply[rslot].call = call[c]
          => reply'[rslot].call = call[c]
    <3>1. CASE ResolveHeader
      BY <2>1, <3>1 DEF ResolveHeader
    <3>2. CASE ResolvePayload
      BY <2>1, <3>2 DEF ResolvePayload, Lap, Writer
    <3> QED BY <1>3, <3>1, <3>2
  <2>3. \A i \in Slots : i # rslot => reply'[i] = reply[i]
    BY <1>3, <2>1 DEF ResolveHeader, ResolvePayload
  <2>4. \A c \in Callers : pc[c] = "copy" => slot[c] \in Slots /\ Names(c, slot[c])
    BY DEF Binding, BoundSlot
  <2>5. \A i \in Slots : \A c \in Callers : pc[c] \in {"find", "wait", "copy"} /\ Names(c, i)
          /\ reply[i].call = call[c] => reply'[i].call = call[c]
    BY <2>2, <2>3 DEF Holding
  <2> QED BY <2>1, <2>4, <2>5, PaidMoves DEF callerVars
<1>4. CASE ResolveGive
  <2>1. /\ rpc = "give" /\ rslot \in Slots
        /\ UNCHANGED <<active, slot_seq, reply, callerVars, call>>
        /\ semaphore' = [semaphore EXCEPT ![rslot] = TRUE]
        /\ debt' = IF Awaited(rslot) THEN debt ELSE debt - 1
    BY <1>4 DEF ResolveGive, RouterSlot
  <2>2. Misled' \subseteq Misled
    BY <2>1 DEF Misled, callerVars
  <2>3. CASE Awaited(rslot)
    <3>1. PICK c \in Callers :
            /\ call[c] = packet.call
            /\ \/ pc[c] = "find" /\ IsFirst(rslot, Matching(seq_id[c]))
               \/ pc[c] = "wait" /\ slot[c] = rslot
      BY <2>3 DEF Awaited
    <3>2. Awaiting(c, rslot)
      BY <2>1, <3>1 DEF IsFirst, Matching, Binding, BoundSlot
    <3>3. reply[rslot].call = call[c]
      BY <2>1, <3>1, <3>2 DEF Lap, Writer, Holding
    <3>4. Stale' \subseteq Stale
      BY <2>1, <3>2, <3>3 DEF Stale, callerVars
    <3> QED BY <2>1, <2>2, <2>3, <3>4, PaidKept
  <2>4. CASE ~Awaited(rslot)
    <3>1. Stale' \subseteq Stale \cup {rslot}
      BY <2>1 DEF Stale, callerVars
    <3> QED BY <2>1, <2>2, <2>4, <3>1, PaidByGive
  <2> QED BY <2>3, <2>4
<1> QED BY <1>1, <1>2, <1>3, <1>4, CallPaid DEF Next, Resolve

LEMMA StepAccount ==
  ASSUME IInv, Calling, FirstLap => Lap /\ Paid, [Next]_vars
  PROVE  (FirstLap => Lap /\ Paid)'
<1>1. (FirstLap => Lap)'
  BY StepLap
<1>2. CASE Next
  BY <1>1, <1>2, IssuedGrows, StepPaid, ConstantsAssumption
     DEF FirstLap, IInv, TypeOK, LinkTypeOK
<1>3. CASE UNCHANGED vars
  BY <1>1, <1>3 DEF FirstLap, Paid, Stale, Misled, Awaiting, Names, vars, tableVars,
     callerVars, historyVars
<1> QED BY <1>2, <1>3

LEMMA AccountInvariance == Spec => [](FirstLap => Lap /\ Paid)
<1>1. Init => (FirstLap => Lap /\ Paid)
  BY InitLap, InitPaid
<1>2. IInv /\ Calling /\ (FirstLap => Lap /\ Paid) /\ [Next]_vars => (FirstLap => Lap /\ Paid)'
  BY StepAccount
<1> QED BY <1>1, <1>2, Invariance, CallingInvariance, PTL DEF Spec

(* A call that wakes for a reply that is not its own is always paid for by  *)
(* a reply that no call was waiting for, however callers, late and          *)
(* duplicated replies interleave, until the id counter has turned round.    *)
THEOREM StrayRepliesBounded == Spec => []DamageBounded
<1>1. IInv /\ (FirstLap => Lap /\ Paid) => DamageBounded
  <2> SUFFICES ASSUME IInv, Paid PROVE debt <= 0
    BY DEF DamageBounded, FirstLap
  <2>1. Stale \in SUBSET Slots /\ Misled \in SUBSET Slots
    BY DEF Stale, Misled
  <2>2. Cardinality(Stale) \in Nat /\ Cardinality(Misled) \in Nat /\ debt \in Int
    BY <2>1, CountSubset DEF IInv, TypeOK, LinkTypeOK
  <2> QED BY <2>2 DEF Paid
<1> QED BY <1>1, Invariance, AccountInvariance, PTL

-----------------------------------------------------------------------------
(* A link that answers in time: why the promise of RequestReply is kept.   *)

(* A request is answered at most once. *)
OnceOnly ==
  /\ \A n \in Calls : wire[n].left <= 1
  /\ \A n \in Calls : wire[n].left > 0 =>
       /\ \A k \in 1..Len(rx_queue) : rx_queue[k].call # n
       /\ rpc # "receive" => packet.call # n
  /\ \A k, l \in 1..Len(rx_queue) : rx_queue[k].call = rx_queue[l].call => k = l
  /\ \A k \in 1..Len(rx_queue) : rx_queue[k].call # 0
  /\ rpc # "receive" => \A k \in 1..Len(rx_queue) : rx_queue[k].call # packet.call

(* The slot the dispatcher task writes to is still the one of the call that *)
(* the packet answers, and no one has been woken for it.                   *)
RouterInTime ==
  rpc # "receive" =>
    /\ active[rslot] /\ slot_seq[rslot] = packet.call /\ packet.call # 0
    /\ ~semaphore[rslot]
    /\ rpc \in {"payload", "give"} => reply[rslot].seq_id = packet.seq_id
    /\ rpc = "give" => reply[rslot].call = packet.call

(* The reply to call n, in the first lap of the ids. *)
Exact(n) == [seq_id |-> n, call |-> n]

(* A given semaphore stands for the whole reply to the call of the slot. *)
GivenInTime ==
  \A i \in Slots : semaphore[i] =>
    /\ active[i] /\ slot_seq[i] \in Calls
    /\ reply[i] = Exact(slot_seq[i])
    /\ ~Answerable(slot_seq[i])

(* A call that has woken, or given up, is not answered again. *)
CallersInTime ==
  \A c \in Callers :
    /\ pc[c] \in {"copy", "destroy"} =>
         ~semaphore[slot[c]] /\ (callback = c \/ ~Answerable(call[c]))
    /\ pc[c] = "copy" => reply[slot[c]] = Exact(call[c])
    /\ pc[c] \in {"destroy", "clear"} => out_reply[c] \in {Cleared, Exact(call[c])}

InTime == OnceOnly /\ RouterInTime /\ GivenInTime /\ CallersInTime

LEMMA InitInTime == Init => InTime
BY ConstantsAssumption DEF Init, InTime, OnceOnly, RouterInTime, GivenInTime, CallersInTime,
   Calls

(* A call that was answered, or may be, is not about to be sent. *)
LEMMA SentBefore ==
  ASSUME IInv, Calling, NEW c \in Callers, pc[c] = "send"
  PROVE  call[c] \in Calls /\ ~Carried(call[c])
<1>1. call[c] \in Calls
  BY ConstantsAssumption DEF IInv, TypeOK, LinkTypeOK, Calling, CallNumbers, Calls
<1> QED BY <1>1 DEF Calling, RepliesToSent, Unsent

(* Only the sending of its request makes a call answerable. *)
LEMMA AnswerableStep ==
  ASSUME IInv, Next, NEW n \in Calls, Answerable(n)'
  PROVE  Answerable(n) \/ \E c \in Callers : call[c] = n /\ pc[c] = "send"
<1> USE ConstantsAssumption DEF IInv, TypeOK, RouterTypeOK, LinkTypeOK, Packets
<1>1. CASE UNCHANGED <<wire, rx_queue, packet, rpc>>
  BY <1>1 DEF Answerable
<1>2. ASSUME NEW c \in Callers, SendOk(c) \/ SendFail(c)
      PROVE  Answerable(n) \/ \E d \in Callers : call[d] = n /\ pc[d] = "send"
  <2>1. /\ pc[c] = "send" /\ UNCHANGED <<rx_queue, packet, rpc>>
        /\ \A m \in Calls \ {call[c]} : wire'[m] = wire[m]
    BY <1>2 DEF SendOk, SendFail, routerVars
  <2> QED BY <2>1 DEF Answerable
<1>3. CASE ResolveFind
  <2>1. /\ rx_queue # <<>> /\ rx_queue' = Tail(rx_queue) /\ rpc = "receive"
        /\ rpc' = rpc \/ packet' = Head(rx_queue)
        /\ UNCHANGED wire
    BY <1>3 DEF ResolveFind, RouterFree
  <2>2. \A k \in 1..Len(rx_queue') : rx_queue'[k] = rx_queue[k + 1] /\ k + 1 \in 1..Len(rx_queue)
    BY <2>1
  <2>3. Head(rx_queue) = rx_queue[1] /\ 1 \in 1..Len(rx_queue)
    BY <2>1
  <2>4. DOMAIN rx_queue' = 1..Len(rx_queue') /\ DOMAIN rx_queue = 1..Len(rx_queue)
    BY <2>1
  <2>5. CASE \E k \in 1..Len(rx_queue') : rx_queue'[k].call = n
    BY <2>2, <2>4, <2>5 DEF Answerable
  <2>6. CASE rpc' # "receive" /\ packet'.call = n
    BY <2>1, <2>3, <2>4, <2>6 DEF Answerable
  <2>7. CASE wire'[n].left > 0
    BY <2>1, <2>7 DEF Answerable
  <2> QED BY <2>4, <2>5, <2>6, <2>7 DEF Answerable
<1>4. CASE ResolveHeader \/ ResolvePayload
  BY <1>4 DEF ResolveHeader, ResolvePayload, Answerable
<1>5. CASE ResolveGive
  BY <1>5 DEF ResolveGive, Answerable
<1>6. ASSUME NEW m \in Calls, ReplyArrives(m) \/ ReplyLost(m) PROVE Answerable(n)
  <2> DEFINE p == [seq_id |-> wire[m].seq_id, call |-> m]
  <2>1. /\ wire'[n].left > 0 => wire[n].left > 0
        /\ wire[m].left > 0
        /\ UNCHANGED <<packet, rpc>>
        /\ rx_queue' = rx_queue \/ rx_queue' = Append(rx_queue, p)
    BY <1>6 DEF ReplyArrives, ReplyLost, routerVars
  <2>2. CASE rx_queue' = rx_queue
    BY <2>1, <2>2 DEF Answerable
  <2>3. CASE rx_queue' = Append(rx_queue, p)
    <3>1. p \in Packets
      BY DEF Calls
    <3>2. \A k \in 1..Len(rx_queue') : rx_queue'[k] = p
                                       \/ (k \in 1..Len(rx_queue) /\ rx_queue'[k] = rx_queue[k])
      BY <2>3, <3>1, AppendIndex
    <3>3. DOMAIN rx_queue' = 1..Len(rx_queue') /\ DOMAIN rx_queue = 1..Len(rx_queue)
      BY <2>3, <3>1
    <3>4. p.call = m
      OBVIOUS
    <3> HIDE DEF p
    <3> QED BY <2>1, <3>2, <3>3, <3>4 DEF Answerable
  <2> QED BY <2>1, <2>2, <2>3
<1>7. ASSUME NEW c \in Callers,
             \/ AllocateSeqId(c) \/ CreateClaim(c) \/ CreateStamp(c) \/ CreateFull(c)
             \/ WaitFind(c) \/ WaitTake(c) \/ WaitTimeout(c) \/ WaitCopy(c)
             \/ DestroyFree(c) \/ DestroyClear(c)
      PROVE  UNCHANGED <<wire, rx_queue, packet, rpc>>
  BY <1>7 DEF AllocateSeqId, CreateClaim, CreateStamp, CreateFull, WaitFind, WaitTake,
     WaitTimeout, WaitCopy, DestroyFree, DestroyClear, routerVars
<1>8. CASE Finished
  BY <1>1, <1>8 DEF Finished, vars, routerVars
<1> QED BY <1>1, <1>2, <1>3, <1>4, <1>5, <1>6, <1>7, <1>8 DEF Next, CallStep, Resolve, Link

LEMMA StepOnceOnly ==
  ASSUME IInv, Calling, timely, OnceOnly, Next
  PROVE  OnceOnly'
<1> USE ConstantsAssumption DEF IInv, TypeOK, RouterTypeOK, LinkTypeOK, Packets
<1>1. CASE UNCHANGED <<wire, rx_queue, packet, rpc>>
  BY <1>1 DEF OnceOnly
<1>2. ASSUME NEW c \in Callers, SendOk(c) \/ SendFail(c) PROVE OnceOnly'
  <2>1. MostReplies \in {0, 1}
    BY DEF MostReplies
  <2>2. PICK m \in {0, 1} :
          wire' = [wire EXCEPT ![call[c]] = [seq_id |-> seq_id[c], left |-> m]]
    BY <1>2, <2>1 DEF SendOk, SendFail
  <2>3. pc[c] = "send" /\ UNCHANGED <<rx_queue, packet, rpc>>
    BY <1>2 DEF SendOk, SendFail, routerVars
  <2>4. call[c] \in Calls /\ ~Carried(call[c])
    BY <2>3, SentBefore
  <2> QED BY <2>2, <2>3, <2>4 DEF OnceOnly, Carried
<1>3. CASE ResolveFind
  <2>1. /\ rx_queue # <<>> /\ rx_queue' = Tail(rx_queue) /\ rpc = "receive"
        /\ rpc' = rpc \/ packet' = Head(rx_queue)
        /\ UNCHANGED wire
    BY <1>3 DEF ResolveFind, RouterFree
  <2>2. \A k \in 1..Len(rx_queue') : rx_queue'[k] = rx_queue[k + 1] /\ k + 1 \in 1..Len(rx_queue)
    BY <2>1
  <2>3. Head(rx_queue) = rx_queue[1] /\ 1 \in 1..Len(rx_queue)
    BY <2>1
  <2>4. \A k \in 1..Len(rx_queue') : k \in Nat /\ k + 1 # 1
    BY <2>1
  <2>5. \A k, l \in 1..Len(rx_queue') : rx_queue'[k].call = rx_queue'[l].call => k = l
    <3> SUFFICES ASSUME NEW k \in 1..Len(rx_queue'), NEW l \in 1..Len(rx_queue'),
                        rx_queue'[k].call = rx_queue'[l].call
                 PROVE  k = l
      OBVIOUS
    <3>1. rx_queue[k + 1].call = rx_queue[l + 1].call
          /\ k + 1 \in 1..Len(rx_queue) /\ l + 1 \in 1..Len(rx_queue)
      BY <2>2
    <3>2. k + 1 = l + 1
      BY <3>1 DEF OnceOnly
    <3> QED BY <2>4, <3>2
  <2>6. rpc' # "receive" => \A k \in 1..Len(rx_queue') : rx_queue'[k].call # packet'.call
    BY <2>1, <2>2, <2>3, <2>4 DEF OnceOnly
  <2> QED BY <2>1, <2>2, <2>3, <2>5, <2>6 DEF OnceOnly
<1>4. CASE ResolveHeader \/ ResolvePayload
  BY <1>4 DEF ResolveHeader, ResolvePayload, OnceOnly
<1>5. CASE ResolveGive
  BY <1>5 DEF ResolveGive, OnceOnly
<1>6. ASSUME NEW m \in Calls, ReplyArrives(m) \/ ReplyLost(m) PROVE OnceOnly'
  <2> DEFINE p == [seq_id |-> wire[m].seq_id, call |-> m]
  <2>1. /\ wire[m].left > 0
        /\ wire' = [wire EXCEPT ![m].left = wire[m].left - 1] \/ wire' = [wire EXCEPT ![m].left = 0]
        /\ UNCHANGED <<packet, rpc>>
        /\ rx_queue' = rx_queue \/ rx_queue' = Append(rx_queue, p)
    BY <1>6 DEF ReplyArrives, ReplyLost, routerVars
  <2>4. wire[m].left = 1
    BY <2>1 DEF OnceOnly
  <2>5. /\ wire'[m].left = 0
        /\ \A n \in Calls : n # m => wire'[n] = wire[n]
    BY <2>1, <2>4
  <2>6. /\ \A n \in Calls : wire'[n].left <= 1
        /\ \A n \in Calls : wire'[n].left > 0 => n # m /\ wire[n].left > 0
    <3> SUFFICES ASSUME NEW n \in Calls
                 PROVE  wire'[n].left <= 1 /\ (wire'[n].left > 0 => n # m /\ wire[n].left > 0)
      OBVIOUS
    <3>1. CASE n = m
      BY <2>5, <3>1
    <3>2. CASE n # m
      BY <2>5, <3>2 DEF OnceOnly
    <3> QED BY <3>1, <3>2
  <2>2. CASE rx_queue' = rx_queue
    BY <2>1, <2>2, <2>6 DEF OnceOnly
  <2>3. CASE rx_queue' = Append(rx_queue, p)
    <3>1. p \in Packets
      BY DEF Calls
    <3>2. \A k \in 1..Len(rx_queue') :
            \/ k = Len(rx_queue) + 1 /\ rx_queue'[k] = p
            \/ k \in 1..Len(rx_queue) /\ rx_queue'[k] = rx_queue[k]
      BY <2>3, <3>1, AppendIndex
    <3>3. p.call = m /\ m # 0
      BY DEF Calls
    <3>4. /\ \A k \in 1..Len(rx_queue) : rx_queue[k].call # m
          /\ rpc # "receive" => packet.call # m
      BY <2>1 DEF OnceOnly
    <3>5. \A k, l \in 1..Len(rx_queue') : rx_queue'[k].call = rx_queue'[l].call => k = l
      BY <3>2, <3>3, <3>4 DEF OnceOnly
    <3>6. \A n \in Calls : wire'[n].left > 0 =>
            \A k \in 1..Len(rx_queue') : rx_queue'[k].call # n
      <4> SUFFICES ASSUME NEW n \in Calls, wire'[n].left > 0,
                          NEW k \in 1..Len(rx_queue'), rx_queue'[k].call = n
                   PROVE  FALSE
        OBVIOUS
      <4>1. n # m /\ wire[n].left > 0
        BY <2>6
      <4>2. k \in 1..Len(rx_queue) /\ rx_queue[k].call = n
        BY <3>2, <3>3, <4>1
      <4> QED BY <4>1, <4>2 DEF OnceOnly
    <3>7. rpc # "receive" => \A k \in 1..Len(rx_queue') : rx_queue'[k].call # packet.call
      BY <3>2, <3>3, <3>4 DEF OnceOnly
    <3>8. \A k \in 1..Len(rx_queue') : rx_queue'[k].call # 0
      BY <3>2, <3>3 DEF OnceOnly
    <3> HIDE DEF p
    <3> QED BY <2>1, <2>6, <3>5, <3>6, <3>7, <3>8 DEF OnceOnly
  <2> QED BY <2>1, <2>2, <2>3
<1>7. ASSUME NEW c \in Callers,
             \/ AllocateSeqId(c) \/ CreateClaim(c) \/ CreateStamp(c) \/ CreateFull(c)
             \/ WaitFind(c) \/ WaitTake(c) \/ WaitTimeout(c) \/ WaitCopy(c)
             \/ DestroyFree(c) \/ DestroyClear(c)
      PROVE  UNCHANGED <<wire, rx_queue, packet, rpc>>
  BY <1>7 DEF AllocateSeqId, CreateClaim, CreateStamp, CreateFull, WaitFind, WaitTake,
     WaitTimeout, WaitCopy, DestroyFree, DestroyClear, routerVars
<1>8. CASE Finished
  BY <1>1, <1>8 DEF Finished, vars, routerVars
<1> QED BY <1>1, <1>2, <1>3, <1>4, <1>5, <1>6, <1>7, <1>8 DEF Next, CallStep, Resolve, Link

(* A call that has woken or given up has no claim to the dispatcher's slot. *)
LEMMA NotTheRouters ==
  ASSUME IInv, Calling, Lap, RouterInTime, CallersInTime, rpc # "receive",
         NEW c \in Callers, pc[c] \in {"copy", "destroy"}
  PROVE  ~Names(c, rslot)
<1> SUFFICES ASSUME Names(c, rslot) PROVE FALSE
  OBVIOUS
<1>1. call[c] = packet.call
  BY DEF Names, RouterInTime, Lap, NumbersAreIds
<1>2. Answerable(call[c])
  BY <1>1 DEF Answerable
<1>3. callback = c
  BY <1>2 DEF CallersInTime
<1> QED BY <1>3, ConstantsAssumption DEF Calling, CallNumbers

LEMMA StepRouterInTime ==
  ASSUME IInv, Calling, Lap, InTime, Next
  PROVE  RouterInTime'
<1> USE ConstantsAssumption DEF IInv, TypeOK, TableTypeOK, CallerTypeOK, RouterTypeOK, Packets
<1>1. rpc # "receive" => rslot \in Slots
  BY DEF RouterSlot
<1>2. ASSUME UNCHANGED <<rpc, packet, rslot>>,
             rpc # "receive" => /\ active[rslot] => active'[rslot]
                                /\ slot_seq'[rslot] = slot_seq[rslot]
                                /\ semaphore'[rslot] => semaphore[rslot]
                                /\ reply'[rslot] = reply[rslot]
      PROVE  RouterInTime'
  BY <1>2 DEF InTime, RouterInTime
<1>3. ASSUME NEW d \in Callers,
             \/ AllocateSeqId(d) \/ CreateFull(d) \/ SendOk(d) \/ SendFail(d) \/ WaitFind(d)
             \/ WaitTimeout(d) \/ WaitCopy(d)
      PROVE  RouterInTime'
  <2>1. UNCHANGED <<tableVars, rpc, packet, rslot>>
    BY <1>3 DEF AllocateSeqId, CreateFull, SendOk, SendFail, WaitFind, WaitTimeout, WaitCopy,
       routerVars
  <2> QED BY <1>2, <2>1 DEF tableVars
<1>4. ASSUME NEW d \in Callers, CreateClaim(d) PROVE RouterInTime'
  <2>1. PICK i \in Slots : i \in Free /\ active' = [active EXCEPT ![i] = TRUE]
    BY <1>4 DEF CreateClaim, IsFirst
  <2>2. UNCHANGED <<slot_seq, reply, semaphore, rpc, packet, rslot>>
    BY <1>4 DEF CreateClaim, routerVars
  <2>3. rpc # "receive" => active[rslot] /\ active'[rslot]
    BY <1>1, <2>1 DEF InTime, RouterInTime
  <2> QED BY <1>2, <2>2, <2>3
<1>5. ASSUME NEW d \in Callers, CreateStamp(d) PROVE RouterInTime'
  <2>1. /\ slot_seq' = [slot_seq EXCEPT ![slot[d]] = seq_id[d]] /\ pc[d] = "stamp"
        /\ UNCHANGED <<active, reply, semaphore, rpc, packet, rslot>>
    BY <1>5 DEF CreateStamp, routerVars
  <2>2. slot_seq[slot[d]] = 0
    BY <2>1 DEF Binding, ClaimedSlot
  <2>3. rpc # "receive" => rslot # slot[d]
    BY <2>2 DEF InTime, RouterInTime
  <2> QED BY <1>1, <1>2, <2>1, <2>3
<1>6. ASSUME NEW d \in Callers, WaitTake(d) PROVE RouterInTime'
  <2>1. /\ semaphore' = [semaphore EXCEPT ![slot[d]] = FALSE]
        /\ UNCHANGED <<active, slot_seq, reply, rpc, packet, rslot>>
    BY <1>6 DEF WaitTake, routerVars
  <2>2. rpc # "receive" => (semaphore'[rslot] => semaphore[rslot])
    BY <1>1, <2>1
  <2> QED BY <1>2, <2>1, <2>2
<1>7. ASSUME NEW d \in Callers, DestroyFree(d) PROVE RouterInTime'
  <2>1. Matching(seq_id[d]) # {}
    BY <1>7, BoundFound DEF DestroyFree, Holding
  <2>2. PICK i \in Matching(seq_id[d]) :
           /\ active' = [active EXCEPT ![i] = FALSE]
           /\ slot_seq' = [slot_seq EXCEPT ![i] = 0]
    BY <1>7, <2>1 DEF DestroyFree, IsFirst
  <2>3. pc[d] = "destroy" /\ UNCHANGED <<semaphore, reply, rpc, packet, rslot>>
    BY <1>7 DEF DestroyFree
  <2>4. rpc # "receive" => rslot # i
    BY <2>2, <2>3, NotTheRouters DEF Matching, Names, InTime
  <2>5. rpc # "receive" => active'[rslot] = active[rslot] /\ slot_seq'[rslot] = slot_seq[rslot]
    BY <1>1, <2>2, <2>4
  <2> QED BY <1>2, <2>3, <2>5
<1>8. ASSUME NEW d \in Callers, DestroyClear(d) PROVE RouterInTime'
  <2>1. ~active[slot[d]]
    BY <1>8 DEF DestroyClear, Calling, ClearedSlotFree
  <2>2. /\ reply' = [reply EXCEPT ![slot[d]] = Cleared]
        /\ UNCHANGED <<active, slot_seq, semaphore, rpc, packet, rslot>>
    BY <1>8 DEF DestroyClear
  <2>3. rpc # "receive" => slot[d] # rslot
    BY <2>1 DEF InTime, RouterInTime
  <2>4. rpc # "receive" => reply'[rslot] = reply[rslot]
    BY <1>1, <2>2, <2>3
  <2> QED BY <1>2, <2>2, <2>4
<1>9. CASE ResolveFind
  <2>1. rx_queue # <<>> /\ Head(rx_queue) = rx_queue[1] /\ 1 \in 1..Len(rx_queue)
        /\ 1 \in DOMAIN rx_queue
    BY <1>9 DEF ResolveFind
  <2> DEFINE p == Head(rx_queue)
  <2>2. p.seq_id = p.call /\ p.call # 0 /\ Answerable(p.call)
    BY <2>1 DEF Lap, PacketIds, InTime, OnceOnly, Answerable
  <2>3. CASE rpc' = "receive"
    BY <2>3 DEF RouterInTime
  <2>4. CASE rpc' # "receive"
    <3>1. /\ rslot' \in Matching(p.seq_id) /\ packet' = p /\ rpc' = "header"
          /\ UNCHANGED tableVars
      BY <1>9, <2>4 DEF ResolveFind, RouterFree, IsFirst
    <3>2. rslot' \in Slots /\ active[rslot'] /\ slot_seq[rslot'] = p.call
      BY <2>2, <3>1 DEF Matching
    <3>3. ~semaphore[rslot']
      BY <2>2, <3>2 DEF InTime, GivenInTime
    <3> HIDE DEF p
    <3> QED BY <2>2, <3>1, <3>2, <3>3 DEF RouterInTime, tableVars
  <2> QED BY <2>3, <2>4
<1>10. CASE ResolveHeader
  BY <1>1, <1>10 DEF ResolveHeader, InTime, RouterInTime
<1>11. CASE ResolvePayload
  BY <1>1, <1>11 DEF ResolvePayload, InTime, RouterInTime
<1>12. CASE ResolveGive
  BY <1>12 DEF ResolveGive, RouterInTime
<1>13. CASE Link \/ Finished
  <2>1. UNCHANGED <<tableVars, rpc, packet, rslot>>
    BY <1>13 DEF Link, ReplyArrives, ReplyLost, Finished, vars, routerVars
  <2> QED BY <1>2, <2>1 DEF tableVars
<1> QED BY <1>3, <1>4, <1>5, <1>6, <1>7, <1>8, <1>9, <1>10, <1>11, <1>12, <1>13
    DEF Next, CallStep, Resolve

LEMMA StepGivenInTime ==
  ASSUME IInv, Calling, Lap, InTime, Next
  PROVE  GivenInTime'
<1> USE DEF IInv, TypeOK, TableTypeOK, CallerTypeOK
<1> SUFFICES ASSUME NEW i \in Slots, semaphore'[i]
             PROVE  /\ active'[i] /\ slot_seq'[i] \in Calls
                    /\ reply'[i] = Exact(slot_seq'[i])
                    /\ ~Answerable(slot_seq[i])'
  BY DEF GivenInTime
<1> DEFINE Good == /\ active'[i] /\ slot_seq'[i] \in Calls
                   /\ reply'[i] = Exact(slot_seq'[i])
                   /\ ~Answerable(slot_seq[i])'
<1> SUFFICES Good
  OBVIOUS
<1> HIDE DEF Good
<1>1. semaphore[i] => /\ active[i] /\ slot_seq[i] \in Calls /\ reply[i] = Exact(slot_seq[i])
                      /\ ~Answerable(slot_seq[i])
  BY DEF InTime, GivenInTime
<1>2. ASSUME semaphore[i], active'[i], slot_seq'[i] = slot_seq[i], reply'[i] = reply[i]
      PROVE  Good
  <2>1. PICK n \in Calls : n = slot_seq[i] /\ reply[i].call = n /\ ~Answerable(n)
    BY <1>1, <1>2 DEF Exact
  <2>2. Carried(n)
    BY <2>1 DEF Carried
  <2>3. \A c \in Callers : pc[c] = "send" => call[c] # n
    BY <2>2, SentBefore
  <2>4. ~Answerable(n)'
    BY <2>1, <2>3, AnswerableStep
  <2>5. ~Answerable(slot_seq[i])'
    BY <1>2, <2>1, <2>4 DEF Answerable
  <2> QED BY <1>1, <1>2, <2>5 DEF Good
<1>3. ASSUME NEW d \in Callers,
             \/ AllocateSeqId(d) \/ CreateFull(d) \/ SendOk(d) \/ SendFail(d) \/ WaitFind(d)
             \/ WaitTimeout(d) \/ WaitCopy(d)
      PROVE  Good
  <2>1. UNCHANGED tableVars
    BY <1>3 DEF AllocateSeqId, CreateFull, SendOk, SendFail, WaitFind, WaitTimeout, WaitCopy
  <2> QED BY <1>1, <1>2, <2>1 DEF tableVars
<1>4. ASSUME NEW d \in Callers, CreateClaim(d) PROVE Good
  <2>1. PICK j \in Slots : active' = [active EXCEPT ![j] = TRUE]
    BY <1>4 DEF CreateClaim, IsFirst
  <2> QED BY <1>1, <1>2, <1>4, <2>1 DEF CreateClaim
<1>5. ASSUME NEW d \in Callers, CreateStamp(d) PROVE Good
  <2>1. /\ slot_seq' = [slot_seq EXCEPT ![slot[d]] = seq_id[d]] /\ pc[d] = "stamp"
        /\ UNCHANGED <<active, reply, semaphore>>
    BY <1>5 DEF CreateStamp
  <2>2. slot_seq[slot[d]] = 0
    BY <2>1 DEF Binding, ClaimedSlot
  <2>3. i # slot[d]
    BY <1>1, <2>1, <2>2 DEF Calls
  <2> QED BY <1>1, <1>2, <2>1, <2>3
<1>6. ASSUME NEW d \in Callers, WaitTake(d) PROVE Good
  <2>1. semaphore[i]
    BY <1>6 DEF WaitTake
  <2> QED BY <1>1, <1>2, <1>6, <2>1 DEF WaitTake
<1>7. ASSUME NEW d \in Callers, DestroyFree(d) PROVE Good
  <2>1. Matching(seq_id[d]) # {}
    BY <1>7, BoundFound DEF DestroyFree, Holding
  <2>2. PICK j \in Matching(seq_id[d]) :
           /\ active' = [active EXCEPT ![j] = FALSE]
           /\ slot_seq' = [slot_seq EXCEPT ![j] = 0]
    BY <1>7, <2>1 DEF DestroyFree, IsFirst
  <2>3. pc[d] = "destroy" /\ UNCHANGED <<semaphore, reply>>
    BY <1>7 DEF DestroyFree
  <2>4. /\ j \in Slots /\ Names(d, j)
        /\ slot[d] \in Slots /\ Names(d, slot[d])
        /\ seq_id[d] # 0
    <3>1. slot[d] \in Slots /\ Names(d, slot[d])
      BY <2>3 DEF Binding, BoundSlot
    <3>2. seq_id[d] \in SeqIds
      BY <2>3 DEF Binding, DistinctIds
    <3> QED BY <2>2, <3>1, <3>2 DEF Matching, Names, SeqIds
  <2>5. j = slot[d]
    BY <2>4 DEF Names, Lap, OneSlotPerId
  <2>6. i # j
    BY <2>3, <2>5 DEF InTime, CallersInTime
  <2> QED BY <1>1, <1>2, <2>2, <2>3, <2>6
<1>8. ASSUME NEW d \in Callers, DestroyClear(d) PROVE Good
  <2>1. ~active[slot[d]]
    BY <1>8 DEF DestroyClear, Calling, ClearedSlotFree
  <2> QED BY <1>1, <1>2, <1>8, <2>1 DEF DestroyClear
<1>9. CASE ResolveHeader \/ ResolvePayload
  <2>1. /\ rpc # "receive" /\ UNCHANGED <<active, slot_seq, semaphore>>
        /\ \A j \in Slots : j # rslot => reply'[j] = reply[j]
    BY <1>9 DEF ResolveHeader, ResolvePayload
  <2>2. i # rslot
    BY <2>1 DEF InTime, RouterInTime
  <2> QED BY <1>1, <1>2, <2>1, <2>2
<1>10. CASE ResolveGive
  <2>1. /\ rpc = "give" /\ rpc' = "receive" /\ semaphore' = [semaphore EXCEPT ![rslot] = TRUE]
        /\ UNCHANGED <<active, slot_seq, reply, wire, rx_queue>>
    BY <1>10 DEF ResolveGive
  <2>2. CASE i # rslot
    BY <1>1, <1>2, <2>1, <2>2
  <2>3. CASE i = rslot
    <3>0. PICK n \in Calls : n = packet.call
      BY <2>1, ConstantsAssumption DEF InTime, RouterInTime, Calls, RouterTypeOK, Packets
    <3>1. /\ active[i] /\ slot_seq[i] = n
          /\ reply[i].seq_id = n /\ reply[i].call = n
      BY <2>1, <2>3, <3>0 DEF InTime, RouterInTime, Lap, PacketIds
    <3>2. reply[i] = Exact(n)
      BY <3>1 DEF Exact, Packets
    <3>3. wire[n].left = 0 /\ \A k \in DOMAIN rx_queue : rx_queue[k].call # n
      <4>1. wire[n].left \in Nat /\ DOMAIN rx_queue = 1..Len(rx_queue)
        BY ConstantsAssumption DEF LinkTypeOK, RouterTypeOK
      <4> QED BY <2>1, <3>0, <4>1 DEF InTime, OnceOnly
    <3>4. ~Answerable(slot_seq[i])'
      BY <2>1, <3>1, <3>3 DEF Answerable
    <3> QED BY <2>1, <3>1, <3>2, <3>4 DEF Good
  <2> QED BY <2>2, <2>3
<1>11. CASE ResolveFind \/ Link \/ Finished
  <2>1. UNCHANGED tableVars
    BY <1>11 DEF ResolveFind, Link, ReplyArrives, ReplyLost, Finished, vars
  <2> QED BY <1>1, <1>2, <2>1 DEF tableVars
<1> QED BY <1>3, <1>4, <1>5, <1>6, <1>7, <1>8, <1>9, <1>10, <1>11
    DEF Next, CallStep, Resolve

LEMMA StepCallersInTime ==
  ASSUME IInv, Calling, Lap, InTime, timely, Next
  PROVE  CallersInTime'
<1> USE DEF IInv, TypeOK, TableTypeOK, CallerTypeOK
<1> SUFFICES ASSUME NEW c \in Callers
             PROVE  /\ pc'[c] \in {"copy", "destroy"} =>
                         ~semaphore'[slot'[c]] /\ (callback' = c \/ ~Answerable(call[c])')
                    /\ pc'[c] = "copy" => reply'[slot'[c]] = Exact(call'[c])
                    /\ pc'[c] \in {"destroy", "clear"} =>
                         out_reply'[c] \in {Cleared, Exact(call'[c])}
  BY DEF CallersInTime
<1> DEFINE Good == /\ pc'[c] \in {"copy", "destroy"} =>
                        ~semaphore'[slot'[c]] /\ (callback' = c \/ ~Answerable(call[c])')
                   /\ pc'[c] = "copy" => reply'[slot'[c]] = Exact(call'[c])
                   /\ pc'[c] \in {"destroy", "clear"} =>
                        out_reply'[c] \in {Cleared, Exact(call'[c])}
<1> SUFFICES Good
  OBVIOUS
<1> HIDE DEF Good
<1>1. /\ pc[c] \in {"copy", "destroy"} =>
           ~semaphore[slot[c]] /\ (callback = c \/ ~Answerable(call[c]))
      /\ pc[c] = "copy" => reply[slot[c]] = Exact(call[c])
      /\ pc[c] \in {"destroy", "clear"} => out_reply[c] \in {Cleared, Exact(call[c])}
  BY DEF InTime, CallersInTime
<1>2. pc[c] \in {"wait", "copy", "destroy"} => slot[c] \in Slots /\ Names(c, slot[c])
  BY DEF Binding, BoundSlot
(* An answered call stays so. *)
<1>3. ASSUME pc[c] \notin {"idle", "send"}, call'[c] = call[c], ~Answerable(call[c])
      PROVE  ~Answerable(call[c])'
  <2>1. PICK n \in Calls : n = call[c]
    BY <1>3, ConstantsAssumption DEF Calling, CallNumbers, Calls, LinkTypeOK
  <2>2. \A d \in Callers : pc[d] = "send" => call[d] # n
    BY <1>3, <2>1 DEF Calling, CallNumbers, Calls
  <2>3. ~Answerable(n)'
    BY <1>3, <2>1, <2>2, AnswerableStep
  <2> QED BY <1>3, <2>1, <2>3 DEF Answerable
(* A step of others that does not touch the slot of c. *)
<1>4. ASSUME pc'[c] = pc[c], call'[c] = call[c], slot'[c] = slot[c],
             out_reply'[c] = out_reply[c],
             callback = c => callback' = c,
             pc[c] \in {"copy", "destroy"} => (semaphore'[slot[c]] => semaphore[slot[c]]),
             pc[c] = "copy" => reply'[slot[c]] = reply[slot[c]]
      PROVE  Good
  BY <1>1, <1>3, <1>4 DEF Good
<1>5. ASSUME NEW d \in Callers, AllocateSeqId(d) PROVE Good
  <2>1. CASE c = d
    BY <1>5, <2>1 DEF AllocateSeqId, Goto, Good
  <2>2. CASE c # d
    <3>1. callback = c => callback' = c
      BY <1>5, ConstantsAssumption DEF AllocateSeqId, RouterFree
    <3> QED BY <1>4, <1>5, <2>2, <3>1 DEF AllocateSeqId, Goto, tableVars
  <2> QED BY <2>1, <2>2
<1>6. ASSUME NEW d \in Callers, NEW r, Return(d, r), semaphore' = semaphore,
             pc[c] = "copy" => reply'[slot[c]] = reply[slot[c]]
      PROVE  Good
  <2>1. CASE c = d
    BY <1>6, <2>1 DEF Return, Goto, Good
  <2>2. CASE c # d
    BY <1>4, <1>6, <2>2 DEF Return, Goto
  <2> QED BY <2>1, <2>2
<1>7. ASSUME NEW d \in Callers,
             CreateClaim(d) \/ CreateStamp(d) \/ SendOk(d) \/ WaitFind(d)
      PROVE  Good
  <2>1. \/ Matching(seq_id[d]) # {}
        \/ CreateClaim(d) \/ CreateStamp(d) \/ SendOk(d)
    BY <1>7, BoundFound DEF WaitFind, Holding
  <2>2. /\ pc'[d] \in {"stamp", "send", "find", "wait"}
        /\ \A b \in Callers : b # d => pc'[b] = pc[b] /\ slot'[b] = slot[b]
        /\ UNCHANGED <<call, out_reply, callback, semaphore, reply>>
    <3>1. CASE CreateClaim(d)
      BY <3>1 DEF CreateClaim, Goto, routerVars, historyVars
    <3>2. CASE CreateStamp(d) \/ SendOk(d)
      BY <3>2 DEF CreateStamp, SendOk, Goto, routerVars, historyVars, tableVars
    <3>3. CASE WaitFind(d) /\ Matching(seq_id[d]) # {}
      BY <3>3 DEF WaitFind, Goto, tableVars
    <3> QED BY <1>7, <2>1, <3>1, <3>2, <3>3
  <2>3. CASE c = d
    BY <2>2, <2>3 DEF Good
  <2>4. CASE c # d
    BY <1>4, <2>2, <2>4
  <2> QED BY <2>3, <2>4
<1>8. ASSUME NEW d \in Callers, CreateFull(d) \/ SendFail(d) PROVE Good
  BY <1>6, <1>8 DEF CreateFull, SendFail, tableVars
<1>9. ASSUME NEW d \in Callers, WaitTake(d) PROVE Good
  <2>1. /\ pc[d] = "wait" /\ pc' = [pc EXCEPT ![d] = "copy"] /\ semaphore[slot[d]]
        /\ semaphore' = [semaphore EXCEPT ![slot[d]] = FALSE]
        /\ UNCHANGED <<call, slot, out_reply, callback, reply>>
    BY <1>9 DEF WaitTake, Goto, routerVars, historyVars
  <2>2. CASE c = d
    <3>1. slot_seq[slot[c]] = call[c] /\ slot[c] \in Slots
      BY <1>2, <2>1, <2>2 DEF Names, Lap, NumbersAreIds
    <3>2. reply[slot[c]] = Exact(call[c]) /\ ~Answerable(call[c])
      BY <2>1, <2>2, <3>1 DEF InTime, GivenInTime
    <3>3. ~Answerable(call[c])'
      BY <1>3, <2>1, <2>2, <3>2
    <3>4. pc'[c] = "copy" /\ ~semaphore'[slot[c]]
      BY <2>1, <2>2, <3>1
    <3> QED BY <2>1, <3>2, <3>3, <3>4 DEF Good
  <2>3. CASE c # d
    <3>1. pc[c] \in {"copy", "destroy"} => (semaphore'[slot[c]] => semaphore[slot[c]])
      BY <1>2, <2>1
    <3> QED BY <1>4, <2>1, <2>3, <3>1
  <2> QED BY <2>2, <2>3
<1>10. ASSUME NEW d \in Callers, WaitTimeout(d) PROVE Good
  <2>1. /\ pc[d] = "wait" /\ pc' = [pc EXCEPT ![d] = "destroy"] /\ ~semaphore[slot[d]]
        /\ callback = d \/ ~Answerable(call[d])
        /\ UNCHANGED <<call, slot, out_reply, callback, reply, semaphore>>
    BY <1>10 DEF WaitTimeout, Goto, routerVars, historyVars, tableVars
  <2>2. CASE c = d
    <3>1. out_reply[c] = Cleared
      BY <2>1, <2>2 DEF Calling, ClearedUntilCopied
    <3>2. callback' = c \/ ~Answerable(call[c])'
      BY <1>3, <2>1, <2>2
    <3>3. pc'[c] = "destroy"
      BY <2>1, <2>2
    <3> QED BY <2>1, <2>2, <3>1, <3>2, <3>3 DEF Good
  <2>3. CASE c # d
    BY <1>4, <2>1, <2>3
  <2> QED BY <2>2, <2>3
<1>11. ASSUME NEW d \in Callers, WaitCopy(d) PROVE Good
  <2>1. /\ pc[d] = "copy" /\ pc' = [pc EXCEPT ![d] = "destroy"]
        /\ out_reply' = [out_reply EXCEPT ![d] = reply[slot[d]]]
        /\ UNCHANGED <<call, slot, callback, reply, semaphore>>
    BY <1>11 DEF WaitCopy, Goto, routerVars, tableVars
  <2>2. CASE c = d
    <3>1. out_reply'[c] = Exact(call[c])
      BY <1>1, <2>1, <2>2
    <3>2. callback' = c \/ ~Answerable(call[c])'
      BY <1>1, <1>3, <2>1, <2>2
    <3>3. pc'[c] = "destroy" /\ ~semaphore[slot[c]]
      BY <1>1, <2>1, <2>2
    <3> QED BY <2>1, <3>1, <3>2, <3>3 DEF Good
  <2>3. CASE c # d
    BY <1>4, <2>1, <2>3
  <2> QED BY <2>2, <2>3
<1>12. ASSUME NEW d \in Callers, DestroyFree(d) PROVE Good
  <2>1. Matching(seq_id[d]) # {}
    BY <1>12, BoundFound DEF DestroyFree, Holding
  <2>2. /\ pc[d] = "destroy" /\ pc' = [pc EXCEPT ![d] = "clear"]
        /\ \A b \in Callers : b # d => slot'[b] = slot[b]
        /\ UNCHANGED <<call, out_reply, callback, reply, semaphore>>
    BY <1>12, <2>1 DEF DestroyFree, Goto
  <2>3. CASE c = d
    BY <1>1, <2>2, <2>3 DEF Good
  <2>4. CASE c # d
    BY <1>4, <2>2, <2>4
  <2> QED BY <2>3, <2>4
<1>13. ASSUME NEW d \in Callers, DestroyClear(d) PROVE Good
  <2>1. ~active[slot[d]] /\ reply' = [reply EXCEPT ![slot[d]] = Cleared]
    BY <1>13 DEF DestroyClear, Calling, ClearedSlotFree
  <2>2. pc[c] = "copy" => reply'[slot[c]] = reply[slot[c]]
    BY <1>2, <2>1 DEF Names
  <2> QED BY <1>6, <1>13, <2>2 DEF DestroyClear
<1>14. CASE ResolveHeader \/ ResolvePayload
  <2>1. /\ rpc # "receive" /\ UNCHANGED <<pc, call, slot, out_reply, callback, semaphore>>
        /\ \A j \in Slots : j # rslot => reply'[j] = reply[j]
    BY <1>14 DEF ResolveHeader, ResolvePayload, callerVars, historyVars
  <2>2. pc[c] = "copy" => slot[c] # rslot
    BY <1>2, <2>1, NotTheRouters DEF InTime
  <2>3. pc[c] = "copy" => reply'[slot[c]] = reply[slot[c]]
    BY <1>2, <2>1, <2>2
  <2> QED BY <1>4, <2>1, <2>3
<1>15. CASE ResolveGive
  <2>1. /\ rpc # "receive" /\ semaphore' = [semaphore EXCEPT ![rslot] = TRUE]
        /\ UNCHANGED <<pc, call, slot, out_reply, callback, reply>>
    BY <1>15 DEF ResolveGive, callerVars
  <2>2. pc[c] \in {"copy", "destroy"} => slot[c] # rslot
    BY <1>2, <2>1, NotTheRouters DEF InTime
  <2>3. pc[c] \in {"copy", "destroy"} => (semaphore'[slot[c]] => semaphore[slot[c]])
    BY <1>2, <2>1, <2>2
  <2> QED BY <1>4, <2>1, <2>3
<1>16. CASE ResolveFind \/ Link \/ Finished
  <2>1. UNCHANGED <<tableVars, callerVars, callback, call>>
    BY <1>16 DEF ResolveFind, Link, ReplyArrives, ReplyLost, Finished, vars, routerVars,
       historyVars
  <2> QED BY <1>4, <2>1 DEF tableVars, callerVars
<1> QED BY <1>5, <1>7, <1>8, <1>9, <1>10, <1>11, <1>12, <1>13, <1>14, <1>15, <1>16
    DEF Next, CallStep, Resolve

(* The link keeps its pace. *)
LEMMA PaceKept == Next => timely' = timely
BY DEF Next, AllocateSeqId, CallStep, CreateClaim, CreateStamp, CreateFull, SendOk, SendFail,
   WaitFind, WaitTake, WaitTimeout, WaitCopy, DestroyFree, DestroyClear, Resolve, ResolveFind,
   ResolveHeader, ResolvePayload, ResolveGive, Link, ReplyArrives, ReplyLost, Finished, vars

LEMMA StepInTime ==
  ASSUME IInv, Calling, FirstLap => Lap, timely /\ FirstLap => InTime, [Next]_vars
  PROVE  (timely /\ FirstLap => InTime)'
<1>1. CASE Next
  <2> SUFFICES ASSUME timely', FirstLap' PROVE InTime'
    OBVIOUS
  <2>1. timely
    BY <1>1, PaceKept
  <2>2. FirstLap
    BY <1>1, IssuedGrows, ConstantsAssumption DEF FirstLap
  <2>3. Lap /\ InTime
    BY <2>1, <2>2
  <2>4. OnceOnly'
    BY <1>1, <2>1, <2>3, StepOnceOnly DEF InTime
  <2> QED BY <1>1, <2>1, <2>3, <2>4, StepRouterInTime, StepGivenInTime, StepCallersInTime
      DEF InTime
<1>2. CASE UNCHANGED vars
  BY <1>2 DEF FirstLap, InTime, OnceOnly, RouterInTime, GivenInTime, CallersInTime,
     Answerable, vars, tableVars, callerVars, routerVars, historyVars
<1> QED BY <1>1, <1>2

LEMMA InTimeInvariance == Spec => [](timely /\ FirstLap => InTime)
<1>1. Init => (timely /\ FirstLap => InTime)
  BY InitInTime
<1>2. IInv /\ Calling /\ (FirstLap => Lap) /\ (timely /\ FirstLap => InTime) /\ [Next]_vars
        => (timely /\ FirstLap => InTime)'
  BY StepInTime
<1>3. Spec => [](FirstLap => Lap)
  BY AccountInvariance, PTL
<1> QED BY <1>1, <1>2, <1>3, Invariance, CallingInvariance, PTL DEF Spec

(* A call whose link is timely ends with an error or with the reply to that *)
(* very call: call_service() implements RequestReply, for any number of    *)
(* callers and slots, as long as the ids have not turned round.  (After a  *)
(* turn a new call can draw the id of a slot that a failed send has leaked, *)
(* and the promise is lost.)                                               *)
THEOREM PromiseKeptInTime ==
  ASSUME MaxCalls <= MaxSeq
  PROVE  Spec => PromiseKept
<1> USE ConstantsAssumption
<1>1. IInv => FirstLap
  BY DEF IInv, TypeOK, LinkTypeOK, FirstLap
<1>2. Init => Promise!Init
  BY DEF Init, Promise!Init, NoAnswer, Promise!NoAnswer, Promise!NoReply
<1>3. ASSUME IInv, Calling, timely => InTime, [Next]_vars
      PROVE  [Promise!Next]_Promise!vars
  <2> USE <1>3 DEF IInv, TypeOK, CallerTypeOK, Promise!vars
  <2>1. CASE UNCHANGED vars
    BY <2>1 DEF vars, historyVars
  <2>2. CASE Next /\ ~timely
    <3>1. timely' = timely
      BY <2>2, PaceKept
    <3> QED BY <2>2, <3>1
  <2>3. CASE Next /\ timely
    <3>1. timely' = timely
      BY <2>3, PaceKept
    <3>2. ASSUME UNCHANGED <<issued, call, answer>> PROVE [Promise!Next]_Promise!vars
      BY <3>1, <3>2
    <3>3. ASSUME NEW c \in Callers, AllocateSeqId(c) PROVE [Promise!Next]_Promise!vars
      <4>1. call[c] = 0
        BY <3>3 DEF AllocateSeqId, Calling, CallNumbers
      <4>2. Promise!Begin(c)
        BY <2>3, <3>1, <3>3, <4>1
           DEF AllocateSeqId, Promise!Begin, NoAnswer, Promise!NoAnswer, Promise!NoReply
      <4> QED BY <4>2 DEF Promise!Next
    <3>4. ASSUME NEW c \in Callers, NEW r \in {0, call[c]}, Return(c, r), pc[c] # "idle",
                 issued' = issued
          PROVE  [Promise!Next]_Promise!vars
      <4>1. call[c] # 0
        BY <3>4 DEF Calling, CallNumbers, LinkTypeOK
      <4>2. Promise!End(c, r)
        BY <2>3, <3>1, <3>4, <4>1 DEF Return, Promise!End
      <4>3. Promise!Succeed(c) \/ Promise!Fail(c)
        BY <2>3, <3>4, <4>2 DEF Promise!Succeed, Promise!Fail, Promise!NoReply
      <4> QED BY <4>3 DEF Promise!Next
    <3>5. ASSUME NEW c \in Callers, CallStep(c) PROVE [Promise!Next]_Promise!vars
      <4>1. CASE CreateFull(c) \/ SendFail(c)
        BY <3>4, <4>1 DEF CreateFull, SendFail
      <4>2. CASE DestroyClear(c)
        <5>1. pc[c] = "clear"
          BY <4>2 DEF DestroyClear
        <5>2. out_reply[c] \in {Cleared, Exact(call[c])}
          BY <2>3, <5>1 DEF InTime, CallersInTime
        <5>3. call[c] # 0
          BY <5>1 DEF Calling, CallNumbers, LinkTypeOK
        <5>4. Deserialize(out_reply[c]) \in {0, call[c]}
          BY <5>2, <5>3 DEF Deserialize, Cleared, Exact
        <5> QED BY <3>4, <4>2, <5>1, <5>4 DEF DestroyClear
      <4>3. CASE WaitFind(c) \/ DestroyFree(c)
        <5>1. Matching(seq_id[c]) # {}
          BY <4>3, BoundFound DEF WaitFind, DestroyFree, Holding
        <5> QED BY <3>2, <4>3, <5>1 DEF WaitFind, DestroyFree
      <4>4. CASE \/ CreateClaim(c) \/ CreateStamp(c) \/ SendOk(c) \/ WaitTake(c)
                 \/ WaitTimeout(c) \/ WaitCopy(c)
        BY <3>2, <4>4 DEF CreateClaim, CreateStamp, SendOk, WaitTake, WaitTimeout, WaitCopy,
           historyVars
      <4> QED BY <3>5, <4>1, <4>2, <4>3, <4>4 DEF CallStep
    <3>6. CASE Resolve \/ Link \/ Finished
      BY <3>2, <3>6 DEF Resolve, ResolveFind, ResolveHeader, ResolvePayload, ResolveGive,
         Link, ReplyArrives, ReplyLost, Finished, vars, historyVars
    <3> QED BY <2>3, <3>3, <3>5, <3>6 DEF Next
  <2> QED BY <2>1, <2>2, <2>3
<1>4. ASSUME IInv, Calling, timely /\ FirstLap => InTime, [Next]_vars
      PROVE  [Promise!Next]_Promise!vars
  BY <1>1, <1>3, <1>4
<1> QED BY <1>2, <1>4, Invariance, CallingInvariance, InTimeInvariance, PTL
    DEF Spec, PromiseKept, Promise!Spec
=============================================================================
